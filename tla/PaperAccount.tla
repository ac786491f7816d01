---------------------------- MODULE PaperAccount ----------------------------
(***************************************************************************)
(* The paper-mode account: PaperAccountStateService with its four tables   *)
(* (open rows, closed-trade history, snapshots, audit chain), and the      *)
(* services around it: funding accrual, mark-to-market and the drawdown    *)
(* abort, and the reconciliation of memory against the rows.               *)
(*                                                                         *)
(* Every mutator runs withAuditedTransaction: it waits for the advisory    *)
(* lock, reads and writes the tables, commits, and only then, in a         *)
(* continuation after the await, changes memory.  Between commit and       *)
(* continuation the tables are ahead of memory.                            *)
(*                                                                         *)
(* Money is in small integers; a position's gain is the mark itself, so    *)
(* entry price, side and size are folded into it.  There is one symbol.    *)
(***************************************************************************)
EXTENDS Integers, Sequences, FiniteSets, FiniteSetsExt

CONSTANTS
    Coids,       \* client order ids of the positions
    Callers,     \* concurrent calls of the mutators
    Start,       \* PAPER_STARTING_EQUITY_USDT
    Pnls,        \* realised pnl net of fees of a close
    Fundings,    \* signed funding amounts
    Marks,       \* gains of one position at a mark price
    MaxOps,      \* bound: mutator calls in a behaviour
    MaxCrashes,  \* bound: restarts
    None         \* no mark, no snapshot, no pass

ConstantsOK ==
    /\ Start \in Nat \ {0} /\ MaxOps \in Nat /\ MaxCrashes \in Nat
    /\ Pnls \subseteq Int /\ Fundings \subseteq Int /\ Marks \subseteq Int
    /\ IsFiniteSet(Coids) /\ {"free", "abort handler"} \cap Callers = {}
    /\ None \notin [bal : Int, peak : Int, fund : Int]

Handler == "abort handler"
Slots == Callers \union {Handler}

VARIABLES
    rows,      \* client order ids in paper_account_state
    booked,    \* cash of all paper_account_state_history rows: pnl plus funding
    histFund,  \* funding column of all history rows
    audit,     \* paper_state_audit: per row the row its prev_row_hash names
    snap,      \* the latest paper_account_snapshots row
    lock,      \* holder of the advisory lock
    call,      \* the calls in progress
    pos,       \* memory: funding accrued per open position
    bal,       \* memory: balanceUsdt
    fund,      \* memory: fundingAccruedCumulative
    peak,      \* memory: peakEquity
    mark,      \* memory: lastMarkPrices of the symbol
    timer,     \* memory: an MTM throttle timer is pending
    tripped,   \* PaperDrawdownAbortHandler.hasTripped
    halted,    \* HaltFlagService
    view,      \* the reconciliation pass: positions it read in memory
    drifted,   \* PaperReconciliationAdapter.haltLatched
    ops, crashes,
    unsaved,   \* history: a close is not in the latest snapshot
    lost,      \* history: a restart went back behind a close
    late       \* history: funding applied to a position closed meanwhile

db == <<rows, booked, histFund, audit, snap>>
memory == <<pos, bal, fund, peak>>
mtm == <<mark, timer, tripped>>
recon == <<view, drifted>>
history == <<unsaved, lost, late>>
vars == <<rows, booked, histFund, audit, snap, lock, call, pos, bal, fund, peak,
          mark, timer, tripped, halted, view, drifted, ops, crashes, unsaved, lost, late>>

Idle == [op |-> "none"]

Free(c) == call[c] = Idle
InPhase(c, p) == ~Free(c) /\ call[c].pc = p
Total(f) == MapThenSumSet(LAMBDA x : f[x], DOMAIN f)
WithoutMutant(f, x) == f

Without(f, x) == [y \in DOMAIN f \ {x} |-> f[y]]

With(f, x, v) == [y \in DOMAIN f \union {x} |-> IF y = x THEN v ELSE f[y]]
-----------------------------------------------------------------------------
Init ==
    /\ rows = {} /\ booked = 0 /\ histFund = 0 /\ audit = <<0>> /\ snap = None
    /\ lock = "free" /\ call = [c \in Slots |-> Idle]
    /\ pos = <<>> /\ bal = Start /\ fund = 0 /\ peak = Start
    /\ mark = None /\ timer = FALSE /\ tripped = FALSE /\ halted = FALSE
    /\ view = None /\ drifted = FALSE
    /\ ops = 0 /\ crashes = 0
    /\ unsaved = FALSE /\ lost = FALSE /\ late = 0
(* A call of a mutator.  openPosition first looks for its client order id  *)
(* outside the transaction and returns at once when it has a row; a caller *)
(* closes or funds a position that is in memory.                           *)
Begin(c, op, id, amount) ==
    /\ Free(c) /\ ops < MaxOps
    /\ ops' = ops + 1
    /\ call' = [call EXCEPT ![c] = [op |-> op, id |-> id, amount |-> amount, pc |-> "waits",
                                    tip |-> 0, bal |-> 0, peak |-> 0]]
    /\ UNCHANGED <<db, lock, memory, mtm, halted, recon, crashes, history>>

OpenPosition(c, id) == id \notin rows /\ Begin(c, "open", id, 0)

ClosePosition(c, id, pnl) == id \in DOMAIN pos /\ Begin(c, "close", id, pnl)

ApplyFunding(c, id, amount) == id \in DOMAIN pos /\ Begin(c, "fund", id, amount)

(* One writer takes the snapshots.  The caller passes the unrealised pnl.  *)
RecordSnapshot(c) ==
    /\ \A d \in Slots : ~Free(d) => call[d].op # "snapshot"
    /\ mark # None
    /\ Begin(c, "snapshot", "account", mark * Cardinality(DOMAIN pos))

MaxOfMutant(a, b) == b

MaxOf(a, b) == IF a >= b THEN a ELSE b

LockFreeMutant == TRUE

(* The lock is granted; the snapshot reads memory in the same breath,      *)
(* every mutator finds the tip of the audit chain while it holds the lock. *)
LockFree == lock = "free"

AcquireAuditAdvisoryLock(c) ==
    /\ InPhase(c, "waits") /\ LockFree
    /\ lock' = c
    /\ call' = [call EXCEPT ![c].pc = "locked", ![c].tip = Len(audit), ![c].bal = bal,
                            ![c].peak = MaxOf(peak, bal + call[c].amount)]
    /\ UNCHANGED <<db, memory, mtm, halted, recon, ops, crashes, history>>

ClosedFundingMutant(id) == 0

(* The funding column of a close: what the position accrued in memory.     *)
ClosedFunding(id) == IF id \in DOMAIN pos THEN pos[id] ELSE 0

(* The body of a transaction takes several round trips under the lock      *)
(* before it commits; by then the continuation of the commit before it,    *)
(* whose answer left the database first, has run.                          *)
Committed == {d \in Slots : InPhase(d, "committed")}
Answered(c) == InPhase(c, "locked") /\ Committed = {}

Release(c, pc) ==
    /\ lock' = IF lock = c THEN "free" ELSE lock
    /\ call' = [call EXCEPT ![c] = IF pc = "done" THEN Idle ELSE [@ EXCEPT !.pc = pc]]

AppendAuditRow(c) == audit' = Append(audit, call[c].tip)

CommitOpen(c) ==
    /\ Answered(c) /\ call[c].op = "open"
    /\ IF call[c].id \in rows
       THEN Release(c, "done") /\ UNCHANGED <<rows, audit>>
       ELSE /\ Release(c, "committed") /\ AppendAuditRow(c)
            /\ rows' = rows \union {call[c].id}
    /\ UNCHANGED <<booked, histFund, snap, memory, mtm, halted, recon, ops, crashes, history>>

(* A close settles its funding with its pnl into the balance.              *)
CashDeltaMutant(pnl, f) == pnl

CashDelta(pnl, f) == pnl + f

(* Without a row a close throws.                                           *)
CommitClose(c) ==
    /\ Answered(c) /\ call[c].op = "close"
    /\ IF call[c].id \notin rows
       THEN Release(c, "done") /\ UNCHANGED <<db, unsaved>>
       ELSE LET f == ClosedFunding(call[c].id) IN
            /\ lock' = "free"
            /\ call' = [call EXCEPT ![c].pc = "committed", ![c].bal = CashDelta(call[c].amount, f)]
            /\ AppendAuditRow(c)
            /\ rows' = rows \ {call[c].id}
            /\ booked' = booked + call[c].amount + f /\ histFund' = histFund + f
            /\ unsaved' = TRUE
            /\ UNCHANGED snap
    /\ UNCHANGED <<memory, mtm, halted, recon, ops, crashes, lost, late>>

CommitSnapshot(c) ==
    /\ Answered(c) /\ call[c].op = "snapshot"
    /\ Release(c, "committed") /\ AppendAuditRow(c)
    /\ snap' = [bal |-> call[c].bal, peak |-> call[c].peak, fund |-> fund]
    /\ unsaved' = (call[c].bal # Start + booked)
    /\ UNCHANGED <<rows, booked, histFund, memory, mtm, halted, recon, ops, crashes, lost, late>>

(* applyFunding and appendStandaloneAuditRow only add to the chain.        *)
CommitAuditOnly(c) ==
    /\ Answered(c) /\ call[c].op \in {"fund", "abort"}
    /\ Release(c, "committed") /\ AppendAuditRow(c)
    /\ UNCHANGED <<rows, booked, histFund, snap, memory, mtm, halted, recon, ops, crashes, history>>

RollBack(c) ==
    /\ InPhase(c, "locked")
    /\ Release(c, "done")
    /\ UNCHANGED <<db, memory, mtm, halted, recon, ops, crashes, history>>
-----------------------------------------------------------------------------
(* evaluateDrawdownAbort: equity at or below 85 % of the peak.             *)
Equity(b, p, m) == b + m * Cardinality(DOMAIN p)
AbortDue(b, p, m) == m # None /\ Equity(b, p, m) * 100 <= peak * 85

(* emitMarkToMarketEvent and PaperDrawdownAbortHandler.onMarkToMarket: the *)
(* first trip of the process halts and writes an audit row of its own.     *)
Evaluate(b, p, others) ==
    IF AbortDue(b, p, mark) /\ ~tripped
    THEN /\ tripped' = TRUE /\ halted' = TRUE
         /\ call' = [others EXCEPT ![Handler] =
                        [op |-> "abort", id |-> "account", amount |-> 0, pc |-> "waits",
                         tip |-> 0, bal |-> 0, peak |-> 0]]
    ELSE call' = others /\ UNCHANGED <<tripped, halted>>

(* onCommit: the continuation after the transaction's await.               *)
ApplyOpen(c) ==
    /\ InPhase(c, "committed") /\ call[c].op = "open"
    /\ pos' = With(pos, call[c].id, 0)
    /\ call' = [call EXCEPT ![c] = Idle]
    /\ UNCHANGED <<db, lock, bal, fund, peak, mtm, halted, recon, ops, crashes, history>>

ApplyClose(c) ==
    /\ InPhase(c, "committed") /\ call[c].op = "close"
    /\ pos' = Without(pos, call[c].id)
    /\ bal' = bal + call[c].bal
    /\ call' = [call EXCEPT ![c] = Idle]
    /\ UNCHANGED <<db, lock, fund, peak, mtm, halted, recon, ops, crashes, history>>

ApplyFund(c) ==
    /\ InPhase(c, "committed") /\ call[c].op = "fund"
    /\ fund' = fund + call[c].amount
    /\ LET id == call[c].id IN
       IF id \in DOMAIN pos
       THEN pos' = [pos EXCEPT ![id] = @ + call[c].amount] /\ late' = late
       ELSE pos' = pos /\ late' = late + call[c].amount
    /\ timer' = FALSE
    /\ Evaluate(bal, pos', [call EXCEPT ![c] = Idle])
    /\ UNCHANGED <<db, lock, bal, peak, mark, recon, ops, crashes, unsaved, lost>>

ApplySnapshot(c) ==
    /\ InPhase(c, "committed") /\ call[c].op = "snapshot"
    /\ peak' = call[c].peak
    /\ call' = [call EXCEPT ![c] = Idle]
    /\ UNCHANGED <<db, lock, pos, bal, fund, mtm, halted, recon, ops, crashes, history>>

ApplyAbort ==
    /\ InPhase(Handler, "committed")
    /\ call' = [call EXCEPT ![Handler] = Idle]
    /\ UNCHANGED <<db, lock, memory, mtm, halted, recon, ops, crashes, history>>
-----------------------------------------------------------------------------
(* notifyMarkPrice: the mark is kept, one timer per symbol evaluates later.*)
NotifyMarkPrice(m) ==
    /\ mark' = m /\ timer' = TRUE
    /\ UNCHANGED <<db, lock, call, memory, tripped, halted, recon, ops, crashes, history>>

FlushMtm ==
    /\ timer /\ timer' = FALSE
    /\ Evaluate(bal, pos, call)
    /\ UNCHANGED <<db, lock, memory, mark, recon, ops, crashes, history>>

(* PaperReconciliationAdapter.runPass: memory first, then, after an await, *)
(* the rows.  A difference halts, once per process.                        *)
ReadMemory ==
    /\ view = None /\ view' = DOMAIN pos
    /\ UNCHANGED <<db, lock, call, memory, mtm, halted, drifted, ops, crashes, history>>

DiffStates(inMemory, persisted) == inMemory # persisted

CriticalAbort == drifted' = TRUE /\ halted' = TRUE

CompareRows ==
    /\ view # None /\ view' = None
    /\ IF DiffStates(view, rows) /\ ~drifted
       THEN CriticalAbort
       ELSE UNCHANGED <<drifted, halted>>
    /\ UNCHANGED <<db, lock, call, memory, mtm, ops, crashes, history>>

Resume ==
    /\ halted /\ halted' = FALSE
    /\ UNCHANGED <<db, lock, call, memory, mtm, recon, ops, crashes, history>>

(* A restart.  The walk over the audit chain must succeed; the positions   *)
(* come from the rows with no funding, balance and counters from the       *)
(* latest snapshot, the peak no lower than the starting equity.            *)
ChainIntact == \A i \in 1..Len(audit) : audit[i] = i - 1

RestoredPeakMutant == IF snap = None THEN Start ELSE snap.bal

RestoredPeak == IF snap = None THEN Start ELSE MaxOf(snap.peak, Start)

RestoreFromPersisted ==
    /\ crashes < MaxCrashes /\ crashes' = crashes + 1
    /\ ChainIntact
    /\ pos' = [id \in rows |-> 0]
    /\ bal' = IF snap = None THEN Start ELSE snap.bal
    /\ fund' = IF snap = None THEN 0 ELSE snap.fund
    /\ peak' = RestoredPeak
    /\ lost' = (lost \/ unsaved)
    /\ lock' = "free" /\ call' = [c \in Slots |-> Idle]
    /\ mark' = None /\ timer' = FALSE /\ tripped' = FALSE /\ halted' = FALSE
    /\ view' = None /\ drifted' = FALSE
    /\ UNCHANGED <<db, ops, unsaved, late>>

Next ==
    \/ \E c \in Callers, id \in Coids : OpenPosition(c, id)
    \/ \E c \in Callers, id \in Coids, pnl \in Pnls : ClosePosition(c, id, pnl)
    \/ \E c \in Callers, id \in Coids, a \in Fundings : ApplyFunding(c, id, a)
    \/ \E c \in Callers : RecordSnapshot(c)
    \/ \E c \in Slots : \/ AcquireAuditAdvisoryLock(c) \/ CommitOpen(c) \/ CommitClose(c)
                        \/ CommitSnapshot(c) \/ CommitAuditOnly(c) \/ RollBack(c)
    \/ \E c \in Callers : ApplyOpen(c) \/ ApplyClose(c) \/ ApplyFund(c) \/ ApplySnapshot(c)
    \/ ApplyAbort
    \/ \E m \in Marks : NotifyMarkPrice(m)
    \/ FlushMtm \/ ReadMemory \/ CompareRows \/ Resume \/ RestoreFromPersisted

Spec == Init /\ [][Next]_vars
-----------------------------------------------------------------------------
TypeOK ==
    /\ rows \subseteq Coids /\ DOMAIN pos \subseteq Coids
    /\ booked \in Int /\ histFund \in Int /\ bal \in Int /\ fund \in Int /\ late \in Int
    /\ audit \in Seq(Nat)
    /\ snap = None \/ DOMAIN snap = {"bal", "peak", "fund"}
    /\ lock \in Slots \union {"free"} /\ (lock # "free" => InPhase(lock, "locked"))
    /\ peak \in Nat /\ mark \in Marks \union {None}
    /\ \A b \in {timer, tripped, halted, drifted, unsaved, lost} : b \in BOOLEAN
    /\ view = None \/ view \subseteq Coids
    /\ ops \in 0..MaxOps /\ crashes \in 0..MaxCrashes

(* No two mutators chain their audit row to the same tip: the walk at the  *)
(* next boot (verifyAuditChainIntegrity) accepts whatever was committed.   *)
ChainLinear == ChainIntact

InFlight == {c \in Slots : ~Free(c)}

(* The cash ledger in memory is the starting equity plus the closed-trade  *)
(* rows, unless a restart went back to a snapshot older than a close.      *)
LedgerMatchesHistory == InFlight = {} /\ ~lost => bal = Start + booked

(* Memory and rows name the same open positions whenever no call is        *)
(* between its commit and its continuation.                                *)
MemoryMatchesRows == Committed = {} => DOMAIN pos = rows

(* In one process no funding disappears: what was applied is on a closed   *)
(* row, on an open position, or came after its position was closed.        *)
FundingAccounted ==
    InFlight = {} /\ crashes = 0 => fund = histFund + Total(pos) + late

(* The peak that the drawdown threshold hangs on never falls, restarts     *)
(* included (ADR 0032 D5).                                                 *)
PeakNeverFalls == [][peak' >= peak]_peak

(* What PaperReconciliationAdapter assumes of its own reading: a drift it  *)
(* halts on is a real difference of memory and rows, not a call that came  *)
(* between its two reads.                                                  *)
DriftIsReal == [][drifted' /\ ~drifted => DOMAIN pos # rows /\ InFlight = {}]_drifted

(* The drawdown abort is armed again after an operator resumed: an         *)
(* evaluation that finds the drawdown leaves the engine halted.            *)
AbortRearmed == [][(timer /\ ~timer' /\ AbortDue(bal, pos, mark) /\ crashes' = crashes) => halted']_vars
=============================================================================
