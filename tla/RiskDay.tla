------------------------------- MODULE RiskDay -------------------------------
(***************************************************************************)
(* The accounting columns of today's risk_state row and their writers: the *)
(* lifecycle listener, which recomputes the day from the position rows on  *)
(* every opened and closed event of the executor; the reconciliation tick, *)
(* which adjusts open_exposure by reading the row and writing it back; and *)
(* the boot, which rebuilds the exposure.  The gate reads the row for the  *)
(* daily loss limit and the position rows for the loss streak.             *)
(***************************************************************************)
EXTENDS Integers, Sequences, FiniteSets, FiniteSetsExt, SequencesExt

CONSTANTS Positions,    \* ids, in the order they may be opened
          Results,      \* realized result of a close
          DailyLimit,   \* loss of a day that blocks entries
          StreakLimit,  \* CONSECUTIVE_LOSS_HALT_COUNT
          Handlers,     \* event handlers that may run at the same time
          Overlap,      \* TRUE: a writer may start while another is between read and write
          MaxDay, MaxCrashes,   \* bounds
          None

VARIABLES day,
          pos,          \* id -> [state, qty, pnl, day, via]
          closed,       \* ids in the order they closed
          row,          \* day -> None or the row
          job,          \* writer -> what it has read so far
          up,           \* FALSE between a crash and the end of the boot
          crashes,
          admitted      \* history: ids admitted by the gate, with the state it decided on

vars == <<day, pos, closed, row, job, up, crashes, admitted>>

Writers == Handlers \cup {"tick", "boot"}
Idle == [pc |-> "idle"]
Quiet == \A w \in Writers : job[w].pc = "idle"
MayStart(w) == job[w].pc = "idle" /\ (Overlap \/ \A v \in Writers \ {"boot"} : job[v].pc = "idle")

Empty == [pnl |-> 0, exposure |-> 0, trades |-> 0, halted |-> FALSE]
Loaded(r) == IF r = None THEN Empty ELSE r

ConstantsOK ==
    /\ DailyLimit \in Nat \ {0} /\ StreakLimit \in Nat \ {0} /\ Overlap \in BOOLEAN
    /\ IsFiniteSet(Positions) /\ Results \subseteq Int
    /\ {"tick", "boot"} \cap Handlers = {} /\ {MaxDay, MaxCrashes} \subseteq Nat
    /\ None \notin [pnl : Int, exposure : Nat, trades : Nat, halted : BOOLEAN]

Init ==
    /\ day = 0
    /\ pos = [p \in Positions |-> [state |-> "none", qty |-> 0, pnl |-> 0, day |-> 0, via |-> "none"]]
    /\ closed = <<>>
    /\ row = [d \in 0..MaxDay |-> None]
    /\ job = [w \in Writers |-> Idle]
    /\ up = TRUE /\ crashes = 0
    /\ admitted = {}

-----------------------------------------------------------------------------
(* Aggregates over the position rows.                                      *)

Live == {p \in Positions : pos[p].state = "open" /\ pos[p].qty > 0}
SumOfQty(q, S) == MapThenSumSet(LAMBDA p : q[p].qty, S)
FindLiveRiskAggregates == SumOfQty(pos, Live)

ClosedOn(d) == {p \in Positions : pos[p].state = "closed" /\ pos[p].day = d}
FindClosedTodayAggregates(d) ==
    [pnl |-> MapThenSumSet(LAMBDA p : pos[p].pnl, ClosedOn(d)), trades |-> Cardinality(ClosedOn(d))]

\* Trailing losses among today's closed rows, in closing order.
LongestTrailingLossStreak ==
    FoldLeft(LAMBDA n, p : IF pos[p].pnl < 0 THEN n + 1 ELSE 0, 0, SelectSeq(closed, LAMBDA p : pos[p].day = day))

-----------------------------------------------------------------------------
(* The lifecycle listener.                                                 *)

\* An executor event starts a handler: fire and forget.
Emitted == \E h \in Handlers : MayStart(h) /\ job' = [job EXCEPT ![h] = [pc |-> "live", day |-> day]]

ReadLive(h) ==
    /\ job[h].pc = "live"
    /\ job' = [job EXCEPT ![h] = [pc |-> "closed", day |-> job[h].day, exposure |-> FindLiveRiskAggregates]]
    /\ UNCHANGED <<day, pos, closed, row, up, crashes, admitted>>

ReadClosed(h) ==
    /\ job[h].pc = "closed"
    /\ job' = [job EXCEPT ![h] = [pc |-> "upsert", day |-> job[h].day, exposure |-> job[h].exposure,
                                  read |-> FindClosedTodayAggregates(job[h].day)]]
    /\ UNCHANGED <<day, pos, closed, row, up, crashes, admitted>>

\* now() is taken by the statement itself, so the newer-wins guard lets every write pass.
UpsertAccountingForDayMutant(r, j) == [r EXCEPT !.exposure = j.exposure]

UpsertAccountingForDay(r, j) ==
    [pnl |-> j.read.pnl, exposure |-> j.exposure, trades |-> j.read.trades, halted |-> r.halted]

WriteAccounting(h) ==
    /\ job[h].pc = "upsert"
    /\ row' = [row EXCEPT ![job[h].day] = UpsertAccountingForDay(Loaded(@), job[h])]
    /\ job' = [job EXCEPT ![h] = Idle]
    /\ UNCHANGED <<day, pos, closed, up, crashes, admitted>>

-----------------------------------------------------------------------------
(* The gate and the executor.                                              *)

\* checkLossWindows for today: the row, then the rows behind the streak.
CheckLossWindows == Loaded(row[day]).pnl > -DailyLimit /\ LongestTrailingLossStreak < StreakLimit

Enter(p) ==
    /\ up /\ pos[p].state = "none"
    /\ ~Loaded(row[day]).halted /\ CheckLossWindows
    /\ pos' = [pos EXCEPT ![p].state = "open", ![p].qty = 1]
    /\ admitted' = admitted \cup {[id |-> p, quiet |-> Quiet, loss |-> FindClosedTodayAggregates(day).pnl]}
    /\ Emitted
    /\ UNCHANGED <<day, closed, row, up, crashes>>

\* An entry finds the streak: the halt columns are written, nothing else.
PersistHalt ==
    /\ up /\ ~Loaded(row[day]).halted
    /\ Loaded(row[day]).pnl > -DailyLimit /\ LongestTrailingLossStreak >= StreakLimit
    /\ row' = [row EXCEPT ![day] = [Loaded(@) EXCEPT !.halted = TRUE]]
    /\ UNCHANGED <<day, pos, closed, job, up, crashes, admitted>>

ClearHaltForDate ==
    /\ Loaded(row[day]).halted
    /\ row' = [row EXCEPT ![day].halted = FALSE]
    /\ UNCHANGED <<day, pos, closed, job, up, crashes, admitted>>

\* The row is closed; the quantity of a row that reconciliation closes stays.
Finalized(p, pnl, via) ==
    /\ pos' = [pos EXCEPT ![p] = [state |-> "closed", qty |-> IF via = "executor" THEN 0 ELSE @.qty,
                                  pnl |-> pnl, day |-> day, via |-> via]]
    /\ closed' = Append(closed, p)

ExecutorClose(p, pnl) ==
    /\ up \/ job["boot"].pc = "open"
    /\ pos[p].state = "open"
    /\ Finalized(p, pnl, "executor")
    /\ Emitted
    /\ UNCHANGED <<day, row, up, crashes, admitted>>

-----------------------------------------------------------------------------
(* The reconciliation tick.                                                *)

\* Cases (b) and (f): the position is gone from the exchange.  No event is emitted.
ReconcileClose(p, pnl) ==
    /\ pos[p].state = "open" /\ (up \/ job["boot"].pc = "sweep") /\ MayStart("tick")
    /\ Finalized(p, pnl, "reconcile")
    /\ job' = [job EXCEPT !["tick"] = [pc |-> "read", delta |-> -pos[p].qty, fixes |-> None]]
    /\ UNCHANGED <<day, row, up, crashes, admitted>>

\* Case (c): exposure first, then the row's quantity.
RecordExposureDrift(p, qty) ==
    /\ p \in Live /\ qty # pos[p].qty /\ (up \/ job["boot"].pc = "sweep") /\ MayStart("tick")
    /\ job' = [job EXCEPT !["tick"] = [pc |-> "read", delta |-> qty - pos[p].qty, fixes |-> <<p, qty>>]]
    /\ UNCHANGED <<day, pos, closed, row, up, crashes, admitted>>

AdjustRead ==
    /\ job["tick"].pc = "read"
    /\ job' = [job EXCEPT !["tick"] = [pc |-> "write", delta |-> @.delta, fixes |-> @.fixes, day |-> day, today |-> Loaded(row[day])]]
    /\ UNCHANGED <<day, pos, closed, row, up, crashes, admitted>>

\* The whole row goes back, halt columns included; the exposure is clamped at zero.
AdjustOpenExposure(today, delta) == [today EXCEPT !.exposure = Max({0, @ + delta})]

AdjustWrite ==
    LET j == job["tick"] IN
    /\ j.pc = "write"
    /\ row' = [row EXCEPT ![j.day] = AdjustOpenExposure(j.today, j.delta)]
    /\ pos' = IF j.fixes = None \/ pos[j.fixes[1]].state # "open" THEN pos ELSE [pos EXCEPT ![j.fixes[1]].qty = j.fixes[2]]
    /\ job' = [job EXCEPT !["tick"] = Idle]
    /\ UNCHANGED <<day, closed, up, crashes, admitted>>

-----------------------------------------------------------------------------
(* Crash, boot, midnight.                                                  *)

Crash ==
    /\ crashes < MaxCrashes /\ crashes' = crashes + 1
    /\ up' = FALSE
    /\ job' = [w \in Writers |-> IF w = "boot" THEN [pc |-> "sweep"] ELSE Idle]
    /\ UNCHANGED <<day, pos, closed, row, admitted>>

\* Phase 4a sums the rows that are not closed; the boot's day is the one it started on.
RebuiltExposureMutant == SumOfQty(pos, Positions)

RebuiltExposure == SumOfQty(pos, Live)

BootRead ==
    /\ job["boot"].pc = "sweep" /\ job["tick"].pc = "idle"
    /\ job' = [job EXCEPT !["boot"] = [pc |-> "set", exposure |-> RebuiltExposure, today |-> Loaded(row[day]), day |-> day]]
    /\ UNCHANGED <<day, pos, closed, row, up, crashes, admitted>>

SetOpenExposureFromBoot ==
    LET j == job["boot"] IN
    /\ j.pc = "set"
    /\ row' = [row EXCEPT ![j.day] = [j.today EXCEPT !.exposure = j.exposure]]
    /\ job' = [job EXCEPT !["boot"] = [pc |-> "open", day |-> j.day]]
    /\ UNCHANGED <<day, pos, closed, up, crashes, admitted>>

MarkRecoveryComplete ==
    /\ job["boot"].pc = "open"
    /\ up' = TRUE /\ job' = [job EXCEPT !["boot"] = Idle]
    /\ UNCHANGED <<day, pos, closed, row, crashes, admitted>>

Midnight == day < MaxDay /\ day' = day + 1 /\ UNCHANGED <<pos, closed, row, job, up, crashes, admitted>>

Next ==
    \/ \E p \in Positions : \/ Enter(p)
                            \/ \E pnl \in Results : ExecutorClose(p, pnl) \/ ReconcileClose(p, pnl)
                            \/ \E qty \in 1..2 : RecordExposureDrift(p, qty)
    \/ \E h \in Handlers : ReadLive(h) \/ ReadClosed(h) \/ WriteAccounting(h)
    \/ PersistHalt \/ ClearHaltForDate
    \/ AdjustRead \/ AdjustWrite
    \/ Crash \/ BootRead \/ SetOpenExposureFromBoot \/ MarkRecoveryComplete
    \/ Midnight

Spec == Init /\ [][Next]_vars

-----------------------------------------------------------------------------
(* Properties.                                                             *)

TypeOK ==
    /\ day \in 0..MaxDay /\ crashes \in 0..MaxCrashes
    /\ \A p \in Positions : pos[p].qty \in 0..2 /\ pos[p].state \in {"none", "open", "closed"}
    /\ \A d \in 0..MaxDay : row[d] = None \/ (row[d].exposure \in Nat /\ row[d].trades \in 0..Cardinality(Positions))

OpensExact ==
    job["boot"].pc = "set" /\ job'["boot"].pc = "open" => row'[job["boot"].day].exposure = FindLiveRiskAggregates

\* When the boot opens the engine the row's exposure is that of the rows that survived:
\* a crash between the read and the write of any earlier adjustment leaves nothing behind
\* (setOpenExposureFromBoot: "the authoritative release path").
BootExposureExact == [][OpensExact]_vars

\* Once the writers are done, every close the executor made today in this process is in the
\* row the daily loss limit is read from.  "A concurrent write whose row was already stamped
\* later does not overwrite the fresher accounting": with Overlap it does.
ExecutorClosesBooked ==
    Quiet /\ crashes = 0 => Loaded(row[day]).trades >= Cardinality({p \in ClosedOn(day) : pos[p].via = "executor"})

\* "the daily/weekly loss limits above (which sum `realized_pnl_day` over every close)":
\* no entry is admitted in a quiet state once the day's closes have lost the limit.
LossLimitBinds == \A a \in admitted : a.quiet => a.loss > -DailyLimit
=============================================================================
