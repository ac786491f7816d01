----------------------------- MODULE Rebalance -----------------------------
(***************************************************************************)
(* The cross-sectional momentum portfolio: the daily cron and the manual   *)
(* trigger (RebalanceSchedulerService), the rebalance they start and the   *)
(* retry of a force-closed leg on the next closed bar                      *)
(* (MomentumOrchestratorService).                                          *)
(*                                                                         *)
(* A rebalance, a force-close report and an armed retry are handlers that  *)
(* await the positions table and the risk gate; between their awaits the   *)
(* executor fills, refuses, closes and force-closes.  The gate approves or *)
(* rejects an open at will and approves every close (RiskGate has the      *)
(* detail).  Time is counted in five-minute bars.                          *)
(***************************************************************************)
EXTENDS Integers, Sequences, FiniteSets, SequencesExt

CONSTANTS
    Symbols,        \* the universe
    TopN,           \* params.top_n
    Cooldown,       \* REBALANCE_TRIGGER_COOLDOWN_MS, in bars
    MaxWait,        \* MOMENTUM_RETRY_MAX_WAIT_MS, in bars
    Period,         \* bars between two firings of the cron
    MaxTime,        \* bound on the bars
    MaxOrders,      \* bound on the opens that are sent
    MaxManual       \* bound on the requests of the manual trigger

VARIABLES
    now,        \* the time in bars
    cron,       \* the bar the cron last fired at, or -1
    emitted,    \* RebalanceSchedulerService.lastEmittedAtMs, or -1
    manual,     \* manual triggers that passed the cooldown and read the version: [at, n]
    asked,      \* how many were requested
    orch,       \* the rebalance: where it is and its local variables
    cycle,      \* currentCycleId with its instant, or NoCycle
    attempts,   \* retryAttempts: the symbols retried in the current cycle
    armed,      \* armedRetries: [Symbols -> cycle of the arm and its armedAtMs, or NoArm]
    reports,    \* evaluateRetryEligibility between its checks and its row count
    firing,     \* fireArmedRetry: [symbol, cycle, at], before and after the row count
    orders,     \* sequence of the opens sent, each with its state
    blurred     \* history: a rebalance read the rows while legs of an earlier one
                \* were out, or was cut short by a throw

scheduler == <<cron, emitted, manual, asked>>
vars == <<now, scheduler, orch, cycle, attempts, armed, reports, firing, orders, blurred>>

ConstantsOK ==
    /\ {TopN, Cooldown, MaxWait, Period, MaxTime, MaxOrders, MaxManual} \subseteq Nat
    /\ Period > 0
    /\ IsFiniteSet(Symbols)

\* The nonce buildRebalanceCycleId makes of the instant, in milliseconds, and the
\* trigger: 0 is the cron, and the number of a manual request stands for the
\* milliseconds by which it differs from the other requests of its bar.
Cycles == [at: 0..MaxTime, by: 0..MaxManual]
NoCycle == [at |-> -1, by |-> 0]
NoArm == [cycle |-> NoCycle, at |-> -1]
Idle == [pc |-> "idle", due |-> NoCycle, ranked |-> <<>>, found |-> {}, survivors |-> {}, retained |-> {}, filled |-> 0]

\* Rows of the table that findOpen() returns: not CLOSED.
Rows == {i \in DOMAIN orders : orders[i].state \in {"open", "closing"}}
\* Orders that hold or will hold a position.
Live == {i \in DOMAIN orders : orders[i].state \in {"sent", "open"}}
InFlight == \E i \in DOMAIN orders : orders[i].state = "sent"

\* Legs that a reading of the rows does not show.
LegsOut == InFlight \/ reports # {} \/ firing # {}

Init ==
    /\ now = 0
    /\ cron = -1 /\ emitted = -1 /\ manual = {} /\ asked = 0
    /\ orch = Idle
    /\ cycle = NoCycle
    /\ attempts = {}
    /\ armed = [s \in Symbols |-> NoArm]
    /\ reports = {} /\ firing = {}
    /\ orders = <<>>
    /\ blurred = FALSE

-----------------------------------------------------------------------------
(* The scheduler.                                                          *)

\* emitRebalanceDueAt: onRebalanceDue runs up to its first await inside the emit,
\* which drops the event while a rebalance is in flight, then the time is noted.
EmitDue(due) ==
    /\ emitted' = due.at
    /\ orch' = IF orch.pc = "idle" THEN [Idle EXCEPT !.pc = "resolving", !.due = due] ELSE orch

CronFires ==
    /\ now % Period = 0
    /\ cron # now
    /\ cron' = now
    /\ EmitDue([at |-> now, by |-> 0])
    /\ UNCHANGED <<now, manual, asked, cycle, attempts, armed, reports, firing, orders, blurred>>

CooldownElapsed(t) == emitted = -1 \/ t - emitted >= Cooldown

\* triggerRebalanceDue: the cooldown is checked, then the version's row is awaited.
TriggerRebalance ==
    /\ asked < MaxManual
    /\ asked' = asked + 1
    /\ CooldownElapsed(now)
    /\ manual' = manual \cup {[at |-> now, n |-> asked']}
    /\ UNCHANGED <<now, cron, emitted, orch, cycle, attempts, armed, reports, firing, orders, blurred>>

\* The row was found valid and the event is emitted with the instant taken at the
\* request; or it was not, and the request is rejected.
TriggerValidated(t) ==
    /\ t \in manual
    /\ manual' = manual \ {t}
    /\ EmitDue([at |-> t.at, by |-> t.n])
    /\ UNCHANGED <<now, cron, asked, cycle, attempts, armed, reports, firing, orders, blurred>>

TriggerRejected(t) ==
    /\ t \in manual
    /\ manual' = manual \ {t}
    /\ UNCHANGED <<now, cron, emitted, asked, orch, cycle, attempts, armed, reports, firing, orders, blurred>>

-----------------------------------------------------------------------------
(* The rebalance.                                                          *)

\* A new cycle forgets attempts and arms of the last one.
Supersede == armed' = [s \in Symbols |-> NoArm] /\ attempts' = {}

\* resolveActiveVersion succeeds, and rebalance() runs up to the universe's reads;
\* or the version does not resolve and the handler ends.
ResolveVersion ==
    /\ orch.pc = "resolving"
    /\ \/ /\ cycle' = orch.due
          /\ Supersede
          /\ orch' = [orch EXCEPT !.pc = "ranking"]
       \/ orch' = Idle /\ UNCHANGED <<cycle, attempts, armed>>
    /\ UNCHANGED <<now, scheduler, reports, firing, orders, blurred>>

\* The rankings crossSectionalMomentumCore may return: the symbols whose trailing
\* return resolves, best first, none if there are too few of them.
Rankings == UNION {SetToSeqs(S) : S \in SUBSET Symbols}

\* buildUniverse and selectUniverse, then the rows are read: those of symbols that
\* are not ranked are closed first.
ReadRows ==
    /\ orch.pc = "ranking"
    /\ \E ranked \in Rankings :
          orch' = [orch EXCEPT !.pc = "definite", !.ranked = ranked, !.found = Rows,
                               !.survivors = {orders[i].symbol : i \in Rows} \cap ToSet(ranked)]
    /\ blurred' = (blurred \/ LegsOut)
    /\ UNCHANGED <<now, scheduler, cycle, attempts, armed, reports, firing, orders>>

\* processClose: the gate approves, the executor is handed the close of row i; a
\* row that is closed or being closed is left alone there.
Close(i) ==
    orders' = [orders EXCEPT ![i].state = IF @ = "open" THEN "closing" ELSE @]

\* The loop over the closes that `pc` stands for, one leg per step.
CloseLeg(pc, due, next) ==
    /\ orch.pc = pc
    /\ \/ \E i \in due :
             /\ orch' = [orch EXCEPT !.found = @ \ {i}]
             /\ Close(i)
       \/ /\ due = {}
          /\ orch' = IF next = "idle" THEN Idle ELSE [orch EXCEPT !.pc = next]
          /\ orders' = orders
    /\ UNCHANGED <<now, scheduler, cycle, attempts, armed, reports, firing, blurred>>

DefiniteCloses ==
    CloseLeg("definite", {i \in orch.found : orders[i].symbol \notin ToSet(orch.ranked)}, "walking")

\* The closes of everything found, retained or not.
ResidualMutant == CloseLeg("residual", {}, "idle")

ResidualCloses ==
    CloseLeg("residual", {i \in orch.found : orders[i].symbol \notin orch.retained}, "idle")

\* evaluateAndEmit approves: the executor takes the open from here.
Sent(s, c) == Append(orders, [symbol |-> s, cycle |-> c, state |-> "sent"])

\* processOpen: what the orders may be after it.  The intent cannot be built (no bar,
\* no ATR, no instrument, no size, book too thin), the gate rejects it, or it is sent.
ProcessOpen(s, c) == {orders} \cup (IF Len(orders) < MaxOrders THEN {Sent(s, c)} ELSE {})

Retain(s) == [orch EXCEPT !.ranked = Tail(@), !.retained = @ \cup {s}, !.filled = @ + 1]

\* One leg too many.
FullMutant == orch.filled > TopN

BasketFull == orch.filled >= TopN

\* A symbol that is held is opened again.
HeldMutant(s) == FALSE

Held(s) == s \in orch.survivors

\* The cascade: hold or open in rank order until top_n legs are filled; a leg that
\* is not sent leaves its place to the next rank.
Walk ==
    /\ orch.pc = "walking"
    /\ IF BasketFull \/ orch.ranked = <<>>
       THEN orch' = [orch EXCEPT !.pc = "residual"] /\ orders' = orders
       ELSE LET s == Head(orch.ranked) IN
            IF Held(s)
            THEN orch' = Retain(s) /\ orders' = orders
            ELSE /\ orders' \in ProcessOpen(s, cycle)
                 /\ orch' = IF orders' # orders THEN Retain(s) ELSE [orch EXCEPT !.ranked = Tail(@)]
    /\ UNCHANGED <<now, scheduler, cycle, attempts, armed, reports, firing, blurred>>

\* A throw ends the handler; its finally lets the next rebalance in.
RebalanceThrows ==
    /\ orch.pc # "idle"
    /\ orch' = Idle
    /\ blurred' = TRUE
    /\ UNCHANGED <<now, scheduler, cycle, attempts, armed, reports, firing, orders>>

-----------------------------------------------------------------------------
(* The retry of a force-closed leg.                                        *)

\* The attempt cap missing.
RetriableMutant(o) == o.cycle = cycle

\* The checks of evaluateRetryEligibility before its await; the volatility breaker
\* after them is the environment's choice.
Retriable(o) == o.cycle = cycle /\ o.symbol \notin attempts

\* The guard rejects the fill: the row is inserted and its close emitted, the
\* reservation is released, and the orchestrator is told.
ForceClosed(i) ==
    /\ orders[i].state = "sent"
    /\ orders' = [orders EXCEPT ![i].state = "closing"]
    /\ \/ Retriable(orders[i]) /\ reports' = reports \cup {[symbol |-> orders[i].symbol, cycle |-> orders[i].cycle]}
       \/ reports' = reports
    /\ UNCHANGED <<now, scheduler, orch, cycle, attempts, armed, firing, blurred>>

\* The rows were counted: with room the attempt is consumed and the retry is armed,
\* under the instant of the cycle that is current by now.
ReportCounted(r) ==
    /\ r \in reports
    /\ reports' = reports \ {r}
    /\ IF Cardinality(Rows) >= TopN
       THEN UNCHANGED <<attempts, armed>>
       ELSE /\ attempts' = IF r.cycle = cycle THEN attempts \cup {r.symbol} ELSE attempts
            /\ armed' = [armed EXCEPT ![r.symbol] = [cycle |-> r.cycle, at |-> cycle.at]]
    /\ UNCHANGED <<now, scheduler, orch, cycle, firing, orders, blurred>>

Claim(s) == armed' = [armed EXCEPT ![s] = NoArm]

\* onCandleClosed: the arm is claimed, then dropped when its cycle is superseded or
\* the bar is too late; else the rows are counted.
CandleClosed(s) ==
    /\ armed[s] # NoArm
    /\ Claim(s)
    /\ IF armed[s].cycle = cycle /\ now - armed[s].at <= MaxWait
       THEN firing' = firing \cup {[symbol |-> s, cycle |-> armed[s].cycle, at |-> "counting"]}
       ELSE firing' = firing
    /\ UNCHANGED <<now, scheduler, orch, cycle, attempts, reports, orders, blurred>>

RoomInBasket == Cardinality(Rows) < TopN

RetryCounted(f) ==
    /\ f \in firing /\ f.at = "counting"
    /\ firing' = (firing \ {f}) \cup (IF RoomInBasket THEN {[f EXCEPT !.at = "opening"]} ELSE {})
    /\ UNCHANGED <<now, scheduler, orch, cycle, attempts, armed, reports, orders, blurred>>

\* The leg is rebuilt from the fresh bar.
RetryOpens(f) ==
    /\ f \in firing /\ f.at = "opening"
    /\ firing' = firing \ {f}
    /\ orders' \in ProcessOpen(f.symbol, f.cycle)
    /\ UNCHANGED <<now, scheduler, orch, cycle, attempts, armed, reports, blurred>>

-----------------------------------------------------------------------------
(* The executor and the market, external to these services.                *)

\* An open is filled and accepted, or comes to nothing.
Settle(i) ==
    /\ orders[i].state = "sent"
    /\ \E st \in {"open", "closed"} : orders' = [orders EXCEPT ![i].state = st]
    /\ UNCHANGED <<now, scheduler, orch, cycle, attempts, armed, reports, firing, blurred>>

\* A close completes, whoever asked for it; a stop, target or time stop closes a row.
RowCloses(i) ==
    /\ orders[i].state \in {"open", "closing"}
    /\ orders' = [orders EXCEPT ![i].state = "closed"]
    /\ UNCHANGED <<now, scheduler, orch, cycle, attempts, armed, reports, firing, blurred>>

\* A bar passes.  Every await of a single leg has a timeout far below five minutes,
\* a rebalance of many legs may take longer.
Tick ==
    /\ now < MaxTime
    /\ ~LegsOut
    /\ now' = now + 1
    /\ UNCHANGED <<scheduler, orch, cycle, attempts, armed, reports, firing, orders, blurred>>

Next ==
    \/ CronFires \/ TriggerRebalance
    \/ \E t \in manual : TriggerValidated(t) \/ TriggerRejected(t)
    \/ ResolveVersion \/ ReadRows \/ DefiniteCloses \/ Walk \/ ResidualCloses \/ RebalanceThrows
    \/ \E r \in reports : ReportCounted(r)
    \/ \E s \in Symbols : CandleClosed(s)
    \/ \E f \in firing : RetryCounted(f) \/ RetryOpens(f)
    \/ \E i \in DOMAIN orders : ForceClosed(i) \/ Settle(i) \/ RowCloses(i)
    \/ Tick

Spec == Init /\ [][Next]_vars

-----------------------------------------------------------------------------
(* Properties.                                                             *)

TypeOK ==
    /\ now \in 0..MaxTime
    /\ cron \in -1..MaxTime /\ emitted \in -1..MaxTime /\ asked \in 0..MaxManual
    /\ manual \subseteq [at: 0..MaxTime, n: 1..asked]
    /\ orch.pc \in {"idle", "resolving", "ranking", "definite", "walking", "residual"}
    /\ orch.found \subseteq DOMAIN orders /\ orch.filled \in 0..TopN
    /\ cycle \in Cycles \cup {NoCycle}
    /\ attempts \subseteq Symbols
    /\ \A s \in Symbols : armed[s].cycle \in Cycles \cup {NoCycle}
    /\ Len(orders) <= MaxOrders

Settled == orch.pc = "idle" /\ ~InFlight /\ firing = {}

\* ADR 0051 and the comments at MomentumOrchestratorService.ts:309 and :391 ("never
\* overfill the basket"): once a rebalance and the retries have ended, at most top_n
\* positions are open, whatever was force-closed and retried meanwhile, as long as
\* every rebalance saw all legs of the earlier ones and came to its end.
BasketBounded ==
    ~blurred /\ Settled =>
        Cardinality({i \in DOMAIN orders : orders[i].state = "open"}) <= TopN

\* MOMENTUM_RETRY_MAX_ATTEMPTS_PER_SYMBOL: a symbol is opened at most twice in a
\* cycle, once by the cascade and once by its retry, however reports, bars and
\* rebalances interleave.
RetriedOnce ==
    \A s \in Symbols, c \in Cycles :
        Cardinality({i \in DOMAIN orders : orders[i].symbol = s /\ orders[i].cycle = c}) <= 2

\* No symbol is bought twice: two orders of one symbol are never both live.
OneLegPerSymbol ==
    ~blurred => \A i, j \in Live : orders[i].symbol = orders[j].symbol => i = j
=============================================================================
