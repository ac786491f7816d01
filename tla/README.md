# Verification of the trading engine

This directory is a TLA+ development of the engine under `src/apps/engine`: a
NestJS process that watches futures markets, turns volatility events into order
intents, passes them through a risk gate, executes them on Binance futures (or
on a simulated account), protects and closes the positions, and reconciles what
it believes with what the exchange says.

The engine is one Node process. Nothing runs in parallel, but every `await` lets
every other handler run, so the interleavings are those of many handlers that
are cut at their awaits. That is the rule by which the modules are written: code
between two awaits that can really suspend is one action, a value read before
an await and used after it is a variable of the model.

## 1. Inventory

Status and source files of every part are in `PROJECT.json` ("components"). The
parts that carry trading state:

| Part | State it keeps | Operations | Talks to |
|---|---|---|---|
| Strategy orchestrator (`StrategyService`) | per-candle buffer of correlated candidates | detect, flush the closed candles, route, gate, persist, emit | gate (call), executor (event ORDER_INTENT_APPROVED) |
| Risk gate (`RiskGateService`, `SlotManager`, `ReservationLedger`) | ledger of reservations, recovery flag, day row `risk_state` | evaluate, reserve, confirm, release, expire, reconcileClose | positions table (awaited reads), executor and reconciliation (calls), SlotReleaseListener (event POSITION_CLOSED) |
| Executor (`ExecutionService`, `OrderSubmitter`) | `closingInFlight`, retry budgets | submit, recover, cancel, retry, remainder, insert and close rows | exchange (network), PositionService (table), gate (confirm, release), reconciliation (event ORDER_INTENT_UNKNOWN) |
| Positions (`PositionService`, `positionStateGraph`) | the `positions` rows | transition, adjustQty, save | everyone; each caller saves a whole entity |
| Close producers (`LocalProtectiveMonitor`, `PositionTimeStopEnforcer`, `FillAcceptanceUnwindService`, momentum de-rank) | armed set, deadline index | arm, breach, emit close, retry | `SharedCloseCoordinator` (slot per position), executor (event) |
| Reconciliation (`ReconciliationService`, `StuckPositionSweeper`) | none between passes | snapshot, cases (a) to (f), TTL sweep, unknown-intent listener, sweep of stuck rows | exchange, PositionService, gate |
| Halt control (`HaltService`, `HaltFlagService`, `RateLimitHaltAdapter`, `HaltStateRestoreService`, `KeyPermissionAssertionService`) | halt flag, audit table, day halt | halt, resume, freeze, auto-clear, key assertion, restore | gate, executor (reads the flag), operator API |
| Boot pipeline (`EngineBootstrapService`) | phase | nine phases that rebuild memory from rows and exchange | all of the above |
| Exchange client and rate limiter (`RateLimitPolicyService`) | token buckets, open freeze | acquire, answer, ban, auto-clear | exchange, halt control |
| Paper mode (`PaperAccountStateService`, `PaperFillSimulator`, probe) | account rows, audit chain, idempotency ledger | open, close, fund, snapshot, fill, drift pass, probe | executor (as the exchange), halt control |
| Momentum orchestrator (`RebalanceSchedulerService`, `MomentumOrchestratorService`) | cycle, retry counts, armed retries | cron, manual trigger, rebalance, force-close report, retry | gate, executor |
| Ledger and statistics (`transactions`, `PositionInstrumentor`, `AccountSnapshotWriter`) | fills, funding, realized result, excursions, snapshots | book, backfill, finalize, flush, seed | executor, reconciliation |
| Market data (`UniverseService`, `SubscriptionRetainer`, `SymbolMarketState`, `MarketDataService`) | universe, retention reasons, bars, one-second rows, depth loops | refresh, retain, ingest, sweep, escalate | every price consumer |
| Shadow evaluation (`ShadowStrategyOrchestratorService`) | virtual ledger in memory, `shadow_decisions` rows | pass, walk, upgrade, replay at boot | event tape |
| Backtest and comparison (`BacktestRunnerService`, `ComparisonRunnerService`, statistics) | one book per cell, event tape | replay, settle, exit, join, bootstrap | promotion |
| Promotion (`PromotionService`, `PromotionGateService`) | version rows | judge, promote, reactivate | boot (shadow set) |
| Boot-mode history (`BootModeChainService`) | two hash-linked chains | verify, append, rotate | boot pipeline |
| WebSocket gateway and dashboard | sockets, rooms, queues; the browser's session and list | handshake, subscribe, broadcast, sweep; poll, merge | positions, tokens |
| Authentication (`LoginRateLimiter`, `HaltRateLimiter`, tokens) | windows, `revoked_jti` | enforce, issue, verify, revoke, prune | every API |
| Alerts (`AlertRateLimiter`, `TelegramAlertSink`) | buckets, window, backoff | publish, answer | operator's chat |
| Research agent and MCP server | lock, wallclock, backtest slot, history | weekly run, tools, child process | engine (read), model API |
| Backup, read API | dump files; signed cursors | dump, prune; page, views | database |

Configuration and the schema have no behaviour after the boot; they are the
constants and the constraints of the modules.

What is hard here, and to test in particular:

- the gate decides on positions it read several awaits ago, and only the ledger
  in memory is current;
- a submit may time out while the request is still travelling, and every error
  code is classified as refused, retriable or unknown;
- seven handlers save the same row, each with an entity it read earlier;
- three in-memory sets (close slot, armed, deadline index) must agree with the
  row through throws, partial fills and reconciliation;
- reconciliation compares an exchange snapshot with rows read after it;
- memory is lost at a restart, rows are not: ledger, universe, monitors, paper
  account and shadow book are each rebuilt from something else than what they were;
- chains, ledgers and version rows have several writers, kept apart by locks, unique
  constraints or nothing;
- two clocks (the exchange's in a tick, the wall's in a sweep) close the same bar;
- limits are sliding windows, and the bound that matters is over every window, not
  over the ones the code looks at;
- the halt flag has seven writers, the audit row that a restart obeys is chosen by
  the time its request began, and the day row's halt is saved by whoever saves the
  row.

The complete list, each at its line and with the property that would catch it,
is "hazards" in `PROJECT.json`.

What makes the parts correct:

- gate: no two reservations on one slot, reserved exposure within the caps, per
  candle cap held, every reservation given back, no slot leaked;
- submit machine: an entry is neither doubled nor lost, a reduce reported clean
  is complete, a halt stops entries, every intent ends;
- positions: the row follows the state graph, one close at a time, one closing
  fill at a time, quantities add up, CLOSED if and only if the exchange is flat
  (eventually);
- halt control: an answered halt holds until somebody resumes, an answered resume
  releases both flag and day row, across restarts, until something halts or a boot
  begins a HALTED row of its own;
- exits: an open position is watched by somebody or recovered, a late close is
  retried, its fills booked once;
- records: every close, funding payment and excursion is in the row that is judged
  by it; the paper account in memory is what was committed;
- evidence: a replay's book is flat and funded once, a figure is what its definition
  says, a promoted version beat the one it displaced;
- surfaces: a limit holds in every window, a revoked token stays refused, a dead
  socket leaves its rooms, a list comes to show what is there.

## 2. Modules

| Module | Models | Reads like |
|---|---|---|
| `SlotPool` | what the gate promises about slots | abstract: take a free place, leave |
| `RiskGate` | strategy → gate → executor entry → close, for many intents | one stage per await |
| `OrderSubmit` | `runSubmitStateMachine` and below, for one intent, and the exchange | handler steps and exchange steps |
| `PositionLifecycle` | one row and its seven writers | one program counter per handler |
| `HaltControl` | the kill switch: flag, day row, audit table and all their writers | one handler per writer, a timestamp at its start |
| `Rebalance` | the momentum portfolio: cron, trigger, rebalance, forced-close retry | handlers cut at their awaits |
| `EntryRules` | the arithmetic from signal bar to kept fill | one stage per service |
| `Ledger` | transactions of one position and their three writers | two unique constraints |
| `Instrumentor` | excursion statistics of one position | accumulator objects and stale holders |
| `RiskDay` | accounting columns of today's `risk_state` row | read, await, write back |
| `MarketFeed`, `CandleFeed` | universe and retention; bars, seconds, session, depth loops | rebuilt memory; two clocks |
| `PaperAccount`, `PaperFills` | the simulated account and its audit chain; simulated fills and the nullity probe | commit, then memory |
| `Protection` | who watches the stop of one live position | open path, pass, boot |
| `ExitWatch` | local monitor and time stop over the executor | slot, ids, retries |
| `BootPipeline` | phases, advisory lock and boot-mode chains of engines that start together | a chain of MACs |
| `ExchangeCalls` | rate-limit buckets, shares, freezes | callers around two awaits |
| `Promotion`, `Shadow`, `Replay`, `RunStats` | versions; shadow passes; backtest; its figures | commands; passes; one book; reference definitions |
| `LoginLimits`, `Tokens`, `AlertDesk` | sliding windows; bearer tokens; alerts | |
| `Backup`, `ReadPages` | nightly dump and retention; paged lists and views | |
| `LiveFeed`, `SocketQueue` | one position to one browser; per-socket queue and throttle | |
| `WeeklyAgent` | the weekly run and the tool server | |
| `MCRiskGate`, `MCOrderSubmit`, `MCPositionLifecycle`, `MCHaltControl` | the tables and sets the configurations name | |
| `MCTrading`, `MCEvidence`, `MCRecovery`, `MCSurface` | small instances of the modules above, one per `part` | |
| `RiskGateProofs`, `OrderSubmitProofs`, `PositionLifecycleProofs`, `HaltControlProofs` | theorems about the module of that name | |
| `TradingProofs`, `RecoveryProofs`, `EvidenceProofs`, `SurfaceProofs` | theorems about the parts of `MCTrading`, `MCRecovery`, `MCEvidence`, `MCSurface`: every part but `stats` | an invariant per part |

`PROJECT.json` ("map") gives the source lines of every definition. Definitions
marked `Mutant` (and, in the first four modules, a few with a name of their own) are
deliberately wrong versions of the definition after them: with one in place TLC
refutes a property. "mutants" names one per property of a run; where a property of
a run joins several of a module's properties the others have theirs in the module.

### RiskGate

Every intent has a `stage`: `undetected`, `buffered` (correlated, waiting for
its candle's batch), `queued`, `loaded` (evaluate() has read the positions),
`approved` (reservation minted), `submitting`, `filled` (row inserted,
protection being attached), `settled` or `rejected`. `snap[i]` is what intent
`i`'s evaluation read. `ledger` and `slot` are the ReservationLedger, `row` the
positions table. `owed` says that a row was committed CLOSED and whose release
(the POSITION_CLOSED listener or reconcileClose) is still to come.

`Detect` is onVolatilityDetected with its flush of closed candles; `Load`,
`Reject` and `Approve` are evaluate() before its last database read and after
it; `EmitApproval` and `DropApproval` are gateAndPersist's success and failure;
`SubmitNoFill`, `SubmitFill`, `AcceptFill`, `AbandonFill` are the executor as the
ledger sees it; `CloseRow` with `ReleaseSlotForClosedPosition` or
`ReconcileClose` the two ways out; `ExpireStaleReservations` the TTL sweep;
`Restart` and `MarkRecoveryComplete` the boot. `Reject` may always happen: halt,
market filter, cooldown, funding and exit-geometry checks depend on inputs the
module does not have.

An order is an atomic no-fill or fill here; `OrderSubmit` is the detail behind
that step, `PositionLifecycle` the detail behind `AcceptFill` and `CloseRow`.

### OrderSubmit

The handler's place is `pc`; `loop` is the for loop's attemptN and `attempt` the
one of the order at hand, which runs ahead of `loop` when a reduce sends its
remainder. The exchange is `status`, `amount`, `filled` per attempt and `held`. A
request is first on the `wire`: `Deliver` lands, refuses or loses it, and
`SubmitTimeout` may happen before, so a request can land after recovery gave up.
An order id is a hash of intent and attempt, so sending an attempt twice is
answered with -5022 and recovered (`Send`). The set of faults is chosen in `Init`,
so one run covers every combination. The exchange's own rules (fill, refusal,
expiry of immediate-or-cancel orders, reduce-only) are external and modelled as
far as the code relies on them.

### PositionLifecycle

`row` is the table's row, `exch` what the exchange holds, `booked` the sum of
reduce and close transactions. `slot`, `armed`, `indexed`, `closing` are the
membership of the position in SharedCloseCoordinator.inFlight,
LocalProtectiveMonitor.armed, PositionTimeStopEnforcer.deadlineIndex and
ExecutionService.closingInFlight. Every handler `p` is at `pc[p]` with the entity
`ent[p]` it read; `TransitionRead` and `TransitionSave` are the halves of
PositionService.transition. Handlers: the entry after its insert, the producers
(each followed through the executor's reduce path, `EmitClose` to `Terminal`),
one unknown-intent listener per producer, the reconciliation pass and the
stuck-row sweep.

Constants choose the setting: a row just inserted (`Entering`) or settled, live
or paper, which producers exist and which faults happen.

### HaltControl

`flag` is HaltFlagService with the source its reason begins with, `day` the
halt_reason of today's risk_state row (a resumable stress leg, any other lock, or
none), `audit` the row ControlAuditRepository.findLatest returns: the one with the
latest `occurredAt`, which is the time its request began (`Append`). `job[h]` is
what handler `h` took with it when it began: its timestamp, its UTC day, whether it
found the flag up, and the day row it read.

`EngageHalt` to `Flattened` and `Resume` to `ResumeAnswered` are HaltService's two
methods cut at the audit row, the day row, the alert and the flatten; `Evaluate` to
`LossLocked` are RiskGateService's halt checks with the listeners of RiskListeners,
whose synchronous part runs inside the emit; `Freeze` to `AutoClearAudited`
RateLimitPolicyService with RateLimitHaltAdapter; `PaperAbort` the drawdown, drift
and probe aborts of paper mode; `Login` the audit row of a login; `ReadExposure` and
`WriteExposure` adjustOpenExposure; `WriteFails` the failure of whatever write a
handler awaits; `Restart` and `Restore` the boot (HaltStateRestoreService).

`AssertKeys` and `KeysAudited` are KeyPermissionAssertionService. Its rows say HALTED
before and after and name no halting source, and findLatest does not filter by action, so
a restore takes such a row for an operator's halt when it is the latest. Every boot on the
testnet writes one ("exempt"): the boot after it comes up halted unless a later row says
otherwise, an answered resume of the earlier life notwithstanding. On paper and live only
a failed assertion does, and then exits ("keyFails"): the next good boot is halted until
a resume. BootstrapModule.ts:49-57 expects the assertion's hook before the restore's; Nest
starts the two of one module together, so both orders are behaviours, and a boot may restore its own
row. The HTTP port opens after both (`Listening`). `ResumeReleases` therefore promises that a
resume holds until something halts or a boot begins such a row, and `released` ends there.

A behaviour has a `setting`, the set of circumstances it meets, chosen in `Init`: the
properties say under which circumstances they hold. A clean tick count, the
resumable leg and the escalation of freezes are nondeterministic; HaltService's last
transition and flattenInProgress serve the read API and are left out, as is the
relaxed loss-streak halt of paper mode.
`quiet`, `promised` and `released` are history variables: whether somebody asked for
the opposite while a request ran, and what has been answered.

### The modules of the four group runs

`MCTrading`, `MCRecovery`, `MCEvidence` and `MCSurface` each instantiate several
modules that share no state. A behaviour is that of one of them: `part` is chosen in
`Init`, the variables that only other parts use are `Off` throughout, and so no
product of state spaces arises. A variable two modules both declare (`now`, `row`)
is used by whichever part runs. A property of a run joins, under `part = ...`, the
properties the modules state, whose comments have the detail. The same variables
serve parts of different shape because the parts never meet in a behaviour: nothing
here composes components. The bounds and sets of a part a theorem is about are CONSTANTS
of the MC module with a named assumption, which its `.cfg` gives values and the theorem
leaves open; those of the other parts are in the INSTANCE ... WITH.

In `MCTrading` (no fairness needed):

- `Rebalance`. `orders` is the executor's and the table's view of each leg, `orch`
  the running rebalance at its await, `attempts` the retries per symbol of a cycle,
  `armed` the retries waiting for a closed bar. A cycle's id is the time and the trigger it
  was built from, so a manual trigger and a cron of one instant differ. The gate answers at
  will. `BasketBounded`, `RetriedOnce`, `OneLegPerSymbol`.
- `EntryRules`. Signal, `Size`, `Approve`, `Plan`, `Fill` follow one candidate through
  strategy core, sizer, gate checks, policy matrix and fill guard with the code's own
  constants; prices are ticks. Bars and snapshots (`BarRecord`, `SnapshotRecord`) are
  enumerated around every threshold. Properties relate stages: the order fits the budget, the gate keeps the
  stop, a kept fill can gain more than it can lose, the loss at the stop is bounded,
  relaxed rules are never stricter than live ones, an auto-resume meets a quiet
  market, every entry has a row in the policy catalogue.
- `Ledger`. The executor books what it was told, the reconciler backfills from
  account history, the funding poll reads its cursor from the rows; `FillsBookedOnce`,
  `FundingHasNoHoles`, `RealizedComplete`, `OneScheduledPerMinute`.
- `Instrumentor`. `obj` are the accumulator objects, `tracked` the map's entry; a
  handler keeps the object it had before its await. `CloseFlushComplete` (but for the
  named gaps) and `SeedKeepsColumn`.
- `RiskDay`. `ReadLive`, `ReadClosed` and `WriteAccounting` are a recompute's two reads
  and guarded write, `AdjustRead`/`AdjustWrite` adjustOpenExposure. `ExecutorClosesBooked`
  while recomputes do not overlap; `OpensExact` for the boot.
- `MarketFeed`. `entries` is the universe, `reasons` the retainer, `member` the timeline.
  `ReasonsHaveCause`, `MembershipMatches`, `KeepsHeld`.
- `PaperAccount`. A mutator waits for the advisory lock, commits, and changes memory in a
  continuation. `ChainLinear`, `LedgerMatchesHistory`, `MemoryMatchesRows`,
  `FundingAccounted`, and the peak that never falls. open, close and snapshot have no
  production caller at this commit; they are modelled from their code and tests.
- `PositionLifecycle` as part `closes`: a paper entry with its unwind and time stop.

In `MCRecovery` (fair):

- `Protection`. `resting` are the exchange's protective orders, `seen` the pass's three
  reads (positions, orders, rows), `exec` the place of the open path, which either arms
  and attaches or (`"unwind"`) waits for the flatten of a fill that was not acceptable,
  with neither. That flatten is done, refused (the row stays as it is) or ends unclear
  (the row is parked). `gaps` names what the code is known to leave unwatched: an order the
  exchange dropped, a row its attach save brought back, a row skipped at boot as RECONCILING
  and reopened later, and, until the next boot arms it, one whose unwind was refused.
  `ProtectedButForGaps` says that but for a fill being unwound there is nothing else.
  A naked position is handed to the monitor; an orphan is adopted, also one whose pending
  row StuckPositionSweeper closed.
- `ExitWatch`. `stage[w]` follows a watcher's close: read, gate, executor, filled (at the
  exchange), saved (the row), booked (the ledger), each a step of its own that may throw
  or be the last of the process (`Throws`, `Crash`). What the executor throws is swallowed
  without a terminal event, and `swallowed` remembers it. `held` is what the exchange
  holds, `pend` what it filled and the ledger has not; `used` are the client order ids,
  `holes` the ways in which a fill missed its ledger row (an id `"reused"` after a restart,
  a write `"torn"` off) and was not yet backfilled. A pass closes a row that is gone and
  may backfill, corrects a quantity and reopens a survivor; between fill and save it is
  `PositionLifecycle`'s. `SlotLeaksAreKnown` (to an escalation or a swallowed
  throw), `FillsBookedOnce`, `ClosedIsGone`, `TakesEarned`, and a position past its
  deadline closes (`DueCloses`) unless its slot leaked or its deadline was lost.
- `BootPipeline`. A MAC is the payload it signs. `Damage` alters a stored row. The
  chains verify, every change of environment has its rotation row, LIVE came through
  PAPER, a damaged chain is never appended to, every boot ends.
- `ExchangeCalls`. `Acquire` is one round of acquire(), `Banned` a 429 or 418.
  `OrdersPerWindow` holds over every window, a second ban never shortens a freeze,
  a freeze ends.
- `PaperFills`. An order is translated as the adapter, the simulator and the executor do it;
  racing createOrder calls of one id get one fill (`OneFillPerOrder`), a buy is filled above
  the ask and a sell below the bid, and an entry without a usable quote is never filled
  (`OrderKeepsItsMeaning`; a reduce is, see the known gaps). A leaked account is found
  while the exchange answers.
- `CandleFeed`. Every bar closes once, in order, by tick or by sweep, in its own day;
  its volume counts exactly the ticks of its interval but those refused as late
  (`dropped`), and a tick that is in no bar is one of these. Loops of a de-escalated
  symbol end.

In `MCEvidence` (no fairness needed; versions, operators and passes are symmetric):

- `Promotion`. Gate and transaction look at different moments (`report`, `op`);
  serializable conflicts are `Conflict`. One active version per name, a promoted
  version beat the one it displaced. `harness = TRUE` is the integration tests' world:
  at this commit no draft can pass (known gaps).
- `Shadow`. `pass[w]` is a pass at its await; ledger in memory, rows in the database,
  `ReplayHalt` the restart.
- `Replay`. Cells of the walk-forward plan over one tape, one book per cell, symbols one
  after the other. Slots match the book, nothing stays open, funding is settled once.
- `RunStats`. The tape of a version, with the events it skipped, and what is computed from
  it: win rate, profit factor, return and drawdown of the curve of realized results, the
  cuts by regime, worst loss, shortfall, streak, the circular block bootstrap and the
  comparison with its floors of trades and events. As scans, against definitions that
  quantify over intervals or tails, for every tape of up to four events with three amounts,
  among them runs that lose their capital. Unrealized results, Sharpe, Sortino, skew and
  kurtosis are left out.
- `LoginLimits`, `AlertDesk`. Limits over every window ending at any instant, from the
  history of what was let through. The code's arrays of times are sets of numbered
  attempts or alerts; the numbers are the order an array has.
- `Backup`. The stages of one nightly job with a crash or failure at each; the newest
  whole dumps survive, no failure is silent.
- `ReadPages`. A client walks pages while rows are written and the cursors' secret changes;
  nothing older than the walk is missed or, under one secret, repeated, and the two
  performance views agree.

In `MCSurface` (fair):

- `LiveFeed`. Handshake, subscription, broadcast, coalescing and expiry sweep on one
  side, session, poll and merge on the other.
- `SocketQueue`. Its hard-cap branch is the code's and is never reached, since enqueuing
  stops at the soft cap.
- `WeeklyAgent`. Two runs of one week, lock, wallclock, model calls with repair and
  fallback, draft, backtests, report, history row; the server's child process.
- `Tokens`. Issue, verify (with its awaited lookup), revoke, prune.

## 3. Runs

Bounds are constants of the `.cfg` files or, for the part without a theorem (`stats`), of the
INSTANCE ... WITH of the MC module.

| Run | Setting | Shows |
|---|---|---|
| `gate` | live, 3 intents (two correlated ones of successive candles, one idiosyncratic; two share a coin), every fault, fair | ReservationsExclusive, ReservedExposureCapped, ConfirmedHasOwner, PendingSettles, ClosedRowFreesSlot, refinement of SlotPool |
| `gate_paper` | paper, 4 intents (three idiosyncratic, one correlated), lost approvals | OneRowPerSlot, BarCapHeld |
| `submit` | all policies, all 16 fault sets, fair | RefusedEntryNeverDoubled, EntryAccounted, CleanReduceIsFlat, HaltStopsIoc, HandlerEnds |
| `life_slot` | settled live row of one lot; monitor, time stop, momentum; unresolved closes, throws, external closes | SlotSerializesCloses, ClosedMeansFlat |
| `life_fills` | settled live row of two lots; monitor, momentum; partial fills and the same faults | OneClosingFill |
| `life_closes` | live entry, kept or unwound; monitor; every fault, fair | FlatEndsClosed |
| `halt` | two operators (symmetric), one evaluation at a time, eight settings, three timestamps, two days | OperatorHaltHolds, ResumeReleases |
| `trading` | rebalance, entry, ledger, excursion, day, universe, paper, closes | BasketSound, EntrySound, RecordsSound, ClosesBooked, UniverseSound, PaperBooksSound, ClosesSound, NothingUndone |
| `recovery` | protection, exits, boot, calls, fills, candles; fair | ExitsSound, BootSound, FeedsSound, NothingRisked, PositionsRecover, EngineSettles |
| `evidence` | promotion, shadow, replay, stats, login, alerts, backup, pages; symmetric | PromotionSound, ShadowSound, ReplaySound, OperationsSound, StatsSound |
| `surface` | feed, queue, agent, tokens; fair | SurfaceSound, SurfaceSettles |
| `submit_doubled` | entries, ambiguous errors | EntryNeverDoubled is violated |

The type invariants of `RiskGate`, `OrderSubmit` and `HaltControl` are proved rather
than run; six of the others have theirs as a conjunct of a group property, where a value
out of range would be a defect of the code, and the rest state it for the reader.

A liveness property of a group run has the form "some part owes something ~> whichever
part it is has paid": the disjuncts on the left and the guarded conjuncts on the right
name the same parts, and `part` never changes, so it says of each part what the module's
own property (`NakedRepaired`, `FreezeEnds`, `SlotFreed`, ...) says.

CHECK_DEADLOCK is off everywhere: a behaviour of each module has an end (intents
used up, the intent settled, the row closed and no pass due, no timestamp left, the
clock at its bound).

Why the bounds are enough:

- `gate`: rivalry for a slot needs two intents, the mixed occupancy of slot C a
  third; four intents fill A, B and C and ask once more (`gate_paper`). The clock runs to 4 with candles and TTL of one tick, so each of
  the three candles can end and its reservations expire before or after the next
  candle. MaxPerCoin is 2 with notionals 1 and 2 on one coin, so that the cap
  binds.
- `submit`: two lots are the smallest quantity with a partial fill and a
  remainder. The budgets are the code's own (retry 2, remainder 3, probes 3).
- `life_*`: one lot suffices where only order matters, two where a partial fill
  does, three for a partial fill after a partial fill. Actions on one row by at most
  three producers: a fourth of the same kinds adds no new order of steps.
- `halt`: three timestamps are a halt, a resume and one more request, of two
  operators; two days are an audit row of yesterday and a day row of today; one
  re-halt reaches the cap of re-halts. The settings pair what can interact: restart
  with the end of a day, with exposure adjustments, with aborts and failing writes,
  with freezes and auto-resume, with the boots of the testnet, with key assertions and
  writes that fail; freezes alone and logins without a restart.
- `trading`: two symbols for one place are the least that make a rebalance swap a leg,
  and three orders the swap and one retry. The bars lie on both sides of every
  threshold of the cores and the snapshots of every gate filter, one change at a time
  from a calm market, so single causes are covered and not all their pairs. Two closing
  orders of two partials, two funding times. Two positions with one winning and one
  losing result. Three refreshes: in, out and back in. Two callers on one paper
  position, three operations and a restart.
- `recovery`: one position; two troubles among a crash, a halt and a dropped order, and
  four kinds of failing call. One fault (a throw, swallowed or not), one escalation and one
  crash for the exit watchers, whose position has two units, so that a fill can be partial. Two engines with two boots and one damaged row. Capacities of one or two
  tokens, so that every bucket empties, and three calls, so that a sleeping call finds
  its bucket emptied again. Bars of two seconds in days of two, ticks late by up to two.
- `evidence`: three versions, two operators, two transactions; two passes over two
  events; a plan with several overlapping folds over eight bars; one or two keys per
  limiter with limits of one to three; retention of two over five nights; two rows of
  two tags with pages of one; a capital of one, so that a curve starts above, at and below
  zero.
- `surface`: one connection at a time, whose token expires within the run, and two moves
  of the row; caps of two and three; two agents, two launches, one crash, two children;
  two tokens, two revocations.

Fairness:

- RiskGate: time passes, the pass is scheduled, a boot completes, and a handler
  that has started gets to its end, since every network call has a timer and
  event emission is synchronous. No fairness on detection, closes or faults.
- OrderSubmit: the handler goes on (each of its awaits has a timeout), and the
  exchange ends an immediate-or-cancel order. None on delivery or fills: requests
  may stay on the wire for ever.
- PositionLifecycle: handlers that have started end, the reconciliation interval
  keeps firing. None on breaches, deadlines, the sweep or the exchange.
- `recovery`: the executor's and the pass's awaits return, a supervisor restarts the
  process, an approved flatten is carried out, an operator resumes; the position query
  is answered again and again (strong fairness of its answered form: outages end).
  The enforcer indexes and sweeps on its intervals, a pass reopens a survivor and closes a
  row that is gone, a close in flight ends.
  A boot goes on; the clock and the auto-clear timer run; the probe's interval fires;
  a depth loop turns. None on crashes, bans, leaks, ticks or price moves.
- `surface`: a handler of the gateway that was called goes on, the browser polls and is
  answered, sweep and coalescer timers fire; clock and throttle timer run; the agent's
  loop and the tail of its wallclock go on and a child process ends (it is killed on
  its timeout); a token lookup returns and the prune runs hourly. None on logins,
  row moves, network drops or launches.

### What the violation shows

`submit_doubled`: ADR 0006 promises that a retry never doubles an order. Errors that
say "execution status unknown" (-1007, -1000, RequestTimeout) are classified RETRIABLE;
the retry has a fresh id, and both orders may fill. With errors that are refusals the
promise holds, and is proved.

### Known gaps

Behaviours TLC produced, most of them as counterexamples to a formula a module still
states (named in parentheses) and no run checks, the rest met while translating the
code. The properties of the runs are stated so as to leave exactly these out.

Gate, executor, positions and halt control:

- A fourth position is admitted: SlotManager lets a correlated trade into C beside an
  idiosyncratic one and nothing counts positions overall, where ADR 0004 (line 248)
  says three in total. `ReservationsExclusive` is what the code keeps.
- The momentum de-rank emits a CLOSE without the slot that every producer must take
  (SharedCloseCoordinator.ts:5). `SlotSerializesCloses` is about the others, and with
  two lots and partial fills its late save can leave a CLOSED row on a position that is
  not flat (`ClosedMeansFlat` is run with one lot and proved for fills that are whole).
- Where two modes of one symbol share slot C, reconcileClose looks the reservation up by
  symbol and slot and may release the other mode's: its own stays CONFIRMED without a row
  until the restart (`ConfirmedHasOwner` leaves this out by `SharesC`).
- A reduce that needed a remainder order returns that order's fill alone, so the row and
  the transactions miss what the first one filled (`CleanReduceAccounted`,
  ExecutionService.ts:931).
- The entry handler saves after the protective attach the entity it inserted before it;
  a close that completed in between is overwritten (`ClosedIsTerminal`,
  ExecutionService.ts:1539). `life_closes` shows that a live engine recovers from this at
  a later pass; on paper there is no pass.
- A freeze raises the flag, the operator halts and is answered; the flag was up, so its
  reason stays RATE_LIMIT, and when the freeze ends the adapter takes it for its own and
  clears it (`HaltHolds`, HaltService.ts:121), against RateLimitHaltAdapter's comment.
- The TTL sweep frees the slot of an order that is still in flight; a late fill
  then makes two rows on one slot (`OneRowPerSlot` is for paper).
- A correlated reservation is minted with the candle's close as its clock
  (`StrategyService.ts:323`), hence with up to one candle of its TTL used up: with
  a TTL shorter than the candle it is born expired.
- On paper nothing expires a PENDING reservation whose approval was lost; the slot
  is gone until the restart (`PendingSettles` is for live).
- A snapshot with a filled quantity and no average price counts as no fill
  (`EntryAccounted` assumes prices), and a maker order whose cancel fails is left
  resting.
- A maker entry awaits the order book after the halt check and can be sent under a
  halt (`HaltStopsIoc` leaves it out).
- Two reduces of one row, or a reduce and a reconciliation correction, lose an
  update (`ReducesAddUp` is for producers that share the slot, without the
  pass). The momentum de-rank makes this possible, and so does the sweep of
  RECONCILING rows on paper, which frees the slot of a close in flight; the late
  save then writes RECONCILING over CLOSED.
- A live close that ends RECONCILING and survives (case (f)) goes back to OPEN
  with its slot held and without its deadline: no later breach or time stop acts
  (`HeldSlotIsInFlight` is for paper).
- A pass that took its snapshot before an entry filled closes the new row, and an
  exchange that holds the position is left without a row
  (`ClosedMeansFlat` is for settled rows). The same follows when fetchPositions
  fails, which the code accepts in a comment.
- The market-stress auto-resume drops the flag whoever raised it
  (RiskListeners.ts:112): an operator's halt during a stress halt goes with it. With
  freezes, this is why `OperatorHaltHolds` leaves both out.
- A login audits the halt state it found. Saved with a later timestamp than a halt in
  flight it is the latest row, and a restart restores RUNNING; the other way round a
  login that began before the flag went down brings a halt back (`LoginsMislead`).
- adjustOpenExposure saves the whole day row it read: a halt persisted since is lost,
  one cleared since returns (`ResumeReleases` leaves it out). The comment at
  RiskStateRepository.ts:107 says the newer-wins guard prevents it, but the guard
  compares the time of the write, not of the read.
- After an operator's resume a second stress on the same day is not emitted again
  (`stressEmittedForDate` is re-armed by the auto-resume only), and one within the
  listener's dedup window is coalesced: the row is halted, the flag is not.
- Divergence halts and paper aborts are kept in the flag alone; a restart loses them.
  A rate-limit halt restored at boot has no timer and stays until a resume.
- When the audit write of an auto-clear fails the flag is already down, where the
  adapter's comment (RateLimitHaltAdapter.ts:36) says it stays halted.
- A key assertion's row says HALTED: a testnet boot, or the first good boot after one whose
  assertion failed, can come up halted although the last resume was answered
  (KeyPermissionAssertionService.ts:137 and 290, ControlAuditRepository.ts:219).
- A halt and a resume that overlap may leave flag and latest audit row different;
  `promised` and `released` count requests that nobody opposed.

Exits and reconciliation:

- A row can be OPEN and unwatched (`OpenIsProtected`) after the exchange dropped an order,
  after an entry's late save brought the row back, and after a boot whose pipeline skips
  RECONCILING rows that a later pass reopens unarmed.
- A fill that is not acceptable gets a row with neither monitor nor orders while its flatten is
  under way, and keeps it so until the next boot when that is refused or throws
  (FillAcceptanceUnwindService.ts:72). StuckPositionSweeper closes such a row without a look
  at the exchange; the position is then adopted as a stranger's.
- The pass can adopt the engine's own fill before its row exists. An adopted row that is
  not flattened at once, because of a halt, never is (`FlattenRetried`).
- A close slot stays held after an escalation and a reopen (`SurvivorIsWatched`,
  ReconciliationService.ts:1555 and 1593), and after any throw of handleApproved, which is
  logged and swallowed (ExecutionService.ts:154): until a restart no watcher can
  close that position. The sweep meant to back up the deadline index is guarded by that index.
- A throw or crash between the save of a reduced row (ExecutionService.ts:478), its ledger
  row (487) and the transition (506), or on the partial path between 559 and 568, leaves
  a fill without its transaction, and so does, after a restart, a retry under the event id
  of a booked close. A pass that finds the position gone may backfill it from the
  account's history.
- Rows booked between finalize's read and its write are missing in realized_pnl; the
  account snapshot reads the balance before the rows.
- Recomputes of the day that overlap lose a close, a recompute between finalize and
  reconcileClose takes its exposure off twice, and reconciliation's closes emit no closed
  event, so the daily limit does not count them (`LossLimitBinds`). After midnight there is
  no row until something writes one.
- A price update between insert and opened event may be dropped (`EntryTicksKept`).

Strategy and evidence:

- The rebalance cooldown is checked before an await and the cron has none; a retry may
  pass the supersession check while a new rebalance runs; a throw after the opens skips the
  residual closes; lastEmittedAtMs may move backwards; a report that returns after a new
  cycle began arms a retry under the old cycle.
- A wick-based fade stop may lie inside the noise floor at which the fill guard unwinds
  (`NoNoiseTightExit`, meanReversionCore.ts:186), or, with a wick inside the close, on the
  wrong side. A target at exactly the least reward ratio is unwound on any adverse
  slippage; the liquidation clamp cannot bind; no core is eligible for a rebased target;
  FUNDING_ELEVATED_THRESHOLD_ANNUALIZED is compared in another unit.
- No draft can be promoted: criteria 7 and 9 are always deferred and serialiseReport writes
  no promotion decisions. The status alone does not keep the traded version out of the
  shadow set (`TradedIsNotShadowed`).
- Shadow: passes in flight exceed the day's cap (`CapHeld`); a pending walk may be
  overwritten; an upgraded exit changes the streak a restart rebuilds; the reverse close
  of an older release's position is not recorded.
- Replay: a traded event is not always recorded 'open' (`TradedIsOpen`), the tape is by
  symbol and not by time (`TapeChronological`), on the shared book a symbol's gate sees
  positions of a later bar (`GateSeesThePast`), funding at the close is taken
  (`FundingHalfOpen`). Fold windows are cut to UTC dates, an in-sample cell overwrites an
  out-of-sample outcome, stops are stamped one bar late and the equity curve begins after
  the first day with a close. A run that loses its whole capital on that day reports no
  drawdown, and further losses as a positive return, since they are divided by a negative
  first point (MetricsComputer.ts:153); `ReportAddsUp` relates return and drawdown for
  curves that start above zero.

Market data:

- Rows adopted from the exchange are not retained until the next boot, and adopted →
  closing drops the one reason to retain them (`HeldIsSubscribed`). A restart leaves old
  membership rows and does not rebuild cooldowns.
- A late tick overwrites a persisted second (`SecondsComplete`); a symbol escalated again
  before its old loop ended has two (`OneLoop`).

Paper mode:

- A restart loses closes and funding since the last snapshot; the drawdown abort does not
  fire again after a resume (`AbortRearmed`); the drift pass reads memory and rows at
  different moments (`DriftIsReal`); a closed order id can be opened again; a preflight that
  cannot reach the exchange counts as operational.
- An order for which the last tick has no usable price is passed on with that price and,
  says PaperFillSimulator.ts:303, comes out as missed. An entry does; a reduce at the market
  is filled at price zero, so `OrderKeepsItsMeaning` promises it of entries.

Boot and exchange client:

- The chain records a transition before its go-ahead token and the key permissions are
  checked.
- The share per symbol does not bind, since the tag of an order, which ends in its own id,
  is taken for the symbol (`SymbolShareHeld`, CcxtBinanceExchangeClient.ts:446); frozen time
  is refilled (`FrozenTimeNotRefilled`); a longer Retry-After during a freeze is ignored
  (`RetryAfterHonoured`); last_response_headers may be another call's; an empty bucket
  refuses closes too.

Surfaces and operations:

- Gateway: a disconnect during the handshake leaks the runtime; the socket of a revoked
  token stays until it expires; a subscription before the token is verified is refused and
  not retried (`ConnectedIsSubscribed`); a coalesced update puts a closed position back
  (`ClosedIsNotShown`); the header of WsAuthHandshake says 5 s, the sweep runs every 30 s;
  the throttle's old timer emits too early (`OneTickPerWindow`).
- Research agent: its lookback of 90 days exceeds the cap of 30 of the decisions tool, so
  every run fails (`AsksWhatIsServed`; runWeeklyLoop.ts:28, getDecisions.tool.ts:5). The run
  in the model asks within the cap. A failing mkdtempSync keeps the backtest slot; a run
  that failed after its draft is skipped as done; the first history row of a week wins.
- Login limits do not survive a restart while their writes are not awaited
  (`LimitsSurviveRestart`), and a login retried when told may be refused.
- Alerts: folded repeats may go untold (`RepeatsAreTold`), a second answer can shorten the
  backoff (`BackoffKept`), and CRITICAL alerts are lost in backoff or on a network failure.
- Backup: pg_dump has no timeout; a crash leaves its temporary file; a failed prune is not
  alerted. /v1/risk/state answers isHalted false when today's row is missing.

## 4. Theorems

TLAPS proves the following for every value of the constants that meets the modules'
named assumptions. These say: sets are finite where something is counted or summed,
budgets, quantities, clocks and caps are naturals, tables are total, and `None` is none
of the values it stands beside. A few say more, and the code says it too: windows, limits,
bars, days and the retention depth are not empty, a default freeze lies within its cap, a
revocation is remembered longer than a token lives and its lookup may take
(AppConfigService asserts it at boot), a replayed universe names a symbol once
(PointInTimeUniverse selects them distinct), the shadow cap lets one trade through a day
(strategyConsts.ts:184), pages and days of the read API are not empty, and time is counted in units in
which a bucket gains whole tokens (`CallAssumption`; the code refills continuously, in
fractions per millisecond). TLC evaluates every assumption on the run whose
module declares it. An environment or fault a constant stands for stays arbitrary; where
a property holds in a setting only, the setting is a hypothesis of the theorem or the
left side of the property.

| Theorem | States | Argument |
|---|---|---|
| RiskGateProofs!TypeCorrect | `Spec => []TypeOK` | inductive as it is |
| RiskGateProofs!SlotsExclusive | `[]ReservationsExclusive` | only Approve makes a reservation count, and `Assign` looks at the live ledger: whatever the snapshot said, the slot is free of counting reservations (`AssignedSlotIsFree`); every other step only shrinks the set that counts |
| RiskGateProofs!PaperSlotsHoldOneRow | OneRowPerSlot, assuming `Undisturbed` (paper, and no faults that part a row from its reservation) | `HoldsSlot`: a live row on A or B is covered by an active reservation from the fill on, so exclusivity of reservations carries over to rows |
| RiskGateProofs!GateImplementsSlotPool | `ImplementsSlotPool` | a step that shrinks the active set is a Leave, Approve is a Take; needs `Unreserved`, that an intent before the gate has no reservation, so that it takes a place only once |
| RiskGateProofs!ConfirmedKeepOwner | `[]ConfirmedHasOwner` | `SlotGivenOnce`: an intent has no slot before the gate and keeps the one it got; then one case per step that confirms, closes or releases |
| RiskGateProofs!BarCapNeverExceeded | `[]BarCapHeld` | the active set of a candle only grows by Approve, which has just counted it |
| RiskGateProofs!ExposureNeverExceeded | `[]ReservedExposureCapped` | the same with sums: `NotionalAdd`, `NotionalMono` (below) |
| OrderSubmitProofs!TypeCorrect | `Spec => []TypeOK` | the two budgets bound the attempt, a remainder stays positive |
| OrderSubmitProofs!EntryExactlyOnce | `[]RefusedEntryNeverDoubled` | `OneOrder`: while errors are refusals, at most the attempt at hand is known to the exchange, and none is when the loop starts over; what is held is what that order filled |
| OrderSubmitProofs!EntriesAccounted | `[]EntryAccounted` | `EntryProgress`: at each place of the handler, what it has concluded is true of the exchange's final state of the order |
| OrderSubmitProofs!CleanReducesFlat | `[]CleanReduceIsFlat` | `ReduceInv`: let `g[n]` be what the attempts before `n` have taken off together (`TakenOff`); every order was sent for at least what they left (`CoversRest`), so one that fills whole leaves nothing, however many ambiguous ones are still at work (`FilledIsFlat`) |
| OrderSubmitProofs!HaltsStopIoc | HaltStopsIoc, an action property | `PegsAreMakers`: only a maker order waits between the halt check and the wire; LoopHead checks and sends the others at once |
| PositionLifecycleProofs!LifecycleTyped | TypeOK and `NothingBookedTwice` | what is booked, what handlers hold in hand and what the exchange still has never exceed the quantity; types of the stale entities need it |
| PositionLifecycleProofs!ClosingFillExclusive | `[]OneClosingFill` | `Guarded`: a handler inside a closing fill has set closingInFlight, and only it clears it |
| PositionLifecycleProofs!OneCloseAtATime | SlotSerializesCloses, assuming a settled live row | `SlotCovers`: when a taker is in flight the slot is held, or neither trigger (armed, indexed) is left, so no second taker can start; the reconciliation pass frees the slot only together with both triggers |
| PositionLifecycleProofs!ClosedRowsAreFlat | ClosedMeansFlat, assuming a settled live row, `WholeFills` and the position query's answer | `HeldWhole`: as long as the exchange holds the position it holds all of it, no close handler is past its submit, and whoever is about to save the row saves it whole and not CLOSED |
| HaltControlProofs!TypeCorrect | `Spec => []TypeOK` | inductive as it is |
| HaltControlProofs!OperatorsHaltHolds | `[]OperatorHaltHolds` | `Holding`: no resume runs beside an unopposed halt (`Unopposed`); until its row is saved the flag it found up is still up and no later row says RUNNING, afterwards the flag is up and the latest row is HALTED (`Underway`, `Kept`), so a restart restores a halt. `BystandersKeepHalts` deals with all the other writers at once |
| HaltControlProofs!ResumeAlwaysReleases | `[]ResumeReleases` | `Releasing`, the mirror image, where no login misleads and no exposure adjustment writes a day row back: nothing halts beside an unopposed resume, what it has cleared stays clear (`Lifting`, `Lifted`), a freeze under way will be audited with an earlier stamp (`FreezeOlder`), and no key assertion is about to write its row, so a restart restores RUNNING |
| TradingProofs!UniverseIsSound | `[]UniverseSound` | `Retaining`: while the engine is up, the retainer has a reason for the symbol of every position the engine opened |
| TradingProofs!RecordsAreSound | `[]RecordsSound` | `Backfilling` (fetched fills are whole; what left the list is booked), `Polling` (below an owed settlement there is only booked and owed ones), `Snapping`; `Remembered` and `Ahead`: the next writer's excursion is at least the column's and the best tick's |
| TradingProofs!ClosesAreBooked | `[]ClosesBooked` | `DayBooked`: a day whose row misses an executor's close has a handler on its way to it, which has not read yet or has read it (`HandlerHolds`); `Alone` keeps the tick and the boot from writing back in between |
| TradingProofs!PaperBooksAreSound | `[]PaperBooksSound` | `Exclusive` and `Sole`: the lock names the one call between acquire and commit, and one call at most is between its commit and its continuation; `Cash`, `Saved`: what memory lacks is exactly what that call still has to apply; `Chained`: who holds the lock knows the tip |
| TradingProofs!BasketIsSound | `[]BasketSound` | `OneRetry`: a second open of a symbol in a cycle comes from a report, an arm or a firing, of which there is one and which exists only while the symbol was opened once. `Seen`, while every rebalance saw the legs of the earlier ones and ended: a live leg, a report, an arm of the current cycle and a firing each claim their symbol, no symbol is claimed twice, and the claims are at most top_n, because only the cascade makes a new one, on a symbol it retains |
| TradingProofs!EntryIsSound | `[]EntrySound` | one conjunct per stage (`EntryInv`): what the sizer grants fits budget and ceilings (`Granted`), the stop stays where the core put it, the limit of a taker is within its share of the stop's distance, and a kept fill passed the guard; quotients are bounded by products |
| TradingProofs!ClosesAreSound | `[]ClosesSound` | `Phase`: the life of the row is cut into phases, in each of which one handler may write it, and what that handler holds across an await is the row as it still is; so quantity, transactions and what was taken and not yet booked (`Taken`) add up to the lots |
| TradingProofs!NothingIsUndone | NothingUndone, an action property | the invariants of the day, the paper account, the universe and the closes, and per step what it may move |
| RecoveryProofs!BootIsSound | `[]BootSound` | `Locked`, `Numbered`: the advisory lock is held by whoever is between verify and commit, and every number drawn is beyond the stored ones; `Pending`: what a transaction holds, at each of its places, is a signed continuation of the tip it read; `Chain`: every change of environment is followed by its boot row and named by one rotation, and rotations are as many as transitions; `Tampered`: once a row is damaged the walk fails and nobody is past it |
| RecoveryProofs!ExitsAreSound | `[]ExitsSound` | `GuardedInv`: row, executor's place, monitor and resting orders agree but for the gaps, and what it says of the orders does not wait for a refused unwind, the one gap a boot mends; `OneCloses`, while the exchange holds anything: the slot is held by the one watcher in flight, or an escalation or a swallowed throw left it; `Booking`: what is booked, pending and held adds up but for the holes; `Owning`: the row never has less than the exchange holds, also when the fill under way has been taken from it, so a row at zero is gone |
| RecoveryProofs!FeedsAreSound | `[]FeedsSound` | see below |
| RecoveryProofs!NothingIsRisked | NothingRisked, an action property | the three invariants of boot, exits and calls; `Earning`: an eligible take-profit has seen a price before its level |
| EvidenceProofs!PromotionsAreSound | `[]PromotionSound` | `PromotionInv`: a transaction nobody overtook holds the incumbent of the present, a verdict nobody overtook is about it, and one that was overtaken ends in a serialization conflict |
| EvidenceProofs!OperationsAreSound | `[]OperationsSound` | see below |
| EvidenceProofs!ShadowIsSound | `[]ShadowSound` | `RowsKnown`: an event counts as processed once its row is there, but for the one pass between the two; `CapHeldBack`: the passes gated as open count beside the rows against the day's cap, so it is passed by at most the passes in flight less one; `HaltKept`: while passes do not overlap and no row was rewritten, the ledger is the replay of the rows, so a restart finds the trade that armed the halt |
| EvidenceProofs!ReplayIsSound | `[]ReplaySound` | `SlotsKept`: the reserved slots are those of the book, which has one position per symbol; `FillsTold`: the fills of the cell are the slots of book and trades, each once, all of bars the cursor has passed (`Passed`), so the next entry is new; `FundingTold`: what was charged to the position at hand is among what the cursor has passed, so the next event is new to it |
| SurfaceProofs!SurfaceIsSound | `[]SurfaceSound` | `FeedInv`: a socket in a room is up, and one about to join has a runtime only while it is up; `QueueInv`: a notice belongs to the window that is open, and a socket full for too long is cut; `Locked`: at most one run is inside the advisory lock, `CallsCounted`: each place of the loop has its number of model calls behind it, `ReportsBacked`: a history row that says COMPLETED came after its report, `OneChild`: the semaphore is held as long as the child runs; `TokensInv`: what a pruned table has forgotten has expired |

**Why the invariants need strengthening.** Few of the properties are inductive. The
commonest reason is an await: a handler that has read something acts on it later, so the
invariant has to say what each handler holds at each of its places (`EntryProgress`,
`Underway`, `HandlerHolds`, `Pending`, `InCall`) and which others cannot meanwhile move
it (`Unopposed`, `Alone`, `Locked`, `Exclusive`). The next is a restart, after which
memory is rebuilt from rows: there the invariant relates memory and rows in between
(`Kept`, `Retaining`, `Ahead`, `Saved`).

**The token bucket** (`OrdersPerWindow`, over every window and not the ones the code looks
at). `Paid` says: for every instant t so far, the orders sent from t on, and the tokens
the bucket would have now (`Level`), are together at most what a full bucket at t and the
refill since could give. A send moves one from the level to the count (`PaidSends`), a
tick adds the rate on both sides (`PaidTicks`), an answer's used count or a ban only
lowers the level. Over one window that is less than twice the capacity, the bound the
property states.

**The bars** (`CandlesInv`). Closed bars are strictly in order and over, the watermark
is the last of them, the forming bar lies after it and not after the last tick, and the
accepted ticks of each bar are as many as its volume. A tick is late exactly when its
bar is at or below the watermark; otherwise no closed bar has its bucket, and either the
forming bar does, or the forming bar is over and closes before the new one (`CandlesTicker`);
the sweep closes it when the wall clock has passed it (`CandlesSweep`). In both cases the
bucket of `now`, which never falls (`BucketsGrow`), lies beyond the bar.

**Limits and dumps** (`OperationsInv`). A window that nobody looked at ends, without loss of
generality, with one of its own events, and that one was checked when it came. So the
invariants speak of the windows that an event closes: `LoginInv` says that a list still
holds each login let through in its window (garbage collection and refused attempts change
nothing of that), hence each login found its windows within their limits; `WindowsHeld`
carries this over to every instant. For the alerts (`AlertsInv`) the lists do lose members:
a critical alert pushes the oldest one out. `PushedOut` says that then the count is full of
later ones, so that when an alert that is not critical finds room, all of its window is
counted. `TogglesInv`: one of the toggles counted has left the window when the promised
time has come. `BackupInv`: a dump that is gone, or listed for unlinking, has the retention
depth of finished dumps behind it (`Superseded`), because instants of dumps only grow
(`Running`), and what a complete prune leaves is that depth (`KeptFew`). `HasLast` and
`HasLeast`, the first and the last of a set of numbered things, serve all of them.

**The pages and the views** (`PagesInv`, in the same theorem). `NothingLost`: a row of the
filter that was there when the walk began lies ahead of the client's cursor or was brought;
a page takes the first rows ahead in the order of the query (`SortedIs`) and
moves the cursor to its last one, and a cursor signed with an older secret starts the walk
over. `NothingTwice`: as long as the secret has not changed, what was brought lies behind
the cursor, each row once. The views agree because a measure of rows that adds over
disjoint sets (`Additive`: their number, the wins, the net result) adds up day by day
(`DayByDay`), whatever the length of a day, and leaving out the days without trades
changes nothing.

**The paper fills** (`FillsInv`). What a caller holds for an order, and what was answered,
is the ledger's fill if there is one, since the ledger keeps the first.

**Sums, counts and lists.** Exposure, day results, funding, fills and views are sums the
models take with MapThenSumSet, whose body is a recursive function on the subsets of a finite
set. The library's induction theorems take an operator as a parameter and cannot be used;
`SetInduction` is induction over the naturals for a *set* of numbers and needs none. With it
`SumExists` and `SumUnique` prove that the function is defined on every finite set,
`WeightUnfolds` and `NotionalUnfolds` its equation, and `WeightTakes`, `NotionalAdd`,
`NotionalMono`, `WeightBounds`, `WeightParts` what the invariants use; `AllReleased` is
the same for the fold that releases slots. A set is listed by a bijection from its first
numbers (`AsSequence`), and in a given order by counting what comes before each member
(`SortedIs`).

**Only model-checked.**

- Liveness (PendingSettles, ClosedRowFreesSlot, HandlerEnds, FlatEndsClosed,
  PositionsRecover, EngineSettles, SurfaceSettles): TLAPS does not reason about fairness.
- StatsSound: what the figures of `RunStats` compute. They are folds over sequences,
  filters of sequences and sorted lists, for which the provers have no theory (`SelectSeq`
  and TLC's `SortSeq` have no definition they can open) and the library's inductions take
  operators.
- EntryNeverDoubled is refuted by its run (section 3).

## 5. Not modelled

- configuration: parsing and validation of the environment, without state afterwards;
- the schema, migrations and generated code: the constraints and stored functions the code
  relies on are in the modules of the tables;
- the order of NestJS hooks and module wiring, which are the framework's;
- indicators and scores, which only choose candidates; market prices are enumerated or
  nondeterministic;
- message texts, logging, rendering, and the read endpoints that return a row as it is;
- several positions at once in `PositionLifecycle`, `Protection` and `ExitWatch`: rows share
  no in-memory state but the maps keyed by position;
- adds to an open position;
- compositions: each module abstracts its neighbours to what they may do. Where two models
  meet (the executor in `RiskGate`, the gate in `Rebalance`, the halt in `ExchangeCalls`) the
  neighbour is nondeterministic and so includes what its own module does.

## 6. Plan

1. OrderSubmit as the refinement of RiskGate's atomic SubmitFill and SubmitNoFill.
2. Compositions: RiskDay with HaltControl through the day row they both write,
   PositionLifecycle with Protection through the row and the monitor.
3. The figures of `RunStats` over functions in place of filtered and sorted sequences, so
   that drawdown and streak can be proved with `SetInduction`.

Runs stay few: settings that differ in a constant only are merged by choosing the
constant in `Init`, as OrderSubmit does with its faults and the group runs with `part`.
