----------------------------- MODULE PaperFills -----------------------------
(***************************************************************************)
(* Paper orders and the probe that guards them.  PaperExecutionClient      *)
(* sends every order to PaperFillSimulator, which answers from the         *)
(* idempotency ledger or rolls a fill against the last tick and records    *)
(* it; every step of it is an await.  On the way the order is translated   *)
(* five times: executor, exchange request, shared intent, fill intent,     *)
(* fill, and back to a submit state.  PaperExchangeNullityProbe polls the  *)
(* real account, which must stay empty, and backs off when the exchange    *)
(* does not answer.  Time is counted in probe intervals.                   *)
(***************************************************************************)
EXTENDS Integers, FiniteSets, FiniteSetsExt

CONSTANTS
    Orders,      \* what the executor submits, each under its client order id
    Callers,     \* concurrent createOrder calls
    Quotes,      \* ticks; 0 is a field that is missing or not positive
    Threshold,   \* TRANSPORT_FAILURE_THRESHOLD
    Cap,         \* paperNullityProbeBackoffMaxMs, in intervals
    MaxCalls,    \* bound: createOrder calls
    MaxOutages,  \* bound: times the exchange becomes unreachable
    None

Sides == {"long", "short"}
Policies == {"MARKETABLE_LIMIT_IOC", "POST_ONLY_MAKER", "REDUCE_MARKET"}

(* ISubmitInput as the router plans it: a market order reduces, a limit    *)
(* order enters.                                                           *)
SubmitInputs ==
    {i \in [id : Nat, side : Sides, reduceOnly : BOOLEAN, policy : Policies] :
        i.reduceOnly <=> i.policy = "REDUCE_MARKET"}

Ticks == [ask : Nat, bid : Nat, mark : Nat, last : Nat]

ConstantsOK ==
    /\ Orders \subseteq SubmitInputs /\ Quotes \subseteq Ticks
    /\ None \notin Quotes
    /\ Threshold \in Nat /\ Cap \in Nat \ {0} /\ MaxCalls \in Nat /\ MaxOutages \in Nat
    /\ None \notin [filled : BOOLEAN, price : Int]     \* null is no fill

VARIABLES
    tick,      \* StreamingFillAdapter.lastTickBySymbol: a quote, or None
    stale,     \* the cached tick is older than STREAMING_FILL_STALE_TICK_MS
    ledger,    \* paper_simulator_idempotency: the fill recorded per order
    call,      \* createOrder calls in progress
    answers,   \* fills handed to callers, per order
    calls,
    up,        \* the exchange answers the probe
    leaked,    \* the real account holds an order or a position
    outages,
    probing,   \* PaperExchangeNullityProbe.running
    failures,  \* consecutiveTransportFailures
    backoff,   \* currentBackoffMs, 0 for null
    wait,      \* intervals until nextProbeAtMs
    latched,   \* haltLatched
    halted

fills == <<tick, stale, ledger, call, answers, calls>>
account == <<up, leaked, outages>>
probe == <<probing, failures, backoff, wait, latched, halted>>
vars == <<tick, stale, ledger, call, answers, calls, up, leaked, outages,
          probing, failures, backoff, wait, latched, halted>>

Missed == [filled |-> FALSE, price |-> 0]
Idle == [pc |-> "idle"]
-----------------------------------------------------------------------------
(* The exchange speaks of buying and selling: a long is entered by a buy   *)
(* and reduced by a sell.  A market order is the one without a limit.      *)
CreateOrderRequest(i) ==
    [side |-> IF (i.side = "long") = i.reduceOnly THEN "sell" ELSE "buy",
     reduceOnly |-> i.reduceOnly]

(* Back to the side of the position: the limit price is not passed on.     *)
TradeSideMutant(r) == IF r.side = "sell" THEN "short" ELSE "long"

TradeSide(r) == IF (r.side = "sell") = r.reduceOnly THEN "long" ELSE "short"

SharedIntent(r) ==
    [side |-> TradeSide(r), action |-> IF r.reduceOnly THEN "close" ELSE "open"]

(* The first usable field, the best one for the taker's side in front; 0   *)
(* when there is none.                                                     *)
FirstUsable(fields) ==
    IF \A k \in 1..4 : fields[k] = 0 THEN 0
    ELSE fields[CHOOSE k \in 1..4 : fields[k] > 0 /\ \A j \in 1..(k - 1) : fields[j] = 0]

AskFirst(q) == FirstUsable(<<q.ask, q.mark, q.last, q.bid>>)
BidFirst(q) == FirstUsable(<<q.bid, q.mark, q.last, q.ask>>)

DeriveReferencePrice(q, side, reduceOnly) ==
    IF (side = "long") # reduceOnly THEN AskFirst(q) ELSE BidFirst(q)

ToFillIntent(i, q) ==
    [side |-> i.side, action |-> i.action,
     policy |-> IF i.action = "open" THEN "MARKETABLE_LIMIT_IOC" ELSE "REDUCE_MARKET",
     limit |-> DeriveReferencePrice(q, i.side, i.action # "open")]

(* resolveExecutablePrice: derived apart from the limit, and for opens.    *)
ExecutablePrice(side, q) == IF side = "long" THEN AskFirst(q) ELSE BidFirst(q)

(* The tick path of an immediate order is one point, at the quote's time.  *)
IntraBarTicks(f, q) ==
    {t \in {[high |-> p, low |-> p, at |-> 0] : p \in {ExecutablePrice(f.side, q)}} :
        f.policy = "MARKETABLE_LIMIT_IOC" /\ t.high > 0}

OrderTimeout == 2000

(* A limit order without a tick that touches it in time is dropped, never  *)
(* chased; both ends of the window belong to it.                           *)
IsMissedFill(f, ticks) ==
    /\ f.policy \in {"MARKETABLE_LIMIT_IOC", "POST_ONLY_MAKER"}
    /\ ~\E t \in ticks :
           /\ t.at >= 0 /\ t.at <= OrderTimeout
           /\ IF f.side = "long" THEN t.low <= f.limit ELSE t.high >= f.limit

(* Basis points: a fill's price is in ten-thousandths of a quote's unit.   *)
Unit == 10000
TierFloor == 15

AdverseIsHigher(side, action) == (side = "long") = (action = "open")

TierFillPrice(f) ==
    f.limit * (IF AdverseIsHigher(f.side, f.action) THEN Unit + TierFloor ELSE Unit - TierFloor)

ApplyFill(f, ticks) ==
    IF IsMissedFill(f, ticks) THEN Missed ELSE [filled |-> TRUE, price |-> TierFillPrice(f)]

(* The whole way of an order, at a quote.                                  *)
Simulated(o, q) ==
    LET f == ToFillIntent(SharedIntent(CreateOrderRequest(o)), q)
    IN  ApplyFill(f, IntraBarTicks(f, q))

(* And back: the snapshot's status, and what the submitter reads in it.    *)
SnapshotStatus(f) == IF f.filled THEN "closed" ELSE "canceled"

MapCcxtStatus(status) ==
    CASE status = "open" -> "OPEN"
      [] status = "closed" -> "FILLED"
      [] status \in {"canceled", "expired"} -> "CANCELLED"
      [] status = "rejected" -> "REJECTED"
      [] OTHER -> "UNKNOWN"
-----------------------------------------------------------------------------
-----------------------------------------------------------------------------
(* The preflight found an empty account: the poll runs.                    *)
Init ==
    /\ tick = None /\ stale = FALSE /\ calls = 0
    /\ ledger = [o \in Orders |-> None] /\ answers = [o \in Orders |-> {}]
    /\ call = [c \in Callers |-> Idle]
    /\ up = TRUE /\ leaked = FALSE /\ outages = 0
    /\ probing = FALSE /\ failures = 0 /\ backoff = 0 /\ wait = 0
    /\ latched = FALSE /\ halted = FALSE

Tick(q) ==
    /\ tick' = q /\ stale' = FALSE
    /\ UNCHANGED <<ledger, call, answers, calls, account, probe>>

TickAges ==
    /\ tick # None /\ ~stale /\ stale' = TRUE
    /\ UNCHANGED <<tick, ledger, call, answers, calls, account, probe>>

(* The answer to the caller; a call ends with a fill or with an exception. *)
Answer(o, f) == answers' = [answers EXCEPT ![o] = @ \union {f}]

(* findByKey: a recorded fill is returned as it is.                        *)
Replay(c, o) ==
    /\ call[c] = Idle /\ calls < MaxCalls /\ calls' = calls + 1
    /\ ledger[o] # None
    /\ Answer(o, ledger[o])
    /\ UNCHANGED <<tick, stale, ledger, call, account, probe>>

CreateOrder(c, o) ==
    /\ call[c] = Idle /\ calls < MaxCalls /\ calls' = calls + 1
    /\ ledger[o] = None
    /\ call' = [call EXCEPT ![c] = [pc |-> "found none", order |-> o]]
    /\ UNCHANGED <<tick, stale, ledger, answers, account, probe>>

(* ensureFreshTickCache, then the roll: no tick or a stale one is a miss,  *)
(* otherwise the order is simulated at the quote; the refresh may fail.    *)
Roll(c) ==
    /\ call[c].pc = "found none"
    /\ \E refreshed \in IF tick = None \/ stale THEN Quotes \union {None} ELSE {None} :
          LET fresh == refreshed # None \/ (tick # None /\ ~stale)
              quote == IF refreshed # None THEN refreshed ELSE tick
          IN /\ IF refreshed # None THEN tick' = refreshed /\ stale' = FALSE
                                    ELSE UNCHANGED <<tick, stale>>
             /\ call' = [call EXCEPT ![c] =
                    [pc |-> "rolled", order |-> call[c].order,
                     fill |-> IF fresh THEN Simulated(call[c].order, quote) ELSE Missed]]
    /\ UNCHANGED <<ledger, answers, calls, account, probe>>

(* insertNew: the unique key lets one of two racing calls through, the     *)
(* other ends with PaperSimulatorIdempotencyDuplicateException.            *)
TakenMutant(o) == FALSE

Taken(o) == ledger[o] # None

InsertNew(c) ==
    /\ call[c].pc = "rolled"
    /\ LET o == call[c].order IN
       IF Taken(o)
       THEN UNCHANGED <<ledger, answers>>
       ELSE ledger' = [ledger EXCEPT ![o] = call[c].fill] /\ Answer(o, call[c].fill)
    /\ call' = [call EXCEPT ![c] = Idle]
    /\ UNCHANGED <<tick, stale, calls, account, probe>>

(* SIGKILL and restart: the calls in progress and the tick cache are gone. *)
Restart ==
    /\ \E c \in Callers : call[c] # Idle
    /\ call' = [c \in Callers |-> Idle] /\ tick' = None /\ stale' = FALSE
    /\ UNCHANGED <<ledger, answers, calls, account, probe>>
-----------------------------------------------------------------------------
WindowTickMutant ==
    /\ wait > 0 /\ wait' = backoff
    /\ UNCHANGED <<fills, account, probing, failures, backoff, latched, halted>>

(* scheduledTick: a tick inside the backoff window, or while a probe runs, *)
(* changes nothing but the time that is left.                              *)
WindowTick ==
    /\ wait > 0 /\ wait' = wait - 1
    /\ UNCHANGED <<fills, account, probing, failures, backoff, latched, halted>>

ScheduledTick ==
    /\ ~probing /\ wait = 0 /\ probing' = TRUE
    /\ UNCHANGED <<fills, account, failures, backoff, wait, latched, halted>>

Abort == latched' = TRUE /\ halted' = (halted \/ ~latched)

ProbeSucceeds ==
    /\ probing /\ up /\ probing' = FALSE
    /\ failures' = 0 /\ backoff' = 0 /\ wait' = 0
    /\ IF leaked THEN Abort ELSE UNCHANGED <<latched, halted>>
    /\ UNCHANGED <<fills, account>>

(* classifyProbeFailure, credentials: halts.                               *)
ProbeRefused ==
    /\ probing /\ up /\ probing' = FALSE
    /\ Abort
    /\ UNCHANGED <<fills, account, failures, backoff, wait>>

(* classifyProbeFailure, transport: counted, and from the sixth on the     *)
(* window doubles up to its cap.                                           *)
NextBackoffMutant == Max({backoff, 1}) * 2

NextBackoff == Min({Max({backoff, 1}) * 2, Cap})

ProbeUnanswered ==
    /\ probing /\ ~up /\ probing' = FALSE
    /\ failures' = Min({failures + 1, Threshold + 1})
    /\ IF failures' > Threshold
       THEN backoff' = NextBackoff /\ wait' = backoff'
       ELSE UNCHANGED <<backoff, wait>>
    /\ UNCHANGED <<fills, account, latched, halted>>

ExchangeChanges ==
    /\ \/ up /\ outages < MaxOutages /\ up' = FALSE /\ outages' = outages + 1
       \/ ~up /\ up' = TRUE /\ UNCHANGED outages
    /\ UNCHANGED <<fills, leaked, probe>>

AccountLeaks ==
    /\ ~leaked /\ leaked' = TRUE
    /\ UNCHANGED <<fills, up, outages, probe>>

Resume ==
    /\ halted /\ halted' = FALSE
    /\ UNCHANGED <<fills, account, probing, failures, backoff, wait, latched>>

Probing == WindowTick \/ ScheduledTick \/ ProbeSucceeds \/ ProbeUnanswered

Next ==
    \/ \E q \in Quotes : Tick(q)
    \/ TickAges
    \/ \E c \in Callers, o \in Orders : Replay(c, o) \/ CreateOrder(c, o)
    \/ \E c \in Callers : Roll(c) \/ InsertNew(c)
    \/ Restart \/ WindowTick \/ ScheduledTick \/ ProbeSucceeds \/ ProbeRefused \/ ProbeUnanswered
    \/ ExchangeChanges \/ AccountLeaks \/ Resume

(* The poll is a setInterval: its ticks and the answers keep coming.       *)
Spec == Init /\ [][Next]_vars /\ WF_vars(Probing)
-----------------------------------------------------------------------------
TypeOK ==
    /\ tick \in Quotes \union {None} /\ stale \in BOOLEAN
    /\ \A o \in Orders : Cardinality(answers[o]) <= MaxCalls
    /\ calls \in 0..MaxCalls /\ outages \in 0..MaxOutages
    /\ failures \in 0..Threshold + 1 /\ backoff \in 0..Cap /\ wait \in 0..backoff
    /\ \A b \in {up, leaked, probing, latched, halted} : b \in BOOLEAN

(* An order is filled once: whatever races, retries and restarts there     *)
(* were, every caller that got an answer got the same fill (ADR 0032 D15). *)
OneFillPerOrder == \A o \in Orders : Cardinality(answers[o]) <= 1

(* An order keeps its meaning through its translations: a buy that crosses *)
(* a quoted ask is filled above it and a sell below the bid, an order with *)
(* a usable quote is never dropped, an entry without one is never filled,  *)
(* and the executor reads FILLED exactly when something was filled.  Every *)
(* caller holds the fill of its own order at a tick that was there.        *)
OrderKeepsItsMeaning ==
    /\ \A side \in Sides, reduceOnly \in BOOLEAN, q \in Quotes :
          LET f == Simulated([side |-> side, reduceOnly |-> reduceOnly], q)
              buys == (side = "long") # reduceOnly
              usable == \E p \in {q.ask, q.bid, q.mark, q.last} : p > 0
          IN  /\ buys /\ q.ask > 0 => f.filled /\ f.price > Unit * q.ask
              /\ ~buys /\ q.bid > 0 => f.filled /\ f.price < Unit * q.bid
              /\ usable => f.filled /\ f.price > 0
              /\ ~usable /\ ~reduceOnly => ~f.filled
              /\ MapCcxtStatus(SnapshotStatus(f)) = IF f.filled THEN "FILLED" ELSE "CANCELLED"
    /\ \A o \in Orders : \A f \in answers[o] :
          f = Missed \/ \E q \in Quotes : f = Simulated(o, q)

(* Backing off never becomes blindness: an account that holds something    *)
(* while the exchange stays reachable is found, and the engine halted.     *)
LeakFound == leaked ~> (latched \/ ~up)
=============================================================================
