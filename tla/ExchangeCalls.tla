---------------------------- MODULE ExchangeCalls ----------------------------
(***************************************************************************)
(* Every exchange call passes RateLimitPolicyService.acquire first: token  *)
(* buckets per class, a sub-bucket of the order class per call key, and a  *)
(* freeze after the exchange answers 429 or 418.  Several calls interleave *)
(* around their awaits: waiting for tokens, waiting for the answer.  The   *)
(* halt the freeze raises is in HaltControl.                               *)
(***************************************************************************)
EXTENDS Integers, Sequences, FiniteSets, FiniteSetsExt, SequencesExt

CONSTANTS Callers,        \* async tasks that call the exchange
          Symbols,
          Window,         \* ticks in which a bucket refills from empty
          Capacity,       \* class -> capacity, a multiple of Window
          Share,          \* capacity of one symbol's part of the order class
          MaxWait,        \* how long a read waits for tokens
          RetryAfters,    \* seconds a ban may ask for; 0: no header
          DefaultFreeze, FreezeCap, Decay,
          UsedCounts,     \* counts the exchange's headers may report
          MaxTime, MaxCalls, MaxBans,   \* bounds
          None

VARIABLES now,
          bucket,         \* class -> [tokens, last]
          perSymbol,      \* order key -> [tokens, last]
          caller,         \* task -> what it is doing
          calls,          \* calls begun: bound, and the id of the next order
          frozenUntil, currentFreeze, lastExpired, timer,
          header,         \* last_response_headers of the shared client
          sent,           \* history: the orders let through, and when
          banUntil,       \* history: until when the exchange asked for silence
          bans

vars == <<now, bucket, perSymbol, caller, calls, frozenUntil, currentFreeze, lastExpired, timer, header, sent, banUntil, bans>>

frozenVars == <<frozenUntil, currentFreeze, lastExpired, timer, banUntil, bans>>

Classes == {"fapi", "sapi", "orders", "raw"}

\* What a call costs, by operation.
Weight == [createOrder |-> 1, cancelAllOrders |-> 1, fetch |-> 2, watch |-> 0, keyPermissions |-> 1]
Operations == DOMAIN Weight
IsOrderOp(op) == op \in {"createOrder", "cancelAllOrders"}
WeightBucket(op) == IF op = "keyPermissions" THEN "sapi" ELSE "fapi"

\* The tag of an order ends in its client order id, and everything after the operation is
\* taken for the symbol.
KeyOf(op, s, id) == IF op = "createOrder" THEN <<s, id>> ELSE <<s, MaxCalls>>
Keys == Symbols \X (0..MaxCalls)

\* The classes acquire() debits, and by how much.
Costs(op) ==
    [b \in {WeightBucket(op), "raw"} \cup (IF IsOrderOp(op) THEN {"orders"} ELSE {}) |->
        IF b = WeightBucket(op) THEN Weight[op] ELSE 1]

ConstantsOK ==
    /\ {Window, MaxWait, DefaultFreeze, FreezeCap, Decay, MaxTime, MaxCalls, MaxBans} \subseteq Nat
    /\ Window > 0 /\ Capacity["orders"] > 0
    /\ \A b \in Classes : Capacity[b] \in Nat /\ Capacity[b] % Window = 0
    /\ Share % Window = 0 /\ DefaultFreeze \in 1..FreezeCap
    /\ RetryAfters \subseteq Nat /\ UsedCounts \subseteq Nat

TypeOK ==
    /\ now \in 0..MaxTime
    /\ \A b \in Classes : bucket[b].tokens \in 0..Capacity[b] /\ bucket[b].last \in 0..now
    /\ \A k \in Keys : perSymbol[k].tokens \in 0..Share /\ perSymbol[k].last \in 0..now
    /\ \A c \in Callers : caller[c].pc \in {"idle", "sleeping", "inflight"}
    /\ currentFreeze \in 0..FreezeCap

Init ==
    /\ now = 0
    /\ bucket = [b \in Classes |-> [tokens |-> Capacity[b], last |-> 0]]
    /\ perSymbol = [k \in Keys |-> [tokens |-> Share, last |-> 0]]
    /\ caller = [c \in Callers |-> [pc |-> "idle"]]
    /\ calls = 0
    /\ frozenUntil = None /\ currentFreeze = 0 /\ lastExpired = None /\ timer = None
    /\ header = None
    /\ sent = <<>>
    /\ banUntil = 0 /\ bans = 0

-----------------------------------------------------------------------------
(* acquire.                                                                *)

Frozen == frozenUntil # None /\ now < frozenUntil

RefillMutant(b, cap) == [b EXCEPT !.tokens = Min({cap, @ + (now - b.last) * (cap \div Window)})]

Refill(b, cap) == [tokens |-> Min({cap, b.tokens + (now - b.last) * (cap \div Window)}), last |-> now]

Refilled == [b \in Classes |-> Refill(bucket[b], Capacity[b])]

FindInsufficient(op, key, after) ==
    \/ \E b \in DOMAIN Costs(op) : after[b].tokens < Costs(op)[b]
    \/ IsOrderOp(op) /\ Refill(perSymbol[key], Share).tokens < 1

DebitAll(op, after) ==
    [b \in Classes |-> IF b \in DOMAIN Costs(op) THEN [after[b] EXCEPT !.tokens = @ - Costs(op)[b]] ELSE after[b]]

DebitSymbol(op, key) ==
    IF IsOrderOp(op) THEN [perSymbol EXCEPT ![key] = [Refill(@, Share) EXCEPT !.tokens = @ - 1]] ELSE perSymbol

\* One round of acquire: refused while frozen; let through; or, for a read with time
\* left, asleep until the next round.
Acquire(c, op, s, id, deadline) ==
    LET key == KeyOf(op, s, id) IN
    \/ /\ Frozen
       /\ caller' = [caller EXCEPT ![c] = [pc |-> "idle"]]
       /\ UNCHANGED <<bucket, perSymbol, sent>>
    \/ /\ ~Frozen /\ ~FindInsufficient(op, key, Refilled)
       /\ bucket' = DebitAll(op, Refilled)
       /\ perSymbol' = DebitSymbol(op, key)
       /\ sent' = IF IsOrderOp(op) THEN Append(sent, [at |-> now, symbol |-> s]) ELSE sent
       /\ caller' = [caller EXCEPT ![c] = [pc |-> "inflight", op |-> op]]
    \/ /\ ~Frozen /\ FindInsufficient(op, key, Refilled)
       /\ bucket' = Refilled
       /\ caller' = [caller EXCEPT ![c] =
                        IF IsOrderOp(op) \/ now >= deadline THEN [pc |-> "idle"]
                        ELSE [pc |-> "sleeping", op |-> op, symbol |-> s, since |-> now, deadline |-> deadline]]
       /\ UNCHANGED <<perSymbol, sent>>

CallExchange(c, op, s) ==
    /\ caller[c].pc = "idle" /\ calls < MaxCalls
    /\ calls' = calls + 1
    /\ Acquire(c, op, s, calls, now + MaxWait)
    /\ UNCHANGED <<now, header, frozenVars>>

Wake(c) ==
    /\ caller[c].pc = "sleeping" /\ now > caller[c].since
    /\ Acquire(c, caller[c].op, caller[c].symbol, 0, caller[c].deadline)
    /\ UNCHANGED <<now, calls, header, frozenVars>>

-----------------------------------------------------------------------------
(* The answer.                                                             *)

\* Only ever upwards, and without refilling first.
ReconcileClass(b, used) ==
    IF used > Capacity[b] - bucket[b].tokens
    THEN [bucket[b] EXCEPT !.tokens = Max({0, Capacity[b] - used})] ELSE bucket[b]

\* A REST answer parks its headers on the client; a stream answer finds the last ones.
Answered(c, used) ==
    /\ caller[c].pc = "inflight"
    /\ header' = IF caller[c].op = "watch" THEN header ELSE used
    /\ bucket' = IF header' = None THEN bucket
                 ELSE [bucket EXCEPT !["fapi"] = ReconcileClass("fapi", header'),
                                     !["orders"] = ReconcileClass("orders", header')]
    /\ caller' = [caller EXCEPT ![c] = [pc |-> "idle"]]
    /\ UNCHANGED <<now, perSymbol, calls, sent, frozenVars>>

ResolveFreezeDuration(retry) == IF retry > 0 THEN Min({retry, FreezeCap}) ELSE DefaultFreeze

\* Doubled while the chain is alive.
ComputeFreezeDurationMutant(base) == base

ComputeFreezeDuration(base) ==
    IF Frozen \/ (lastExpired # None /\ currentFreeze > 0 /\ now < lastExpired + currentFreeze * Decay)
    THEN Min({2 * currentFreeze, FreezeCap}) ELSE base

\* A pending timer is replaced.
ScheduleAutoClearMutant(d) == IF timer = None THEN now + d ELSE timer

ScheduleAutoClear(d) == now + d

\* 429 or 418: all class buckets drain, the freeze starts or is extended.
Banned(c, retry) ==
    LET d == ComputeFreezeDuration(ResolveFreezeDuration(retry)) IN
    /\ caller[c].pc = "inflight" /\ caller[c].op # "watch" /\ bans < MaxBans
    /\ bans' = bans + 1
    /\ banUntil' = Max({banUntil, now + retry})
    /\ currentFreeze' = d
    /\ frozenUntil' = now + d
    /\ timer' = ScheduleAutoClear(d)
    /\ bucket' = [b \in Classes |-> [bucket[b] EXCEPT !.tokens = 0]]
    /\ caller' = [caller EXCEPT ![c] = [pc |-> "idle"]]
    /\ UNCHANGED <<now, perSymbol, calls, lastExpired, header, sent>>

\* The timer fires; if the window was extended meanwhile it gives up, spent (MaxTime + 1).
RunAutoClear ==
    /\ timer # None /\ timer <= now
    /\ IF Frozen THEN timer' = MaxTime + 1 /\ UNCHANGED <<frozenUntil, lastExpired>>
       ELSE timer' = None /\ frozenUntil' = None /\ lastExpired' = now
    /\ UNCHANGED <<now, bucket, perSymbol, caller, calls, currentFreeze, header, sent, banUntil, bans>>

Tick == now < MaxTime /\ now' = now + 1 /\ UNCHANGED <<bucket, perSymbol, caller, calls, frozenVars, header, sent>>

Next ==
    \/ \E c \in Callers : \/ \E op \in Operations, s \in Symbols : CallExchange(c, op, s)
                          \/ Wake(c)
                          \/ \E used \in UsedCounts : Answered(c, used)
                          \/ \E retry \in RetryAfters : Banned(c, retry)
    \/ RunAutoClear
    \/ Tick

\* Time passes, and the event loop runs a due timer.
Spec == Init /\ [][Next]_vars /\ WF_vars(Tick) /\ WF_vars(RunAutoClear)

-----------------------------------------------------------------------------
(* Properties.                                                             *)

SentIn(from, P(_)) == {i \in DOMAIN sent : sent[i].at >= from /\ sent[i].at < from + Window /\ P(sent[i])}

\* Whatever the interleaving of calls, waits and answers, the orders let through in any
\* window are fewer than a full bucket and a window's refill (refillBucket, debitAll).
OrdersPerWindow ==
    \A t \in 0..now : Cardinality(SentIn(t, LAMBDA x : TRUE)) < 2 * Capacity["orders"]

FreezeHolds == bans' > bans /\ Frozen => frozenUntil' >= frozenUntil /\ currentFreeze' >= currentFreeze

\* Another ban never brings the end of a freeze forward, nor makes a chain of bans
\* shorter (computeFreezeDuration).
FreezeNeverShortens == [][FreezeHolds]_vars

EndsInTime == frozenUntil # None /\ frozenUntil <= MaxTime

\* A freeze ends: the auto-clear runs, however often the window was extended
\* (scheduleAutoClear, runAutoClear).
FreezeEnds == EndsInTime ~> ~EndsInTime

\* "a freeze window suspends refill for `Retry-After` seconds": nothing is sent before the
\* time the exchange asked for is over.
RetryAfterHonoured == [][ \A c \in Callers : caller'[c].pc = "inflight" /\ caller[c].pc # "inflight" => now >= banUntil ]_vars

\* "30% of ORDERS_* per symbol so a single symbol cannot starve the other 2 slots".
SymbolShareHeld ==
    \A t \in 0..now, s \in Symbols :
        Cardinality(SentIn(t, LAMBDA x : x.symbol = s)) < 2 * Share

\* "refill is SUSPENDED during the freeze window": what a bucket holds after a freeze was
\* refilled after it.
FrozenTimeNotRefilled ==
    [][ lastExpired # None /\ bucket'["orders"].last = now /\ bucket["orders"].last < lastExpired
            => bucket'["orders"].tokens <= bucket["orders"].tokens + (now - lastExpired) * (Capacity["orders"] \div Window) ]_vars
=============================================================================
