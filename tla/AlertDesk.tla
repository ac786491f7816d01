----------------------------- MODULE AlertDesk -----------------------------
(***************************************************************************)
(* The way of an alert to the operator's chat: AlertRateLimiter, which     *)
(* folds repeats per key and caps the messages of a window, and            *)
(* TelegramAlertSink, which sends without retries and backs off when the   *)
(* service asks for it.  The array of times is a set of numbered alerts:   *)
(* the numbers are the order the array has.                                *)
(***************************************************************************)
EXTENDS Integers, FiniteSets

CONSTANTS
    Keys,               \* coalesce keys (type and symbol)
    Coalesce,           \* ALERT_COALESCE_WINDOW_MS
    Window, Ceiling,    \* ALERT_GLOBAL_WINDOW_MS, ALERT_GLOBAL_CEILING_PER_MIN
    RetryAfters,        \* what the service may ask for in a 429
    MaxTime, MaxAlerts, \* bounds
    None

ConstantsOK ==
    /\ {Coalesce, Window, Ceiling, MaxTime, MaxAlerts} \subseteq Nat /\ Ceiling > 0 /\ RetryAfters \subseteq Nat \ {0}
    /\ None \notin Keys /\ None \notin [firstAt: Nat, count: Nat]

VARIABLES
    now,
    recent,             \* globalTimestamps: the alerts they are of
    bucket,             \* key -> [firstAt, count], None when there is none
    suppressed,         \* suppressedSinceLastSend
    notBefore, flying,  \* nextSendNotBeforeMs; requests under way
    log,                \* ghost: the alerts admitted, as [n, key, critical, at]
    untold,             \* ghost: folded alerts whose number no message told
    asked,              \* ghost: the latest time the service asked to wait for
    early,              \* ghost: a request was made before that time
    alerts

limiter == <<recent, bucket, suppressed, log, untold>>
sink == <<notBefore, flying, asked, early>>
vars == <<now, limiter, sink, alerts>>

Alert == [n: 1..MaxAlerts, key: Keys \cup {None}, critical: BOOLEAN, at: 0..MaxTime]

TypeOK ==
    /\ now \in 0..MaxTime /\ log \subseteq Alert /\ recent \subseteq log /\ DOMAIN bucket = Keys /\ suppressed \in 0..MaxAlerts
    /\ notBefore \in Nat /\ flying \in 0..MaxAlerts /\ asked \in Nat /\ early \in BOOLEAN /\ untold \in Nat

Init ==
    /\ now = 0 /\ recent = {} /\ bucket = [k \in Keys |-> None] /\ suppressed = 0 /\ log = {} /\ untold = 0
    /\ notBefore = 0 /\ flying = 0 /\ asked = 0 /\ early = FALSE /\ alerts = 0

-----------------------------------------------------------------------------
(* AlertRateLimiter.admit.                                                 *)

NewBucket == [firstAt |-> now, count |-> 1]

\* evictExpiredGlobal
UnexpiredMutant == {a \in recent: a.at > now - Window + 1}

Unexpired == {a \in recent: a.at > now - Window}

\* tryCoalesce: an earlier alert of the key is less than the window old.
RepeatsMutant(k) == bucket[k] # None /\ now - bucket[k].firstAt < Coalesce - 1

Repeats(k) == bucket[k] # None /\ now - bucket[k].firstAt < Coalesce

\* coalesceKeyOf: only two types fold; a critical one never does.
Folded(k, critical) == k # None /\ ~critical /\ Repeats(k)

\* The bucket tryCoalesce leaves when it lets the alert pass, before the ceiling is looked at.
Passed(k, critical) == IF k = None \/ critical THEN bucket ELSE [bucket EXCEPT ![k] = NewBucket]

Oldest(set) == CHOOSE a \in set: \A b \in set: a.n <= b.n

\* A critical alert at the ceiling takes the place of the oldest one.
Room(critical) == IF critical /\ Cardinality(Unexpired) >= Ceiling THEN Unexpired \ {Oldest(Unexpired)} ELSE Unexpired

\* appendCoalesceSuffix: the number of repeats folded into the key's bucket.
Carried(k) == IF k # None /\ bucket[k] # None THEN bucket[k].count - 1 ELSE 0

\* A repeat only counts.
Fold(k) ==
    /\ Folded(k, FALSE) /\ bucket' = [bucket EXCEPT ![k].count = @ + 1] /\ recent' = Unexpired
    /\ UNCHANGED <<suppressed, log, untold, sink>>

\* Above the ceiling an alert that is not critical is dropped and counted.
Drop(k) ==
    /\ ~Folded(k, FALSE) /\ Cardinality(Unexpired) >= Ceiling /\ suppressed' = suppressed + 1
    /\ untold' = untold + Carried(k)
    /\ recent' = Unexpired /\ bucket' = Passed(k, FALSE) /\ UNCHANGED <<log, sink>>

\* publish, sendSafely: what was admitted is sent at once, or skipped while the service wants none.
Send ==
    /\ suppressed' = 0
    /\ flying' = IF now < notBefore THEN flying ELSE flying + 1
    /\ early' = (early \/ (now >= notBefore /\ now < asked)) /\ UNCHANGED <<notBefore, asked>>

Admit(k, critical) ==
    /\ ~Folded(k, critical) /\ Cardinality(Room(critical)) < Ceiling
    /\ LET this == [n |-> alerts + 1, key |-> k, critical |-> critical, at |-> now]
       IN  recent' = Room(critical) \cup {this} /\ log' = log \cup {this}
    /\ bucket' = IF k = None THEN bucket ELSE [bucket EXCEPT ![k] = NewBucket]
    /\ untold' = untold + (IF critical THEN 0 ELSE Carried(k))
    /\ Send

Publish ==
    /\ alerts < MaxAlerts /\ alerts' = alerts + 1 /\ UNCHANGED now
    /\ \E k \in Keys \cup {None}: Fold(k) \/ Drop(k) \/ (\E critical \in BOOLEAN: Admit(k, critical))

\* sendSafely after the await: sent, lost, or told to wait (honourRetryAfter).
Answer ==
    /\ flying > 0 /\ flying' = flying - 1
    /\ \/ UNCHANGED <<notBefore, asked>>
       \/ \E r \in RetryAfters: notBefore' = now + r /\ asked' = IF now + r > asked THEN now + r ELSE asked
    /\ UNCHANGED <<now, limiter, early, alerts>>

Tick == now < MaxTime /\ now' = now + 1 /\ UNCHANGED <<limiter, sink, alerts>>

Next == Publish \/ Answer \/ Tick

Spec == Init /\ [][Next]_vars

-----------------------------------------------------------------------------
Within(a, t) == a.at <= t /\ a.at > t - Window

\* However critical alerts push others out of the count, a window never carries more alerts that
\* are not critical than the ceiling.
CeilingHeld == \A t \in 0..now: Cardinality({a \in log: Within(a, t) /\ ~a.critical}) <= Ceiling

\* Between two alerts of a key that are not critical lies a whole coalesce window, although
\* critical ones and the ceiling restart the buckets.
OnePerCoalesceWindow ==
    \A a, b \in log:
        a.n < b.n /\ a.key = b.key /\ a.key # None /\ ~a.critical /\ ~b.critical => b.at - a.at >= Coalesce

\* A folded repeat is told: the next message of its key carries the number of them.
RepeatsAreTold == untold = 0

\* The service's wish to be left alone is kept, whichever of two answers comes last.
BackoffKept == ~early
=============================================================================
