---------------------------- MODULE LoginLimits ----------------------------
(***************************************************************************)
(* The engine's sliding-window limiters: LoginRateLimiter (two windows per *)
(* source address and one over all of them, written through to the         *)
(* database without waiting) and HaltRateLimiter (one window per subject). *)
(* A login attempt counts even when it is refused, a halt toggle only when *)
(* it is let through.  The arrays of times are sets of numbered attempts:  *)
(* the numbers are the order the array has.                                *)
(***************************************************************************)
EXTENDS Integers, FiniteSets

CONSTANTS
    Ips,
    Window, Limit,      \* scope -> length and most attempts let through; scopes "burst", "sustained", "global", "halt"
    Clamp,              \* MAX_HYDRATED_TIMESTAMPS
    MaxTime, MaxAttempts, MaxCrashes, MaxToggles    \* bounds

Scopes == {"burst", "sustained", "global", "halt"}
All == "all"            \* GLOBAL_ROW_SOURCE_IP, as the key of the one global window

ConstantsOK ==
    /\ Window \in [Scopes -> Nat \ {0}] /\ Limit \in [Scopes -> Nat \ {0}] /\ All \notin Ips
    /\ {Clamp, MaxTime, MaxAttempts, MaxCrashes, MaxToggles} \subseteq Nat

VARIABLES
    now,
    seen,               \* <<key, scope>> -> the attempts in the window
    gcAt, alertAt,
    sent,               \* key -> the last two upserts sent for its row, oldest first
    let, life,          \* ghosts: attempts let through, and those of earlier lives
    attempts, crashes,
    toggles, toggleGc, toggled, refused,    \* HaltRateLimiter; its attempts so far; the promise of its last refusal
    broken              \* ghost: a toggle was refused although the promised time had come

login == <<seen, gcAt, alertAt, sent, let, life, attempts, crashes>>
halt == <<toggles, toggleGc, toggled, refused, broken>>
vars == <<now, login, halt>>

Keys == (Ips \X {"burst", "sustained"}) \cup {<<All, "global">>}
Attempt == [n: 1..MaxAttempts, ip: Ips, at: 0..MaxTime]
Toggle == [n: 1..MaxToggles, at: 0..MaxTime]
Never == -1
LongAgo == -5 * (Window["sustained"] + Window["global"] + Window["halt"])

TypeOK ==
    /\ now \in 0..MaxTime /\ seen \in [Keys -> SUBSET Attempt] /\ sent \in [Keys -> (SUBSET Attempt) \X (SUBSET Attempt)]
    /\ {gcAt, alertAt} \subseteq LongAgo..MaxTime /\ let \cup life \subseteq Attempt
    /\ toggles \subseteq Toggle /\ toggled \in Nat /\ refused \in Int /\ broken \in BOOLEAN

Init ==
    /\ now = 0 /\ seen = [k \in Keys |-> {}] /\ sent = [k \in Keys |-> <<{}, {}>>] /\ let = {} /\ life = {}
    /\ gcAt = LongAgo /\ alertAt = LongAgo /\ attempts = 0 /\ crashes = 0
    /\ toggles = {} /\ toggleGc = LongAgo /\ toggled = 0 /\ refused = Never /\ broken = FALSE

\* pruneOlderThan
Fresh(s, scope) == {a \in s: a.at > now - Window[scope]}

-----------------------------------------------------------------------------
(* LoginRateLimiter.                                                       *)

\* maybeGc, once per sustained window: each list by its own window.
CollectMutant == [k \in Keys |-> Fresh(seen[k], IF k[2] = "sustained" THEN "burst" ELSE k[2])]

Collect == [k \in Keys |-> Fresh(seen[k], k[2])]

Kept == IF now - gcAt < Window["sustained"] THEN seen ELSE Collect

Touched(ip) == {<<ip, "burst">>, <<ip, "sustained">>, <<All, "global">>}

\* enforce: the attempt is recorded in each list before any limit is looked at.
ThisAttempt(ip) == [n |-> attempts + 1, ip |-> ip, at |-> now]

Recorded(ip) == [k \in Keys |-> IF k \in Touched(ip) THEN Fresh(Kept[k], k[2]) \cup {ThisAttempt(ip)} ELSE Kept[k]]

Throttled(ip, s) == {k \in Touched(ip): Cardinality(s[k]) > Limit[k[2]]}

\* fireGlobalAlertIfDue: only when no limit of the address refused first.
AlertDue(ip, s) == Throttled(ip, s) = {<<All, "global">>} /\ now - alertAt >= Window["global"]

\* enforce, as AuthController.login calls it; the upserts are sent and not awaited.
Enforce(ip) ==
    /\ attempts < MaxAttempts /\ attempts' = attempts + 1
    /\ LET s == Recorded(ip) IN
       /\ seen' = s /\ sent' = [k \in Keys |-> IF k \in Touched(ip) THEN <<sent[k][2], s[k]>> ELSE sent[k]]
       /\ let' = IF Throttled(ip, s) = {} THEN let \cup {ThisAttempt(ip)} ELSE let
       /\ alertAt' = IF AlertDue(ip, s) THEN now ELSE alertAt
    /\ gcAt' = IF now - gcAt < Window["sustained"] THEN gcAt ELSE now
    /\ UNCHANGED <<now, life, crashes, halt>>

\* hydrateRow: at most Clamp times of a row, the first ones.
Hydrated(s) == {a \in s: Cardinality({b \in s: b.n < a.n}) < Clamp}

\* upsert: a row holds whichever write landed last: the newest or, when the last round of
\* writes is lost or overtaken, the one before.
Rows == {[k \in Keys |-> i]: i \in {1, 2}}

\* The process dies and boots: loadAll, onModuleInit, which goes on empty-handed when the load
\* fails.  HaltRateLimiter starts empty.
Restart ==
    /\ crashes < MaxCrashes /\ crashes' = crashes + 1 /\ gcAt' = LongAgo /\ alertAt' = LongAgo
    /\ \/ \E row \in Rows: seen' = [k \in Keys |-> Hydrated(sent[k][row[k]])] /\ sent' = [k \in Keys |-> <<{}, sent[k][row[k]]>>]
       \/ seen' = [k \in Keys |-> {}] /\ UNCHANGED sent
    /\ life' = life \cup let /\ let' = {}
    /\ toggles' = {} /\ toggleGc' = LongAgo /\ refused' = Never /\ UNCHANGED <<now, attempts, toggled, broken>>

-----------------------------------------------------------------------------
(* HaltRateLimiter, for one subject.                                       *)

\* The oldest toggle of the window leaves it after this long: Retry-After.
RetryAt(s) == (CHOOSE a \in s: \A b \in s: a.n <= b.n).at + Window["halt"]

\* Only a toggle that is let through is recorded.
AfterToggleMutant(s) == s \cup {[n |-> toggled + 1, at |-> now]}

AfterToggle(s) == IF Cardinality(s) < Limit["halt"] THEN s \cup {[n |-> toggled + 1, at |-> now]} ELSE s

EnforceToggle ==
    /\ toggled < MaxToggles /\ toggled' = toggled + 1
    /\ LET s == Fresh(toggles, "halt")
           admitted == Cardinality(s) < Limit["halt"]
       IN  /\ toggles' = AfterToggle(s)
           /\ refused' = IF admitted THEN Never ELSE RetryAt(s)
           /\ broken' = (broken \/ (~admitted /\ refused # Never /\ now >= refused))
    /\ toggleGc' = IF now - toggleGc < 5 * Window["halt"] THEN toggleGc ELSE now
    /\ UNCHANGED <<now, login>>

Tick == now < MaxTime /\ now' = now + 1 /\ UNCHANGED <<login, halt>>

\* The two limiters share nothing but the clock: a behaviour uses the one or the other.
Next ==
    \/ toggled = 0 /\ \E ip \in Ips: Enforce(ip)
    \/ attempts = 0 /\ EnforceToggle
    \/ Restart \/ Tick

Spec == Init /\ [][Next]_vars

-----------------------------------------------------------------------------
Passed(log, ips, t, scope) == Cardinality({a \in log: a.ip \in ips /\ a.at <= t /\ a.at > t - Window[scope]})

LimitHeld(log, t) ==
    /\ \A ip \in Ips: Passed(log, {ip}, t, "burst") <= Limit["burst"] /\ Passed(log, {ip}, t, "sustained") <= Limit["sustained"]
    /\ Passed(log, Ips, t, "global") <= Limit["global"]

\* Whatever the mix of addresses, garbage collection and refused attempts, one life of the engine
\* lets through no more logins in any window than the window's limit (LoginRateLimiter.enforce).
LimitsHold == \A t \in 0..now: LimitHeld(let, t)

\* A subject told to retry its halt toggle after some seconds is let through then (HaltRateLimiter:
\* refused toggles are not counted).
HaltRetrySuffices == ~broken

\* A restart does not re-open the window: the limits hold over all lives together.
LimitsSurviveRestart == \A t \in 0..now: LimitHeld(life \cup let, t)
=============================================================================
