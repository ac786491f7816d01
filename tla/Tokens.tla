------------------------------- MODULE Tokens -------------------------------
(***************************************************************************)
(* Bearer tokens: issued by a login or by the operator's command, verified *)
(* by the engine's guard and by the tool server (signature and expiry at   *)
(* once, then an awaited look into revoked_jti), revoked by the operator   *)
(* and forgotten by the hourly prune.  Signatures and the wording of       *)
(* refusals are left out: a token here is one the engine issued.           *)
(***************************************************************************)
EXTENDS Integers

CONSTANTS
    Jtis,               \* the tokens' ids
    Ttl,                \* AUTH_TOKEN_MAX_TTL_SEC, also the default
    Margin,             \* AUTH_REVOKED_JTI_PRUNE_SAFETY_MARGIN_SEC
    PruneAfter,         \* AUTH_REVOKED_JTI_PRUNE_AFTER_SEC
    MaxLookup,          \* the longest a look into the table takes
    MaxTime, MaxRevokes,    \* bounds
    None

\* AppConfigService: the floor of PruneAfter, asserted at boot.
ConstantsOK ==
    /\ {Ttl, Margin, PruneAfter, MaxLookup, MaxTime, MaxRevokes} \subseteq Nat
    /\ PruneAfter >= Ttl + Margin /\ MaxLookup <= Margin /\ None \notin Nat

Surfaces == {"engine", "mcp"}

VARIABLES
    now,
    token,              \* jti -> [exp, aud] once issued
    row,                \* jti -> revoked_at of its row of revoked_jti
    dead,               \* ghost: jti -> when it was first revoked
    asked,              \* requests past the synchronous checks: [jti, at]
    wrong,              \* ghost: a request that came after its token's revocation was served
    revokes

vars == <<now, token, row, dead, asked, wrong, revokes>>

Times == 0..MaxTime

TypeOK ==
    /\ now \in Times /\ DOMAIN token = Jtis /\ \A j \in Jtis: token[j] # None => token[j].exp \in Nat /\ token[j].aud \in Surfaces
    /\ row \in [Jtis -> Times \cup {None}] /\ dead \in [Jtis -> Times \cup {None}]
    /\ asked \subseteq [jti: Jtis, at: Times] /\ wrong \in BOOLEAN /\ revokes \in 0..MaxRevokes

Init ==
    /\ now = 0 /\ token = [j \in Jtis |-> None] /\ row = [j \in Jtis |-> None] /\ dead = [j \in Jtis |-> None]
    /\ asked = {} /\ wrong = FALSE /\ revokes = 0

\* parseTtlSec, parseIssueArgs: 0 and what exceeds the maximum are refused.
TtlOK(ttl) == 0 < ttl /\ ttl <= Ttl

\* issue: by AuthController.login (engine, full time) or by the command (any audience and time).
Issue(j, aud, ttl) ==
    /\ token[j] = None /\ TtlOK(ttl) /\ token' = [token EXCEPT ![j] = [exp |-> now + ttl, aud |-> aud]]
    /\ UNCHANGED <<now, row, dead, asked, wrong, revokes>>

\* RevokedJtiRepository.revoke: an existing row is left as it is.
Revoke(j) ==
    /\ token[j] # None /\ revokes < MaxRevokes /\ revokes' = revokes + 1 /\ now <= MaxTime - PruneAfter - 1
    /\ row' = [row EXCEPT ![j] = IF @ = None THEN now ELSE @]
    /\ dead' = [dead EXCEPT ![j] = IF @ = None THEN now ELSE @]
    /\ UNCHANGED <<now, token, asked, wrong>>

\* AuthTokenService.verify, verifyBearer: the expiry, and on the tool server the audience.
VerifyMutant(j, surface) == token[j] # None

Verify(j, surface) ==
    token[j] # None /\ token[j].exp > now /\ (surface = "mcp" => token[j].aud = "mcp")

\* AuthGuard.canActivate, authenticateRequest up to the await; one request at a time is followed.
Request(j, surface) ==
    /\ asked = {} /\ Verify(j, surface) /\ asked' = asked \cup {[jti |-> j, at |-> now]}
    /\ UNCHANGED <<now, token, row, dead, wrong, revokes>>

\* isRevoked, and what follows the await: no row, no refusal.
IsRevoked(j) == row[j] # None

Lookup(r) ==
    /\ r \in asked /\ asked' = asked \ {r}
    /\ wrong' = (wrong \/ (~IsRevoked(r.jti) /\ dead[r.jti] # None /\ dead[r.jti] < r.at))
    /\ UNCHANGED <<now, token, row, dead, revokes>>

\* pruneOlderThan: rows revoked before the cutoff.
PrunableMutant(j) == row[j] # None /\ row[j] < now - 1000 * PruneAfter

Prunable(j) == row[j] # None /\ row[j] < now - PruneAfter

\* runOnce, pruneSafely: a failing delete leaves the table for the next hour.
RunOnce ==
    /\ \E j \in Jtis: Prunable(j)
    /\ row' = [j \in Jtis |-> IF Prunable(j) THEN None ELSE row[j]]
    /\ UNCHANGED <<now, token, dead, asked, wrong, revokes>>

Tick ==
    /\ now < MaxTime /\ now' = now + 1 /\ \A r \in asked: now - r.at < MaxLookup
    /\ UNCHANGED <<token, row, dead, asked, wrong, revokes>>

Next ==
    \/ \E j \in Jtis:
          \/ \E surface \in Surfaces: Request(j, surface)
          \/ \E aud \in Surfaces, ttl \in 0..Ttl: Issue(j, aud, ttl)
          \/ Revoke(j)
    \/ \E r \in asked: Lookup(r)
    \/ RunOnce \/ Tick

\* The clock goes on, a look into the table ends, and some hourly prune succeeds.
Fairness == WF_vars(Tick) /\ WF_vars(\E r \in asked: Lookup(r)) /\ WF_vars(RunOnce)

Spec == Init /\ [][Next]_vars /\ Fairness

-----------------------------------------------------------------------------
\* A request that comes after its token was revoked is refused, for good: when the prune forgets
\* the revocation the token has expired, even for a request whose look into the table is late.
RevokedRefused == ~wrong

\* A revocation does not stay in the table for ever.
TableDrains == \A j \in Jtis: row[j] # None ~> row[j] = None
=============================================================================
