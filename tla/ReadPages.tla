----------------------------- MODULE ReadPages -----------------------------
(***************************************************************************)
(* The read API: the lists a client walks page by page with a signed       *)
(* cursor (closed positions, decisions, the audit history) while rows are  *)
(* being written, and the performance views computed from the same rows.   *)
(***************************************************************************)
EXTENDS Integers, Sequences, FiniteSets, FiniteSetsExt, SequencesExt

CONSTANTS
    Tags,               \* what a list is filtered by and a view is grouped by (symbol, version)
    Results,            \* realized results
    PageSize, DayLen, WindowDays,
    MaxTime, MaxRows, MaxLag, MaxRotations,     \* bounds
    None

ConstantsOK ==
    /\ {PageSize, DayLen, WindowDays, MaxTime, MaxRows, MaxLag, MaxRotations} \subseteq Nat /\ PageSize > 0 /\ DayLen > 0
    /\ Results \subseteq Int /\ None \notin Tags \cup [ts: Nat, id: Nat, key: Nat]

VARIABLES
    now, rows,          \* [id, ts, tag, pnl]
    secret,             \* the generation of the signing secret
    probing,            \* the audit history reads one row more than the page; the other lists do not
    filter,             \* None, or the tag the client asks for
    cursor, got, done,  \* the client: its cursor as [ts, id, key], the ids it received, the end
    present,            \* ghost: the rows there when the walk started
    rotated             \* ghost: the secret changed during the walk

walk == <<probing, filter, cursor, got, done, present, rotated>>
vars == <<now, rows, secret, walk>>

Row == [id: 1..MaxRows, ts: 0..MaxTime, tag: Tags, pnl: Results]

TypeOK ==
    /\ now \in 0..MaxTime /\ rows \subseteq Row /\ secret \in 0..MaxRotations /\ probing \in BOOLEAN /\ filter \in Tags \cup {None}
    /\ got \in Seq(1..MaxRows) /\ done \in BOOLEAN /\ present \subseteq 1..MaxRows /\ rotated \in BOOLEAN

Init ==
    /\ now = 0 /\ rows = {} /\ secret = 0 /\ probing \in BOOLEAN /\ filter \in Tags \cup {None}
    /\ cursor = None /\ got = <<>> /\ done = TRUE /\ present = {} /\ rotated = FALSE

-----------------------------------------------------------------------------
(* Writers.  A row carries the time its writer read, some time before it   *)
(* is there to be read, and the next id of its table.                      *)

Insert ==
    /\ Cardinality(rows) < MaxRows
    /\ \E lag \in 0..MaxLag, tag \in Tags, pnl \in Results:
         /\ lag <= now
         /\ rows' = rows \cup {[id |-> Cardinality(rows) + 1, ts |-> now - lag, tag |-> tag, pnl |-> pnl]}
    /\ UNCHANGED <<now, secret, walk>>

Tick == now < MaxTime /\ now' = now + 1 /\ UNCHANGED <<rows, secret, walk>>

-----------------------------------------------------------------------------
(* CursorCodec.                                                            *)

\* encode, signPayload
Encode(r) == [ts |-> r.ts, id |-> r.id, key |-> secret]

\* decode, verifyMac: what another secret signed is no cursor at all.
Decode(c) == IF c = None \/ c.key # secret THEN None ELSE c

\* The engine comes back with another AUTH_HMAC_SECRET.
Rotate ==
    /\ secret < MaxRotations /\ secret' = secret + 1 /\ rotated' = TRUE
    /\ UNCHANGED <<now, rows, probing, filter, cursor, got, done, present>>

-----------------------------------------------------------------------------
(* The lists: newest first, the id breaks ties.                            *)

Before(a, b) == a.ts > b.ts \/ (a.ts = b.ts /\ a.id > b.id)

\* normalizeFilter and the WHERE clauses of findPage
Matching == {r \in rows: filter = None \/ r.tag = filter}

\* (ts, id) < (cursorTs, cursorId)
BehindMutant(c) == {r \in Matching: c = None \/ c.ts > r.ts}

Behind(c) == {r \in Matching: c = None \/ Before(c, r)}

\* ORDER BY ts DESC, id DESC
Sorted(set) == CHOOSE seq \in SetToSeqs(set): \A i, j \in DOMAIN seq: i < j => Before(seq[i], seq[j])

Take(seq, n) == SubSeq(seq, 1, IF Len(seq) < n THEN Len(seq) ELSE n)

\* findClosedPage, findPage: take(pageSize); findHistoryPage: limit(pageSize + 1), cut to the page.
Fetched == Take(Sorted(Behind(Decode(cursor))), IF probing THEN PageSize + 1 ELSE PageSize)

\* nextCursor: after a full page, or after a page behind which one more row was seen.
More == IF probing THEN Len(Fetched) > PageSize ELSE Len(Fetched) >= PageSize

NextCursor == Encode(Fetched[IF Len(Fetched) < PageSize THEN Len(Fetched) ELSE PageSize])

Ids(seq) == [i \in DOMAIN seq |-> seq[i].id]

Open ==
    /\ done /\ got = <<>> /\ done' = FALSE /\ cursor' = None /\ present' = {r.id: r \in Matching} /\ rotated' = FALSE
    /\ UNCHANGED <<now, rows, secret, probing, filter, got>>

\* listClosed, listDecisions, haltHistory, and the client asking on until no cursor comes back.
Page ==
    /\ ~done /\ got' = got \o Ids(Take(Fetched, PageSize))
    /\ IF More THEN cursor' = NextCursor /\ UNCHANGED done ELSE cursor' = None /\ done' = TRUE
    /\ UNCHANGED <<now, rows, secret, probing, filter, present, rotated>>

Next == Insert \/ Tick \/ Rotate \/ Open \/ Page

Spec == Init /\ [][Next]_vars

-----------------------------------------------------------------------------
(* The performance views.                                                  *)

SumOf(set) == MapThenSumSet(LAMBDA r: r.pnl, set)

\* windowSince: UTC midnight, so that the window does not move within a day.
WindowSince == (now \div DayLen) * DayLen - WindowDays * DayLen

\* aggregatePerformanceByVersion, mapPerformanceByVersion
ByVersion(tag) ==
    LET mine == {r \in rows: r.tag = tag /\ r.ts >= WindowSince}
    IN [trades |-> Cardinality(mine), wins |-> Cardinality({r \in mine: r.pnl > 0}), net |-> SumOf(mine)]

\* aggregateDailyByVersion: one bucket per UTC day.
DayOf(r) == r.ts \div DayLen

DailyMutant(tag, d) ==
    LET mine == {r \in rows: r.tag = tag /\ r.ts > WindowSince /\ DayOf(r) = d}
    IN [trades |-> Cardinality(mine), wins |-> Cardinality({r \in mine: r.pnl > 0}), net |-> SumOf(mine)]

Daily(tag, d) ==
    LET mine == {r \in rows: r.tag = tag /\ r.ts >= WindowSince /\ DayOf(r) = d}
    IN [trades |-> Cardinality(mine), wins |-> Cardinality({r \in mine: r.pnl > 0}), net |-> SumOf(mine)]

Days == 0..(MaxTime \div DayLen)

\* mapDailyPerformanceRows: the running total, a day without trades has no row.
Cumulative(tag, d) == MapThenSumSet(LAMBDA e: Daily(tag, e).net, {e \in Days: e <= d /\ Daily(tag, e).trades > 0})

-----------------------------------------------------------------------------
Received(id) == Cardinality({i \in DOMAIN got: got[i] = id})

\* While rows are written around the cursor, a walk brings every row that was there when it started,
\* also the ones that share a timestamp across the edge of a page; and none of them twice, unless the
\* secret changed and the walk was sent back to its start.
WalkComplete ==
    /\ done /\ got # <<>> => \A id \in present: Received(id) >= 1
    /\ ~rotated => \A id \in present: Received(id) <= 1

\* The two performance views of a version tell the same story: the running total ends at the net
\* result and the days' trades and wins add up to the window's.
ViewsAgree ==
    \A tag \in Tags:
        /\ Cumulative(tag, Max(Days)) = ByVersion(tag).net
        /\ MapThenSumSet(LAMBDA d: Daily(tag, d).trades, Days) = ByVersion(tag).trades
        /\ MapThenSumSet(LAMBDA d: Daily(tag, d).wins, Days) = ByVersion(tag).wins
=============================================================================
