------------------------------- MODULE Ledger -------------------------------
(***************************************************************************)
(* The transactions ledger of one position and what is computed from it.   *)
(* Three writers meet on it: the executor, which books the fills it was    *)
(* told of; the reconciler, which books from account history the closing   *)
(* fills nobody told it of, then finalizes; and the reconciler's funding   *)
(* poll.  Two unique constraints (client order id, exchange order id) are  *)
(* all that keeps them apart.  The account snapshot writer reads the same  *)
(* tables on an interval.                                                  *)
(*                                                                         *)
(* An amount is one per partial fill, so a sum is a count.  Funding times  *)
(* are 1, 2, ...                                                           *)
(***************************************************************************)
EXTENDS Naturals, FiniteSets, FiniteSetsExt

CONSTANTS
    Orders,         \* closing orders on the venue, each filled in Partials partial fills
    Partials,
    MaxFunding,
    MaxMinutes,
    None            \* a null realized_pnl

ConstantsOK ==
    /\ IsFiniteSet(Orders) /\ Orders # {} /\ {Partials, MaxFunding, MaxMinutes} \subseteq Nat
    /\ Partials > 0

VARIABLES
    state,          \* of the position row
    trades,         \* partial fills of each closing order in the account history
    published,      \* funding settlements the venue has published
    booked,         \* ledger: quantity booked under each exchange order id
    funding,        \* ledger: funding times booked
    realized,       \* realized_pnl as written at the close
    exec,           \* the order whose fill the executor is booking
    recon, todo, got, pick, \* the reconciler: step, what is left of the list, fills it fetched, order looked up
    now, lastMinute, writing, snapshots,   \* the snapshot writer
    missed          \* ghost: the closing fills could not be recovered

vars == <<state, trades, published, booked, funding, realized, exec, recon, todo, got, pick,
          now, lastMinute, writing, snapshots, missed>>

Times == 1..MaxFunding
Amounts == 0..Partials
NoWrite == [kind |-> "no", at |-> 0]

TypeOK ==
    /\ state \in {"open", "closing", "closed"}
    /\ trades \in [Orders -> Amounts] /\ booked \in [Orders -> 0..(2 * Partials)] /\ got \in [Orders -> Amounts]
    /\ published \in 0..MaxFunding /\ funding \subseteq Times
    /\ realized \in 0..(Partials * Cardinality(Orders) + MaxFunding) \cup {None}
    /\ {exec, pick} \subseteq Orders \cup {None}
    /\ recon \in {"idle", "funding", "backfill", "insert", "finalize"}
    /\ todo \subseteq (Times \cup Orders)
    /\ now \in 0..MaxMinutes /\ lastMinute \in 0..MaxMinutes \cup {None}
    /\ writing \in [kind : {"no", "scheduled", "forced"}, at : 0..MaxMinutes]
    /\ snapshots \in [0..MaxMinutes -> 0..2] /\ missed \in BOOLEAN

Init ==
    /\ state = "open" /\ published = 0 /\ funding = {} /\ realized = None /\ exec = None
    /\ trades = [o \in Orders |-> 0] /\ booked = [o \in Orders |-> 0] /\ got = [o \in Orders |-> 0]
    /\ recon = "idle" /\ todo = {} /\ pick = None /\ missed = FALSE
    /\ now = 0 /\ lastMinute = None /\ writing = NoWrite /\ snapshots = [t \in 0..MaxMinutes |-> 0]

Flat == \A o \in Orders : trades[o] = Partials

snapshotVars == <<now, lastMinute, writing, snapshots>>

-----------------------------------------------------------------------------
(* The venue and the executor.                                             *)

VenueFills(o) ==
    /\ trades[o] < Partials /\ trades' = [trades EXCEPT ![o] = @ + 1]
    /\ UNCHANGED <<state, published, booked, funding, realized, exec, recon, todo, got, pick, missed, snapshotVars>>

VenueFunding ==
    /\ published < MaxFunding /\ ~Flat /\ published' = published + 1
    /\ UNCHANGED <<state, trades, booked, funding, realized, exec, recon, todo, got, pick, missed, snapshotVars>>

\* The submit of order o returned its fill; the row is inserted later.
ExecutorTold(o) ==
    /\ state # "closed" /\ exec = None /\ trades[o] = Partials /\ booked[o] = 0 /\ exec' = o
    /\ UNCHANGED <<state, trades, published, booked, funding, realized, recon, todo, got, pick, missed, snapshotVars>>

\* recordTerminal: a second row with the same exchange order id is refused.
InsertMutant(o, qty) == [booked EXCEPT ![o] = @ + qty]

Insert(o, qty) == IF booked[o] = 0 THEN [booked EXCEPT ![o] = qty] ELSE booked

ExecutorBooks ==
    /\ exec # None /\ exec' = None
    /\ booked' = Insert(exec, Partials)
    /\ UNCHANGED <<state, trades, published, funding, realized, recon, todo, got, pick, missed, snapshotVars>>

-----------------------------------------------------------------------------
(* The reconciler's pass over an open row: the funding poll.               *)

Since == IF funding = {} THEN 0 ELSE Max(funding)

PollFunding ==
    /\ recon = "idle" /\ state = "open"
    /\ todo' = {t \in 1..published : t > Since}
    /\ recon' = IF todo' = {} THEN "idle" ELSE "funding"
    /\ UNCHANGED <<state, trades, published, booked, funding, realized, exec, got, pick, missed, snapshotVars>>

FirstOfMutant(events) == Max(events)

FirstOf(events) == Min(events)

\* Rows are written in the venue's order; a throw leaves the rest for the next poll.
RecordFunding ==
    /\ recon = "funding"
    /\ \/ /\ funding' = funding \cup {FirstOf(todo)} /\ todo' = todo \ {FirstOf(todo)}
          /\ recon' = IF todo' = {} THEN "idle" ELSE "funding"
       \/ recon' = "idle" /\ todo' = {} /\ UNCHANGED funding
    /\ UNCHANGED <<state, trades, published, booked, realized, exec, got, pick, missed, snapshotVars>>

-----------------------------------------------------------------------------
(* Case (b): the exchange no longer shows the position.                    *)

\* aggregateFillsByOrder: one row per order, all its partial fills summed.
AggregateFillsByOrder(fills) == fills

Backfill ==
    /\ recon = "idle" /\ state \in {"open", "closing"} /\ Flat
    /\ state' = "closing"
    /\ \/ /\ got' = AggregateFillsByOrder(trades) /\ todo' = {o \in Orders : trades[o] > 0}
          /\ recon' = "backfill" /\ UNCHANGED missed
       \/ missed' = TRUE /\ recon' = "finalize" /\ todo' = {} /\ UNCHANGED got   \* fetchMyTrades failed
    /\ UNCHANGED <<trades, published, booked, funding, realized, exec, pick, snapshotVars>>

\* findByExchangeOrderId, then the insert: the executor may come in between, and
\* then the insert is refused, the handler throws and the next pass starts over.
FindOrder ==
    /\ recon = "backfill"
    /\ \/ todo = {} /\ recon' = "finalize" /\ UNCHANGED <<todo, pick>>
       \/ \E o \in todo :
             IF booked[o] = 0 THEN recon' = "insert" /\ pick' = o /\ UNCHANGED todo
                              ELSE todo' = todo \ {o} /\ UNCHANGED <<recon, pick>>
    /\ UNCHANGED <<state, trades, published, booked, funding, realized, exec, got, missed, snapshotVars>>

InsertOrderGroup ==
    /\ recon = "insert" /\ pick' = None
    /\ booked' = Insert(pick, got[pick])
    /\ IF booked[pick] = 0 THEN todo' = todo \ {pick} /\ recon' = "backfill"
                           ELSE todo' = {} /\ recon' = "idle"
    /\ UNCHANGED <<state, trades, published, funding, realized, exec, got, missed, snapshotVars>>

\* aggregatePnl: the rows of type reduce or close, and the funding rows.
AggregatePnlMutant == Partials + Cardinality(funding)

AggregatePnl == MapThenSumSet(LAMBDA o : booked[o], Orders) + Cardinality(funding)

\* finalizeRealizedPnl: the ledger is summed and written with the state.
FinalizeRealizedPnl ==
    /\ recon = "finalize" /\ state = "closing"
    /\ state' = "closed" /\ recon' = "idle"
    /\ realized' = IF \A o \in Orders : booked[o] = 0 THEN None
                   ELSE AggregatePnl
    /\ UNCHANGED <<trades, published, booked, funding, exec, todo, got, pick, missed, snapshotVars>>

-----------------------------------------------------------------------------
(* The account snapshot writer: one at a time; a scheduled one only in a    *)
(* minute that has none yet.                                               *)

others == <<state, trades, published, booked, funding, realized, exec, recon, todo, got, pick, missed>>

Write(kind) == writing = NoWrite /\ writing' = [kind |-> kind, at |-> now]

ScheduledTickMutant == Write("scheduled") /\ UNCHANGED <<now, lastMinute, snapshots, others>>

ScheduledTick ==
    /\ Write("scheduled") /\ now # lastMinute
    /\ UNCHANGED <<now, lastMinute, snapshots, others>>

WriteNow == Write("forced") /\ UNCHANGED <<now, lastMinute, snapshots, others>>

\* The row is saved, and the minute marked, under the time the write began at.
BuildAndPersist ==
    /\ writing # NoWrite /\ writing' = NoWrite /\ lastMinute' = writing.at
    /\ snapshots' = [snapshots EXCEPT ![writing.at] = IF writing.kind = "scheduled" THEN @ + 1 ELSE @]
    /\ UNCHANGED <<now, others>>

\* fetchBalance or a read threw: no row, and the minute is still free.
SnapshotFails == writing # NoWrite /\ writing' = NoWrite /\ UNCHANGED <<now, lastMinute, snapshots, others>>

Minute ==
    /\ now < MaxMinutes /\ now' = now + 1
    /\ UNCHANGED <<lastMinute, writing, snapshots, others>>

Next ==
    \/ \E o \in Orders : VenueFills(o) \/ ExecutorTold(o)
    \/ VenueFunding \/ ExecutorBooks \/ PollFunding \/ RecordFunding
    \/ Backfill \/ FindOrder \/ InsertOrderGroup \/ FinalizeRealizedPnl
    \/ ScheduledTick \/ WriteNow \/ BuildAndPersist \/ SnapshotFails \/ Minute

Spec == Init /\ [][Next]_vars

-----------------------------------------------------------------------------
(* Properties.                                                             *)

\* No closing order is booked for more, or less, than it filled, whoever of the
\* executor and the reconciler comes first.
FillsBookedOnce == \A o \in Orders : booked[o] \in {0, Partials}

\* A settlement is never skipped for good: below the newest booked funding there
\* is no unbooked one, although the next poll only asks for newer ones.
FundingHasNoHoles == \A t \in funding : \A s \in 1..t : s \in funding

\* A close finalized after the account history could be read says every closing
\* fill and every funding row booked by then.
RealizedComplete ==
    state = "closed" /\ ~missed
        => /\ realized # None
           /\ realized >= Partials * Cardinality(Orders)

\* The equity curve has at most one scheduled point a minute.
OneScheduledPerMinute == \A t \in 0..MaxMinutes : snapshots[t] <= 1
=============================================================================
