----------------------------- MODULE MarketFeed -----------------------------
(***************************************************************************)
(* Which symbols the engine hears prices of.  The universe is rebuilt from *)
(* 24h volume by an hourly refresh, the subscription retainer keeps a      *)
(* symbol in it while a position, a reconciliation, an adoption or a       *)
(* cooldown needs it, and the persistence listener writes the membership   *)
(* timeline.  A tick of a symbol that is not in the universe is dropped,   *)
(* so the local monitor and the statistics never see it.                   *)
(*                                                                         *)
(* The universe and the retainer live in memory: a restart starts them     *)
(* empty, refills the first from the ranking alone and the second from the *)
(* position rows.                                                          *)
(***************************************************************************)
EXTENDS Naturals, FiniteSets

CONSTANTS
    Symbols,
    Tiers,
    MaxSymbols,     \* UNIVERSE_MAX_SYMBOLS
    MaxRefreshes,
    MaxCrashes,
    None            \* not a member, no row

ConstantsOK ==
    /\ IsFiniteSet(Symbols) /\ IsFiniteSet(Tiers) /\ None \notin Tiers \cup Symbols
    /\ {MaxSymbols, MaxRefreshes, MaxCrashes} \subseteq Nat

VARIABLES
    entries,        \* universe: tier of each member
    reasons,        \* retainer: reason set of each symbol
    row,            \* state of the symbol's position row
    adopted,        \* the row was, at some time, an adopted one
    loss,           \* its last close: "none", a "fresh" loss or an "expired" one
    sweep,          \* the cooldown sweep: the symbol whose last close it has judged expired
    member,         \* database: tier of the open membership row
    boot,           \* "up", "down", "seeded" (universe rebuilt, retainer not yet)
    refreshes, crashes,
    lost            \* ghost: a membership write failed and was swallowed

vars == <<entries, reasons, row, adopted, loss, sweep, member, boot, refreshes, crashes, lost>>

Rows == {"none", "pending_open", "open", "closing", "reconciling", "manual_adopted_unmanaged"}
Reasons == {"OPEN_POSITION", "PENDING_RECONCILE", "FOREIGN_ADOPTED", "COOLDOWN_ACTIVE"}

TypeOK ==
    /\ entries \in [Symbols -> Tiers \cup {None}] /\ member \in [Symbols -> Tiers \cup {None}]
    /\ reasons \in [Symbols -> SUBSET Reasons] /\ row \in [Symbols -> Rows]
    /\ adopted \in [Symbols -> BOOLEAN] /\ loss \in [Symbols -> {"none", "fresh", "expired"}]
    /\ sweep \in Symbols \cup {None} /\ boot \in {"up", "down", "seeded"}
    /\ refreshes \in 0..MaxRefreshes /\ crashes \in 0..MaxCrashes /\ lost \in BOOLEAN

Init ==
    /\ entries = [s \in Symbols |-> None] /\ member = [s \in Symbols |-> None]
    /\ reasons = [s \in Symbols |-> {}] /\ row = [s \in Symbols |-> "none"]
    /\ adopted = [s \in Symbols |-> FALSE] /\ loss = [s \in Symbols |-> "none"]
    /\ sweep = None /\ boot = "down" /\ refreshes = 0 /\ crashes = 0 /\ lost = FALSE

-----------------------------------------------------------------------------
(* The universe.                                                           *)

\* rankByVolume: any assignment of tiers to at most MaxSymbols symbols.
Rankings == {r \in [Symbols -> Tiers \cup {None}] : Cardinality({s \in Symbols : r[s] # None}) <= MaxSymbols}

IsRetained(s) == reasons[s] # {}

\* emitLeavers, then applyRanked: a retained member that is no longer ranked keeps
\* its entry; a symbol that was no member gets none by being retained.
RankedMutant(r) == r

Ranked(r) == [s \in Symbols |-> IF r[s] = None /\ IsRetained(s) THEN entries[s] ELSE r[s]]

\* onSymbolEntered, onSymbolLeft, onSymbolTierChanged; an open row is not opened twice.
MembershipMutant(s, next) == IF next = None THEN None ELSE IF member[s] # None THEN member[s] ELSE next

Membership(s, next) ==
    CASE entries[s] = None /\ next # None -> IF member[s] # None THEN member[s] ELSE next
      [] entries[s] # None /\ next = None -> None
      [] entries[s] # next                -> next
      [] OTHER                            -> member[s]

\* refresh: the writes are swallowed when they fail.
Refresh(r) ==
    /\ entries' = Ranked(r)
    /\ \/ member' = [s \in Symbols |-> Membership(s, entries'[s])] /\ UNCHANGED lost
       \/ /\ \E s \in Symbols : Membership(s, entries'[s]) # member[s]
          /\ lost' = TRUE /\ UNCHANGED member

ScheduledRefresh(r) ==
    /\ boot = "up" /\ refreshes < MaxRefreshes /\ refreshes' = refreshes + 1
    /\ Refresh(r)
    /\ UNCHANGED <<reasons, row, adopted, loss, sweep, boot, crashes>>

\* onApplicationBootstrap of the market data service.
OnApplicationBootstrap(r) ==
    /\ boot = "down" /\ boot' = "seeded"
    /\ Refresh(r)
    /\ UNCHANGED <<reasons, row, adopted, loss, sweep, refreshes, crashes>>

RetainReasonForState(state) ==
    CASE state \in {"pending_open", "open", "closing"} -> {"OPEN_POSITION"}
      [] state = "reconciling"                         -> {"PENDING_RECONCILE"}
      [] state = "manual_adopted_unmanaged"            -> {"FOREIGN_ADOPTED"}
      [] OTHER                                         -> {}

\* Cooldowns are not rebuilt.
Phase5RebuildRetainer ==
    /\ boot = "seeded" /\ boot' = "up"
    /\ reasons' = [s \in Symbols |-> reasons[s] \cup RetainReasonForState(row[s])]
    /\ UNCHANGED <<entries, row, adopted, loss, sweep, member, refreshes, crashes, lost>>

Crash ==
    /\ boot = "up" /\ crashes < MaxCrashes /\ crashes' = crashes + 1 /\ boot' = "down"
    /\ entries' = [s \in Symbols |-> None] /\ reasons' = [s \in Symbols |-> {}] /\ sweep' = None
    /\ UNCHANGED <<row, adopted, loss, member, refreshes, lost>>

-----------------------------------------------------------------------------
(* Position rows and the retention listener.                               *)

\* A row is inserted without a transition event: an entry only where there are
\* prices, an adoption wherever the exchange shows a position.
InsertRow(s) ==
    /\ boot = "up" /\ row[s] = "none"
    /\ \/ entries[s] # None /\ row' = [row EXCEPT ![s] = "pending_open"] /\ adopted' = [adopted EXCEPT ![s] = FALSE]
       \/ row' = [row EXCEPT ![s] = "manual_adopted_unmanaged"] /\ adopted' = [adopted EXCEPT ![s] = TRUE]
    /\ UNCHANGED <<entries, reasons, loss, sweep, member, boot, refreshes, crashes, lost>>

LegalTransitions ==
    {<<"pending_open", "open">>, <<"pending_open", "reconciling">>, <<"open", "closing">>,
     <<"open", "reconciling">>, <<"closing", "open">>, <<"closing", "reconciling">>,
     <<"reconciling", "open">>, <<"reconciling", "manual_adopted_unmanaged">>,
     <<"manual_adopted_unmanaged", "open">>, <<"manual_adopted_unmanaged", "closing">>}

\* onStateTransitioned for a transition that does not close.
RetainedAfterMutant(s, from, to) ==
    (reasons[s] \ (IF from = "reconciling" THEN {"PENDING_RECONCILE", "OPEN_POSITION"} ELSE {}))
        \cup RetainReasonForState(to)

RetainedAfter(s, from, to) ==
    ((reasons[s] \cup (IF to = "open" THEN {"OPEN_POSITION"} ELSE {})
                 \cup (IF to = "reconciling" THEN {"PENDING_RECONCILE"} ELSE {})
                 \cup (IF to = "manual_adopted_unmanaged" THEN {"FOREIGN_ADOPTED"} ELSE {}))
        \ (IF from = "reconciling" THEN {"PENDING_RECONCILE"} ELSE {}))
        \ (IF from = "manual_adopted_unmanaged" THEN {"FOREIGN_ADOPTED"} ELSE {})

Transition(s) ==
    /\ boot = "up"
    /\ \E t \in LegalTransitions :
          /\ row[s] = t[1] /\ row' = [row EXCEPT ![s] = t[2]]
          /\ reasons' = [reasons EXCEPT ![s] = RetainedAfter(s, t[1], t[2])]
          /\ adopted' = [adopted EXCEPT ![s] = @ \/ t[2] = "manual_adopted_unmanaged"]
    /\ UNCHANGED <<entries, loss, sweep, member, boot, refreshes, crashes, lost>>

\* retainCooldownIfLoss: a stop loss or liquidation arms the cooldown whatever its
\* PnL, a time stop or signal exit only with a negative one, the others never.
Closes(s, lossClass, negative) ==
    /\ boot = "up" /\ row[s] \in {"closing", "reconciling"}
    /\ row' = [row EXCEPT ![s] = "none"] /\ adopted' = [adopted EXCEPT ![s] = FALSE]
    /\ reasons' = [reasons EXCEPT ![s] =
          (@ \ {"OPEN_POSITION", "PENDING_RECONCILE", "FOREIGN_ADOPTED"})
              \cup (IF lossClass THEN {"COOLDOWN_ACTIVE"} ELSE {})]
    /\ loss' = [loss EXCEPT ![s] = IF negative THEN "fresh" ELSE "none"]
    /\ UNCHANGED <<entries, sweep, member, boot, refreshes, crashes, lost>>

CooldownElapses(s) ==
    /\ loss[s] = "fresh" /\ loss' = [loss EXCEPT ![s] = "expired"]
    /\ UNCHANGED <<entries, reasons, row, adopted, sweep, member, boot, refreshes, crashes, lost>>

\* releaseExpiredCooldownRetentions: the last close is read, and the reason
\* released when the answer is in.
IsCooldownStillActive(s) ==
    /\ boot = "up" /\ sweep = None /\ "COOLDOWN_ACTIVE" \in reasons[s] /\ loss[s] # "fresh"
    /\ sweep' = s
    /\ UNCHANGED <<entries, reasons, row, adopted, loss, member, boot, refreshes, crashes, lost>>

ReleaseExpiredCooldown ==
    /\ sweep # None /\ sweep' = None
    /\ reasons' = [reasons EXCEPT ![sweep] = @ \ {"COOLDOWN_ACTIVE"}]
    /\ UNCHANGED <<entries, row, adopted, loss, member, boot, refreshes, crashes, lost>>

Next ==
    \/ \E r \in Rankings : ScheduledRefresh(r) \/ OnApplicationBootstrap(r)
    \/ Phase5RebuildRetainer \/ Crash
    \/ \E s \in Symbols : \/ InsertRow(s) \/ Transition(s) \/ CooldownElapses(s) \/ IsCooldownStillActive(s)
                          \/ \E l, n \in BOOLEAN : Closes(s, l, n)
    \/ ReleaseExpiredCooldown

Spec == Init /\ [][Next]_vars

-----------------------------------------------------------------------------
(* Properties.                                                             *)

\* SubscriptionRetainer: "a coin leaving the top-300 universe must keep its price
\* subscription + SL/TP monitoring until its position closes".
HeldIsSubscribed == \A s \in Symbols : boot = "up" /\ row[s] = "open" /\ ~adopted[s] => entries[s] # None

KeepsHeld ==
    \A s \in Symbols :
        /\ boot = "up" /\ boot' = "up" /\ entries[s] # None
        /\ row[s] \in {"open", "reconciling"} \/ (row[s] = "closing" /\ ~adopted[s])
        => entries'[s] # None

\* What the refresh itself guarantees: it never evicts a symbol whose position is
\* open, under reconciliation, or closing after it was open.
HeldNotEvicted == [][KeepsHeld]_vars

\* A reason does not outlive what it stands for, so a symbol is not kept for good
\* by a row that has closed or left the state.
ReasonsHaveCause ==
    \A s \in Symbols :
        /\ "OPEN_POSITION" \in reasons[s] => row[s] # "none"
        /\ "PENDING_RECONCILE" \in reasons[s] => row[s] = "reconciling"
        /\ "FOREIGN_ADOPTED" \in reasons[s] => row[s] = "manual_adopted_unmanaged"

\* Without a restart or a failed write, the membership timeline has an open row
\* for exactly the members, with the tier they trade at.
MembershipMatches == crashes = 0 /\ ~lost => member = entries
=============================================================================
