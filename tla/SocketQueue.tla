---------------------------- MODULE SocketQueue ----------------------------
(***************************************************************************)
(* What the live gateway keeps per socket to spare a slow client: the      *)
(* outbound counter with its lag notice and its disconnects                *)
(* (PerSocketQueue), and the throttle of the account's profit-and-loss     *)
(* ticks (PnlThrottle).  The callers are any: the gateway of this commit   *)
(* flushes every message as it is enqueued and offers no ticks.            *)
(***************************************************************************)
EXTENDS Naturals

CONSTANTS
    SoftCap, HardCap,   \* WS_QUEUE_SOFT_CAP, WS_QUEUE_HARD_CAP
    FullMs,             \* WS_QUEUE_FULL_DISCONNECT_MS
    ThrottleMs,         \* WS_PNL_THROTTLE_MS
    MaxTime, MaxTicks,  \* bounds
    None

ConstantsOK ==
    /\ {SoftCap, HardCap, FullMs, ThrottleMs, MaxTime, MaxTicks} \subseteq Nat
    /\ 0 < SoftCap /\ SoftCap < HardCap /\ ThrottleMs > 0 /\ None \notin Nat

VARIABLES
    now,
    depth, fullSince, noticedAt,    \* PerSocketQueue
    gone,                           \* it disconnected the socket
    notices, lastDrop,              \* ghosts: notices in this queue-full window, the last message skipped
    lastEmitted, pending, timer,    \* PnlThrottle: ticks are 1, 2, ..., the timer is the time it is due
    offered, shown,                 \* ghosts: the newest tick offered and the newest emitted
    gap                             \* ghost: the shortest time between two emissions

queue == <<depth, fullSince, noticedAt, gone, notices, lastDrop>>
throttle == <<lastEmitted, pending, timer, offered, shown, gap>>
vars == <<now, queue, throttle>>

Times == 0..MaxTime

TypeOK ==
    /\ now \in Times /\ depth \in 0..HardCap /\ {fullSince, noticedAt, lastDrop, lastEmitted} \subseteq Times \cup {None}
    /\ gone \in BOOLEAN /\ notices \in Nat /\ timer \in 0..(MaxTime + ThrottleMs) \cup {None}
    /\ pending \in 1..MaxTicks \cup {None} /\ {offered, shown} \subseteq 0..MaxTicks /\ gap \in 0..(MaxTime + 1)

Init ==
    /\ now = 0 /\ depth = 0 /\ fullSince = None /\ noticedAt = None /\ gone = FALSE /\ notices = 0 /\ lastDrop = None
    /\ lastEmitted = None /\ pending = None /\ timer = None /\ offered = 0 /\ shown = 0 /\ gap = MaxTime + 1

-----------------------------------------------------------------------------
(* The queue.                                                              *)

\* beginQueueFullIfNeeded: the start of the window, kept while it lasts.
BeginQueueFull == IF fullSince = None THEN now ELSE fullSince

\* maybeEmitLagged: not when a notice was sent since the window began.
NoticeOwedMutant(since) == noticedAt = None \/ noticedAt <= since

NoticeOwed(since) == noticedAt = None \/ noticedAt < since

QueueFullDurationExceededMutant(since) == now - since > FullMs

QueueFullDurationExceeded(since) == now - since >= FullMs

\* tryEnqueue above the soft cap: the message is skipped, and the client told once.
Skip ==
    /\ fullSince' = BeginQueueFull /\ lastDrop' = now
    /\ IF NoticeOwed(fullSince')
       THEN noticedAt' = now /\ notices' = notices + 1
       ELSE UNCHANGED <<noticedAt, notices>>
    /\ gone' = QueueFullDurationExceeded(fullSince')
    /\ UNCHANGED depth

Enqueue ==
    /\ depth' = depth + 1 /\ fullSince' = None /\ notices' = 0
    /\ UNCHANGED <<noticedAt, gone, lastDrop>>

\* The hard cap lies above a depth that enqueuing ever reaches.
TryEnqueue ==
    /\ ~gone /\ UNCHANGED <<now, throttle>>
    /\ IF depth >= HardCap THEN gone' = TRUE /\ UNCHANGED <<depth, fullSince, noticedAt, notices, lastDrop>>
       ELSE IF depth >= SoftCap THEN Skip ELSE Enqueue

\* The window ends with the first message flushed.
MarkFlushed ==
    /\ ~gone /\ depth > 0 /\ depth' = depth - 1
    /\ IF depth' < SoftCap
       THEN fullSince' = None /\ noticedAt' = None /\ notices' = 0 /\ lastDrop' = None
       ELSE UNCHANGED <<fullSince, noticedAt, notices, lastDrop>>
    /\ UNCHANGED <<now, gone, throttle>>

-----------------------------------------------------------------------------
(* The throttle.                                                           *)

Emit(tick) ==
    /\ lastEmitted' = now /\ pending' = None /\ shown' = tick
    /\ gap' = IF lastEmitted # None /\ now - lastEmitted < gap THEN now - lastEmitted ELSE gap

\* offer: at once outside the window, else kept for the timer, the newest wins.
Offer ==
    /\ offered < MaxTicks /\ offered' = offered + 1
    /\ IF lastEmitted = None \/ now - lastEmitted >= ThrottleMs
       THEN Emit(offered') /\ UNCHANGED timer
       ELSE /\ pending' = offered' /\ UNCHANGED <<lastEmitted, shown, gap>>
            /\ timer' = IF timer = None THEN lastEmitted + ThrottleMs ELSE timer
    /\ UNCHANGED <<now, queue>>

\* A spent handle, which never fires again.
AfterTimerMutant == MaxTime + ThrottleMs

\* The timer is forgotten as it fires, so that the next tick sets one again.
AfterTimer == None

TimerFires ==
    /\ timer # None /\ now >= timer /\ timer' = AfterTimer
    /\ IF pending # None THEN Emit(pending) ELSE UNCHANGED <<lastEmitted, pending, shown, gap>>
    /\ UNCHANGED <<now, queue, offered>>

\* cancel, on disconnect.
Cancel ==
    /\ gone /\ timer # None /\ timer' = None /\ pending' = None
    /\ UNCHANGED <<now, queue, lastEmitted, offered, shown, gap>>

Tick == now < MaxTime /\ now' = now + 1 /\ UNCHANGED <<queue, throttle>>

Next == TryEnqueue \/ MarkFlushed \/ Offer \/ TimerFires \/ Cancel \/ Tick

\* Time passes and due timers fire; nobody need enqueue or offer.
Spec == Init /\ [][Next]_vars /\ WF_vars(Tick) /\ WF_vars(TimerFires)

-----------------------------------------------------------------------------
(* Properties.                                                             *)

\* A queue-full window sends one lag notice, however many messages it skips and however long
\* it lasts; a notice is itself a message to a slow client (PerSocketQueue.maybeEmitLagged).
OneNoticePerWindow == notices <= 1

\* A client that is still full when a message is skipped FullMs after the window began is cut
\* off, although each message finds the window open already.
SlowClientCut == (fullSince # None /\ lastDrop # None /\ ~gone) => lastDrop - fullSince < FullMs

TickOwed == pending # None /\ lastEmitted + ThrottleMs <= MaxTime

\* The newest tick offered is shown in the end, unless the socket is gone or there is no time
\* left for its timer (PnlThrottle.offer).
NewestTickShown == TickOwed ~> ~TickOwed

\* Not so: a tick emitted at once leaves the old timer running, which emits the next tick
\* before the window has passed.
OneTickPerWindow == gap >= ThrottleMs

=============================================================================
