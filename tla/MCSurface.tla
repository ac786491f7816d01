----------------------------- MODULE MCSurface ------------------------------
(***************************************************************************)
(* Small instances of what the engine shows and to whom, with their        *)
(* fairness: the live feed of a position to a browser, the per-socket      *)
(* queue and throttle, the weekly agent with its tool server, and the      *)
(* bearer tokens. They share no state: a behaviour is one component's,     *)
(* which one is chosen at the start, and the variables of the others stay  *)
(* off.                                                                    *)
(***************************************************************************)
EXTENDS Integers

CONSTANTS
    Parts, None,
    MaxConns, FeedTtl, MaxMoves, FeedTime,                      \* of the live feed
    SoftCap, QueueCap, FullMs, ThrottleMs, QueueTime, MaxTicks, \* of the per-socket queue
    Agents, Parents, Lookback, PerformanceCap, DecisionsCap, BacktestCap, Midnight,
    MaxLaunches, MaxCrashes, MaxChildren,                       \* of the weekly agent
    Jtis, TokenTtl, Margin, PruneAfter, MaxLookup, TokenTime, MaxRevokes    \* of the tokens

VARIABLES part, row, moves, work, conn, token, stage, subject, runtime, rooms, asked, pending,
                session, sock, parked, shown, fetch, focused, now, revoked, depth, fullSince,
                noticedAt, gone, notices, lastDrop, lastEmitted, timer, offered, gap, pc, parent,
                dry, outcome, wall, lock, drafted, written, history, busy, child, awaited, killed,
                calls, launches, crashes, spawned, dead, wrong, revokes

LF == INSTANCE LiveFeed WITH Ttl <- FeedTtl, MaxTime <- FeedTime
SQ == INSTANCE SocketQueue WITH HardCap <- QueueCap, MaxTime <- QueueTime
WA == INSTANCE WeeklyAgent WITH HardCap <- [performance |-> PerformanceCap, decisions |-> DecisionsCap,
                                            backtest |-> BacktestCap]
TK == INSTANCE Tokens WITH Ttl <- TokenTtl, MaxTime <- TokenTime

ASSUME FeedAssumption == LF!ConstantsOK
ASSUME QueueAssumption == SQ!ConstantsOK
ASSUME AgentAssumption == WA!ConstantsOK
ASSUME TokenAssumption == TK!ConstantsOK

\* What each part alone uses.
feedOnly == <<moves, work, conn, subject, runtime, rooms, session, sock, parked, fetch, focused,
              revoked>>
queueOnly == <<depth, fullSince, noticedAt, gone, notices, lastDrop, lastEmitted, timer, offered,
               gap>>
agentOnly == <<pc, parent, dry, outcome, wall, lock, drafted, written, history, busy, child,
               awaited, killed, calls, launches, crashes, spawned>>
tokensOnly == <<dead, wrong, revokes>>

Off == "off"

Init ==
    /\ part \in Parts
    /\ IF part = "feed" THEN LF!Init ELSE moves = Off /\ work = Off /\ conn = Off /\ subject = Off /\
        runtime = Off /\ rooms = Off /\ session = Off /\ sock = Off /\ parked = Off /\ fetch = Off /\
        focused = Off /\ revoked = Off
    /\ IF part = "queue" THEN SQ!Init ELSE depth = Off /\ fullSince = Off /\ noticedAt = Off /\ gone = Off /\
        notices = Off /\ lastDrop = Off /\ lastEmitted = Off /\ timer = Off /\ offered = Off /\ gap = Off
    /\ IF part = "agent" THEN WA!Init ELSE pc = Off /\ parent = Off /\ dry = Off /\ outcome = Off /\
        wall = Off /\ lock = Off /\ drafted = Off /\ written = Off /\ history = Off /\ busy = Off /\
        child = Off /\ awaited = Off /\ killed = Off /\ calls = Off /\ launches = Off /\ crashes = Off /\
        spawned = Off
    /\ IF part = "tokens" THEN TK!Init ELSE dead = Off /\ wrong = Off /\ revokes = Off
    /\ part \notin {"feed", "tokens"} => row = Off /\ token = Off /\ asked = Off
    /\ part \notin {"feed", "agent"} => stage = Off
    /\ part \notin {"feed", "queue"} => pending = Off /\ shown = Off
    /\ part \notin {"feed", "queue", "tokens"} => now = Off

Next ==
    /\ IF part = "feed" THEN LF!Next ELSE UNCHANGED feedOnly
    /\ IF part = "queue" THEN SQ!Next ELSE UNCHANGED queueOnly
    /\ IF part = "agent" THEN WA!Next ELSE UNCHANGED agentOnly
    /\ IF part = "tokens" THEN TK!Next ELSE UNCHANGED tokensOnly
    /\ part \notin {"feed", "tokens"} => UNCHANGED <<row, token, asked>>
    /\ part \notin {"feed", "agent"} => UNCHANGED <<stage>>
    /\ part \notin {"feed", "queue"} => UNCHANGED <<pending, shown>>
    /\ part \notin {"feed", "queue", "tokens"} => UNCHANGED <<now>>
    /\ UNCHANGED part

vars == <<part, LF!vars, SQ!vars, WA!vars, TK!vars>>

\* A subscript per part: a part's step says nothing of the others' variables.
feedVars == LF!vars
queueVars == SQ!vars
agentVars == WA!vars
tokenVars == TK!vars

Fairness ==
    /\ WF_feedVars(part = "feed" /\ LF!Engine)
    /\ WF_feedVars(part = "feed" /\ LF!Poll)
    /\ WF_feedVars(part = "feed" /\ LF!Answer)
    /\ WF_feedVars(part = "feed" /\ LF!Applied)
    /\ WF_feedVars(part = "feed" /\ LF!SweepOnce)
    /\ \A c \in 1..MaxConns: WF_feedVars(part = "feed" /\ LF!CoalescerFires(c))
    /\ WF_queueVars(part = "queue" /\ SQ!Tick)
    /\ WF_queueVars(part = "queue" /\ SQ!TimerFires)
    /\ \A a \in Agents: WF_agentVars(part = "agent" /\ WA!LoopStep(a)) /\ WF_agentVars(part = "agent" /\ WA!WallclockTail(a))
    /\ \A c \in 1..MaxChildren: WF_agentVars(part = "agent" /\ WA!ChildCloses(c))
    /\ WF_tokenVars(part = "tokens" /\ TK!Tick)
    /\ WF_tokenVars(part = "tokens" /\ \E r \in asked: TK!Lookup(r))
    /\ WF_tokenVars(part = "tokens" /\ TK!RunOnce)

Spec == Init /\ [][Next]_vars /\ Fairness

-----------------------------------------------------------------------------
\* No room is left holding a dead socket (LiveGateway); a full queue is noticed once and its client
\* cut (PerSocketQueue); weekly runs never overlap, draft twice, complete without their report, ask
\* the models without end or run two engines (runWeeklyLoop, runBacktestOnce); a token revoked
\* before a request stays refused when the prune has forgotten it (RevokedJtiRepository).
SurfaceSound ==
    /\ part = "feed" => LF!DeadHoldNoRoom
    /\ part = "queue" => SQ!OneNoticePerWindow /\ SQ!SlowClientCut
    /\ part = "agent" => /\ WA!NoOverlap /\ WA!CompletedHasReport /\ WA!OneDraftPerWeek
                         /\ WA!ModelCallsBounded /\ WA!OneEngineChild
    /\ part = "tokens" => TK!RevokedRefused

\* A token's id; the ids are interchangeable.
OneJti == CHOOSE j \in Jtis: TRUE

\* An expired socket is kicked, the newest tick is shown, the backtest slot is given back, a
\* revocation leaves the table; a session with a bad
\* token ends in a foreground tab, and the list of a lasting session comes to show the row as it is.
SurfaceSettles ==
    /\ \/ part = "feed" /\ LF!Outlived(1)
       \/ part = "queue" /\ SQ!TickOwed
       \/ part = "agent" /\ busy
       \/ part = "tokens" /\ row[OneJti] # None
       ~> /\ part = "feed" => conn[1] = "dead"
          /\ part = "queue" => ~SQ!TickOwed
          /\ part = "agent" => ~busy
          /\ part = "tokens" => row[OneJti] = None
    /\ part = "feed" /\ LF!BadSession ~> (part = "feed" => session = 0)
    /\ <>[](part = "feed" /\ LF!Foreground) => <>[](part = "feed" => LF!ShownAsIs)
=============================================================================
