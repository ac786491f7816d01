------------------------------ MODULE LiveFeed ------------------------------
(***************************************************************************)
(* The live feed of one position to one dashboard: the engine's socket.io  *)
(* gateway (handshake, subscription, per-socket coalescing, the expiry     *)
(* sweeper) and the browser that merges its messages into the list of open *)
(* positions it also polls over REST.                                      *)
(*                                                                         *)
(* A connection is a number, a token is the time at which it expires, and  *)
(* the list is the state the one position is shown in ("none": not in it). *)
(* Socket.io delivers the messages of a connection in order, and a message *)
(* is merged when it is emitted: what a delay on the wire would let pass   *)
(* first can as well pass before the handler that emits it resumes.        *)
(***************************************************************************)
EXTENDS Naturals

CONSTANTS
    MaxConns,       \* connections the browser opens
    Ttl,            \* life of a token
    MaxMoves,       \* state changes of the position in one behaviour
    MaxTime

ConstantsOK == {MaxConns, Ttl, MaxMoves, MaxTime} \subseteq Nat /\ Ttl > 0

VARIABLES
    row,            \* state of the position in the database
    moves,          \* state changes so far
    work,           \* the gateway's event handlers: not yet called, awaiting the row, or the row they read
    conn,           \* a connection at the gateway: "none", "up" or "dead"
    token,          \* the token it was opened with
    stage,          \* its handshake: "none", "checking", "refusing", "done"
    subject,        \* data.subject is set
    runtime,        \* it has an entry in runtimes
    rooms,          \* that entry is in the POSITIONS room
    asked,          \* its subscribe: "no", "sent", "joining", "answered"
    pending,        \* the coalescer's scheduled update, or "none"
    session,        \* the browser's token, 0 when logged out
    sock,           \* the browser's connection, 0 when it has none
    parked,         \* the engine closed the connection: socket.io does not reconnect
    shown,          \* what the list of open positions shows
    fetch,          \* the REST read: "no", "asked", or the answer
    focused,        \* the tab stays in the foreground: React Query polls
    now,
    revoked         \* tokens in revoked_jti

gateway == <<conn, token, stage, subject, runtime, rooms, asked, pending>>
browser == <<session, sock, parked, shown, fetch, focused>>
vars == <<row, moves, work, gateway, browser, now, revoked>>

Conns == 1..MaxConns
Handlers == {"opened", "updatedOpen", "updatedClosing", "updatedClosed", "closed"}
RowStates == {"none", "open", "closing", "closed"}
Tokens == Ttl..(MaxTime + Ttl)

TypeOK ==
    /\ row \in RowStates /\ moves \in 0..MaxMoves /\ work \in [Handlers -> {"idle", "reading", "done"} \cup RowStates]
    /\ conn \in [Conns -> {"none", "up", "dead"}] /\ token \in [Conns -> Tokens \cup {0}]
    /\ stage \in [Conns -> {"none", "checking", "refusing", "done"}]
    /\ {subject, runtime, rooms} \subseteq [Conns -> BOOLEAN]
    /\ asked \in [Conns -> {"no", "sent", "joining", "answered"}] /\ pending \in [Conns -> RowStates]
    /\ session \in Tokens \cup {0} /\ sock \in 0..MaxConns /\ {parked, focused} \subseteq BOOLEAN
    /\ shown \in RowStates /\ fetch \in {"no", "asked"} \cup RowStates
    /\ now \in 0..MaxTime /\ revoked \subseteq Tokens

Init ==
    /\ row \in {"none", "open"} /\ moves = 0 /\ work = [h \in Handlers |-> "idle"]
    /\ conn = [c \in Conns |-> "none"] /\ token = [c \in Conns |-> 0] /\ stage = [c \in Conns |-> "none"]
    /\ subject = [c \in Conns |-> FALSE] /\ runtime = subject /\ rooms = subject
    /\ asked = [c \in Conns |-> "no"] /\ pending = [c \in Conns |-> "none"]
    /\ session = 0 /\ sock = 0 /\ parked = FALSE /\ shown = "none" /\ fetch = "no" /\ focused \in BOOLEAN
    /\ now = 0 /\ revoked = {}

-----------------------------------------------------------------------------
(* The engine moves the position and tells the gateway's handlers.         *)

Called(hs) == work' = [h \in Handlers |-> IF h \in hs THEN "reading" ELSE work[h]]

RowMoves ==
    /\ moves < MaxMoves /\ moves' = moves + 1
    /\ \/ row = "none" /\ row' = "open" /\ Called({"updatedOpen", "opened"})
       \/ row = "open" /\ row' = "closing" /\ Called({"updatedClosing"})
       \/ row = "closing" /\ row' = "closed" /\ Called({"updatedClosed", "closed"})
    /\ UNCHANGED <<gateway, browser, now, revoked>>

\* findById answers: the handler holds the row as it was then (of the close only the id is sent on).
FindById(h) ==
    /\ h # "closed" /\ work[h] = "reading" /\ work' = [work EXCEPT ![h] = row]
    /\ UNCHANGED <<row, moves, gateway, browser, now, revoked>>

\* upsertOpenPosition and dropPositionById, on a message sent to the sockets cs.
Merged(cs, view) == shown' = IF sock \in cs THEN view ELSE shown

\* broadcastToRoom: tryEnqueue, emit and markFlushed in one step, so the queue never fills.
BroadcastToRoom(view) == Merged({c \in Conns : conn[c] = "up" /\ rooms[c]}, view)

OnPositionOpened ==
    /\ work["opened"] \in RowStates /\ work' = [work EXCEPT !["opened"] = "done"]
    /\ BroadcastToRoom(work["opened"])
    /\ UNCHANGED <<row, moves, gateway, session, sock, parked, fetch, focused, now, revoked>>

OnPositionClosed ==
    /\ work["closed"] = "reading" /\ work' = [work EXCEPT !["closed"] = "done"]
    /\ BroadcastToRoom("none")
    /\ UNCHANGED <<row, moves, gateway, session, sock, parked, fetch, focused, now, revoked>>

\* Every runtime in the room is offered the view; the latest offer wins, the timer stays.
OnPositionTransitioned(h) ==
    /\ h \in {"updatedOpen", "updatedClosing", "updatedClosed"} /\ work[h] \in RowStates
    /\ work' = [work EXCEPT ![h] = "done"]
    /\ pending' = [c \in Conns |-> IF rooms[c] THEN work[h] ELSE pending[c]]
    /\ UNCHANGED <<row, moves, conn, token, stage, subject, runtime, rooms, asked, browser, now, revoked>>

CoalescerFires(c) ==
    /\ pending[c] # "none" /\ pending' = [pending EXCEPT ![c] = "none"]
    /\ Merged({c} \cap {d \in Conns : conn[d] = "up"}, pending[c])
    /\ UNCHANGED <<row, moves, work, conn, token, stage, subject, runtime, rooms, asked,
                   session, sock, parked, fetch, focused, now, revoked>>

-----------------------------------------------------------------------------
(* Connections.  The browser subscribes as soon as socket.io says connect, *)
(* which is before the gateway has verified the token.                     *)

Connect ==
    /\ session # 0 /\ sock = 0 /\ ~parked
    /\ \E c \in Conns :
          /\ conn[c] = "none" /\ \A d \in 1..(c - 1) : conn[d] # "none"
          /\ conn' = [conn EXCEPT ![c] = "up"] /\ token' = [token EXCEPT ![c] = session]
          /\ stage' = [stage EXCEPT ![c] = IF session <= now THEN "refusing" ELSE "checking"]
          /\ asked' = [asked EXCEPT ![c] = "sent"] /\ sock' = c
    /\ fetch' = "asked"
    /\ UNCHANGED <<row, moves, work, subject, runtime, rooms, pending, session, parked, shown, focused, now, revoked>>

SessionEnds == session' = 0 /\ sock' = 0 /\ fetch' = "no" /\ parked' = FALSE

\* What the gateway's side of a closed connection comes to: handleDisconnect.
HandleDisconnect(cs) ==
    /\ conn' = [c \in Conns |-> IF c \in cs THEN "dead" ELSE conn[c]]
    /\ runtime' = [c \in Conns |-> runtime[c] /\ c \notin cs]
    /\ rooms' = [c \in Conns |-> rooms[c] /\ c \notin cs]
    /\ pending' = [c \in Conns |-> IF c \in cs /\ runtime[c] THEN "none" ELSE pending[c]]

VerifyHandshake(c) == stage[c] # "refusing" /\ token[c] \notin revoked

\* isRevoked answers.  The runtime is set whether or not the socket is still there.
HandleConnection(c) ==
    /\ stage[c] \in {"checking", "refusing"} /\ stage' = [stage EXCEPT ![c] = "done"]
    /\ IF ~VerifyHandshake(c)
       THEN /\ HandleDisconnect({c} \cap {d \in Conns : conn[d] = "up"})
            /\ IF sock = c THEN sock' = 0 /\ parked' = TRUE ELSE UNCHANGED <<sock, parked>>
            /\ UNCHANGED subject
       ELSE /\ subject' = [subject EXCEPT ![c] = TRUE] /\ runtime' = [runtime EXCEPT ![c] = TRUE]
            /\ UNCHANGED <<conn, rooms, pending, sock, parked>>
    /\ UNCHANGED <<row, moves, work, token, asked, session, shown, fetch, focused, now, revoked>>

AuthenticatedMutant(c) == TRUE

Authenticated(c) == subject[c]

\* onSubscribe up to the join; a refusal goes to an acknowledgement nobody reads.
OnSubscribe(c) ==
    /\ conn[c] = "up" /\ asked[c] = "sent"
    /\ asked' = [asked EXCEPT ![c] = IF Authenticated(c) THEN "joining" ELSE "answered"]
    /\ UNCHANGED <<row, moves, work, conn, token, stage, subject, runtime, rooms, pending, browser, now, revoked>>

Joined(c) ==
    /\ asked[c] = "joining" /\ asked' = [asked EXCEPT ![c] = "answered"]
    /\ rooms' = [rooms EXCEPT ![c] = @ \/ runtime[c]]
    /\ UNCHANGED <<row, moves, work, conn, token, stage, subject, runtime, pending, browser, now, revoked>>

Expired(c) == token[c] <= now

KickedMutant == {c \in Conns : conn[c] = "up" /\ rooms[c] /\ Expired(c)}

\* The sockets one sweep kicks.
Kicked == {c \in Conns : conn[c] = "up" /\ subject[c] /\ Expired(c)}

\* The browser told auth.expired ends its session.
SweepOnce ==
    /\ Kicked # {} /\ HandleDisconnect(Kicked)
    /\ IF sock \in Kicked THEN SessionEnds ELSE UNCHANGED <<session, sock, parked, fetch>>
    /\ UNCHANGED <<row, moves, work, token, stage, subject, asked, shown, focused, now, revoked>>

\* The network drops the connection, messages under way included.
Drops(c) ==
    /\ conn[c] = "up" /\ HandleDisconnect({c})
    /\ sock' = IF sock = c THEN 0 ELSE sock
    /\ UNCHANGED <<row, moves, work, token, stage, subject, asked, session, parked, shown, fetch, focused, now, revoked>>

-----------------------------------------------------------------------------
(* The browser.                                                            *)

\* A session that ends closes its socket and unmounts the views.
EndSession ==
    /\ SessionEnds
    /\ HandleDisconnect({c \in Conns : c = sock /\ conn[c] = "up"})

Login ==
    /\ session = 0 /\ (\E c \in Conns : conn[c] = "none") /\ session' = now + Ttl
    /\ now + Ttl \notin {token[c] : c \in Conns} \cup revoked
    /\ UNCHANGED <<row, moves, work, gateway, sock, parked, shown, fetch, focused, now, revoked>>

Logout ==
    /\ session # 0 /\ EndSession
    /\ UNCHANGED <<row, moves, work, token, stage, subject, asked, shown, focused, now, revoked>>

PollsMutant == session # 0 /\ focused /\ fetch = "no" /\ sock = 0

\* refetchInterval of usePositionsOpen.
Polls == session # 0 /\ focused /\ fetch = "no"

Poll ==
    /\ Polls /\ fetch' = "asked"
    /\ UNCHANGED <<row, moves, work, gateway, session, sock, parked, shown, focused, now, revoked>>

TokenGoodMutant == session > now \/ sock = 0

\* The engine's guard on a REST read.
TokenGood == session > now /\ session \notin revoked

\* The engine answers: the open rows, or a 401 that ends the session.
Answer ==
    /\ fetch = "asked"
    /\ IF TokenGood
       THEN /\ fetch' = IF row = "closed" THEN "none" ELSE row
            /\ UNCHANGED <<gateway, session, sock, parked>>
       ELSE EndSession /\ UNCHANGED <<token, stage, subject, asked>>
    /\ UNCHANGED <<row, moves, work, shown, focused, now, revoked>>

Applied ==
    /\ fetch \in RowStates /\ shown' = fetch /\ fetch' = "no"
    /\ UNCHANGED <<row, moves, work, gateway, session, sock, parked, focused, now, revoked>>

Revoke ==
    /\ session # 0 /\ revoked = {} /\ revoked' = {session}
    /\ UNCHANGED <<row, moves, work, gateway, browser, now>>

Tick == now < MaxTime /\ now' = now + 1 /\ UNCHANGED <<row, moves, work, gateway, browser, revoked>>

Engine ==
    \/ OnPositionOpened \/ OnPositionClosed \/ SweepOnce
    \/ \E h \in Handlers : FindById(h) \/ OnPositionTransitioned(h)
    \/ \E c \in Conns : CoalescerFires(c) \/ HandleConnection(c) \/ OnSubscribe(c) \/ Joined(c)

Next ==
    \/ RowMoves \/ Engine \/ Connect \/ \E c \in Conns : Drops(c)
    \/ Login \/ Logout \/ Poll \/ Answer \/ Applied \/ Revoke \/ Tick

\* The engine's loop turns, REST reads are answered; rows, users,
\* logins and the foreground are not owed.
Spec ==
    /\ Init /\ [][Next]_vars
    /\ WF_vars(Engine) /\ WF_vars(Poll) /\ WF_vars(Answer) /\ WF_vars(Applied)
    /\ WF_vars(SweepOnce) /\ \A c \in Conns : WF_vars(CoalescerFires(c))

-----------------------------------------------------------------------------
(* Properties.                                                             *)

\* A room is never left holding a socket that is gone, although a handshake or a
\* join may come to its end after the socket has: such a runtime would be offered
\* updates for ever.
DeadHoldNoRoom == \A c \in Conns : rooms[c] => conn[c] = "up"

Outlived(c) == conn[c] = "up" /\ stage[c] = "done" /\ Expired(c)

\* A socket whose token expires is closed, whatever the browser does, and also when
\* the token expired while the handshake was being checked (sweepOnce).
ExpiredKicked == \A c \in Conns : Outlived(c) ~> conn[c] = "dead"

Foreground == session # 0 /\ focused

ShownAsIs == shown = IF row = "closed" THEN "none" ELSE row

\* While the tab stays in the foreground of one session, the list comes to show the row as it
\* is, whatever stale update or stale REST answer was merged into it on the way.
ListConverges == <>[]Foreground => <>[]ShownAsIs

BadSession == Foreground /\ (session <= now \/ session \in revoked)

\* A session whose token expired or was revoked does not outlive the next REST reads of a
\* foreground tab, with or without a socket.
BadSessionEnds == BadSession ~> session = 0

\* Not so: the browser subscribes when socket.io connects, which may be before the token has
\* been verified; the refusal is not read and not retried, and the connection stays silent.
ConnectedIsSubscribed ==
    \A c \in Conns : (conn[c] = "up" /\ subject[c] /\ asked[c] = "answered") => rooms[c]

\* Not so: the update that goes with the close waits in the coalescer, and puts the closed
\* position back into the list of open ones after position.closed has dropped it.
ClosedIsNotShown == shown # "closed"

=============================================================================
