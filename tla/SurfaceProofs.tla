---------------------------- MODULE SurfaceProofs ---------------------------
(***************************************************************************)
(* Proofs about the components MCSurface gathers: the rooms of the live    *)
(* gateway, the lag notices and the cut of a slow client, the runs of the  *)
(* weekly agent with the tool server's child, and revoked tokens.          *)
(***************************************************************************)
EXTENDS MCSurface, FiniteSets, FiniteSetTheorems, TLAPS

-----------------------------------------------------------------------------
(* The live feed: rooms.                                                   *)

FeedTyped ==
    /\ conn \in [LF!Conns -> {"none", "up", "dead"}]
    /\ stage \in [LF!Conns -> {"none", "checking", "refusing", "done"}]
    /\ {subject, runtime, rooms} \subseteq [LF!Conns -> BOOLEAN]
    /\ asked \in [LF!Conns -> {"no", "sent", "joining", "answered"}]

\* The strengthening of DeadHoldNoRoom.  The runtime of a handshake that ends after its socket may
\* outlive it, but no join is under way for one: only a live socket that is verified joins.
FeedInv ==
    /\ FeedTyped
    /\ LF!DeadHoldNoRoom
    /\ \A c \in LF!Conns :
         /\ conn[c] = "none" => stage[c] = "none"
         /\ subject[c] => stage[c] = "done"
         /\ asked[c] = "joining" => subject[c] /\ (runtime[c] => conn[c] = "up")

LEMMA FeedInitial ==
    ASSUME LF!Init
    PROVE  FeedInv
BY DEF LF!Init, FeedInv, FeedTyped, LF!DeadHoldNoRoom

\* A step that touches none of what the rooms depend on.
LEMMA FeedQuiet ==
    ASSUME FeedInv, UNCHANGED <<conn, stage, subject, runtime, rooms, asked>>
    PROVE  FeedInv'
BY DEF FeedInv, FeedTyped, LF!DeadHoldNoRoom

\* Sockets that close leave their rooms with their runtimes.
LEMMA Disconnected ==
    ASSUME FeedInv, NEW cs, LF!HandleDisconnect(cs), UNCHANGED <<stage, subject, asked>>
    PROVE  FeedInv'
<1>1. /\ \A c \in LF!Conns : conn'[c] = IF c \in cs THEN "dead" ELSE conn[c]
      /\ \A c \in LF!Conns : runtime'[c] = (runtime[c] /\ c \notin cs)
      /\ \A c \in LF!Conns : rooms'[c] = (rooms[c] /\ c \notin cs)
  BY DEF LF!HandleDisconnect
<1>2. FeedTyped'
  BY DEF LF!HandleDisconnect, FeedInv, FeedTyped
<1> QED BY <1>1, <1>2 DEF FeedInv, FeedTyped, LF!DeadHoldNoRoom

LEMMA HandshakeEnds ==
    ASSUME FeedInv, NEW c \in LF!Conns, LF!HandleConnection(c)
    PROVE  FeedInv'
<1>1. /\ stage[c] \in {"checking", "refusing"} /\ stage' = [stage EXCEPT ![c] = "done"] /\ asked' = asked
      /\ ~subject[c] /\ asked[c] # "joining" /\ conn[c] # "none"
  BY DEF LF!HandleConnection, FeedInv
<1>2. CASE LF!VerifyHandshake(c)
  <2>1. /\ subject' = [subject EXCEPT ![c] = TRUE] /\ runtime' = [runtime EXCEPT ![c] = TRUE]
        /\ UNCHANGED <<conn, rooms>>
    BY <1>2 DEF LF!HandleConnection
  <2> QED BY <1>1, <2>1 DEF FeedInv, FeedTyped, LF!DeadHoldNoRoom
<1>3. CASE ~LF!VerifyHandshake(c)
  <2> DEFINE cs == {c} \cap {d \in LF!Conns : conn[d] = "up"}
  <2>1. LF!HandleDisconnect(cs) /\ subject' = subject
    BY <1>3 DEF LF!HandleConnection
  <2>2. /\ \A d \in LF!Conns : conn'[d] = IF d \in cs THEN "dead" ELSE conn[d]
        /\ \A d \in LF!Conns : runtime'[d] = (runtime[d] /\ d \notin cs)
        /\ \A d \in LF!Conns : rooms'[d] = (rooms[d] /\ d \notin cs)
    BY <2>1 DEF LF!HandleDisconnect
  <2>3. FeedTyped'
    BY <1>1, <2>1 DEF LF!HandleDisconnect, FeedInv, FeedTyped
  <2> QED BY <1>1, <2>1, <2>2, <2>3 DEF FeedInv, FeedTyped, LF!DeadHoldNoRoom
<1> QED BY <1>2, <1>3

\* Every step of engine and browser keeps it.
LEMMA FeedStep ==
    ASSUME FeedInv, LF!Next
    PROVE  FeedInv'
<1>1. ASSUME LF!RowMoves \/ LF!OnPositionOpened \/ LF!OnPositionClosed \/ LF!Login \/ LF!Poll
             \/ LF!Applied \/ LF!Revoke \/ LF!Tick
      PROVE  FeedInv'
  BY <1>1, FeedQuiet DEF LF!RowMoves, LF!OnPositionOpened, LF!OnPositionClosed, LF!Login, LF!Poll,
     LF!Applied, LF!Revoke, LF!Tick, LF!gateway
<1>2. ASSUME NEW h, LF!FindById(h) \/ LF!OnPositionTransitioned(h) PROVE FeedInv'
  BY <1>2, FeedQuiet DEF LF!FindById, LF!OnPositionTransitioned, LF!gateway
<1>3. ASSUME NEW c, LF!CoalescerFires(c) PROVE FeedInv'
  BY <1>3, FeedQuiet DEF LF!CoalescerFires
<1>4. ASSUME LF!SweepOnce PROVE FeedInv'
  BY <1>4, Disconnected DEF LF!SweepOnce
<1>5. ASSUME NEW c \in LF!Conns, LF!Drops(c) PROVE FeedInv'
  BY <1>5, Disconnected DEF LF!Drops
<1>6. ASSUME LF!Logout PROVE FeedInv'
  BY <1>6, Disconnected DEF LF!Logout, LF!EndSession
<1>7. ASSUME LF!Answer PROVE FeedInv'
  <2>1. CASE LF!TokenGood
    BY <1>7, <2>1, FeedQuiet DEF LF!Answer, LF!gateway
  <2>2. CASE ~LF!TokenGood
    BY <1>7, <2>2, Disconnected DEF LF!Answer, LF!EndSession
  <2> QED BY <2>1, <2>2
<1>8. ASSUME LF!Connect PROVE FeedInv'
  <2>1. PICK c \in LF!Conns :
          /\ conn[c] = "none" /\ conn' = [conn EXCEPT ![c] = "up"]
          /\ stage' = [stage EXCEPT ![c] = IF session <= now THEN "refusing" ELSE "checking"]
          /\ asked' = [asked EXCEPT ![c] = "sent"] /\ UNCHANGED <<subject, runtime, rooms>>
    BY <1>8 DEF LF!Connect
  <2> QED BY <2>1 DEF FeedInv, FeedTyped, LF!DeadHoldNoRoom
<1>9. ASSUME NEW c \in LF!Conns, LF!OnSubscribe(c) PROVE FeedInv'
  BY <1>9 DEF LF!OnSubscribe, LF!Authenticated, FeedInv, FeedTyped, LF!DeadHoldNoRoom
<1>10. ASSUME NEW c \in LF!Conns, LF!Joined(c) PROVE FeedInv'
  BY <1>10 DEF LF!Joined, FeedInv, FeedTyped, LF!DeadHoldNoRoom
<1> QED
  BY <1>1, <1>2, <1>3, <1>4, <1>5, <1>6, <1>7, <1>8, <1>9, <1>10, HandshakeEnds DEF LF!Next, LF!Engine

-----------------------------------------------------------------------------
(* The per-socket queue.                                                   *)

\* The strengthening of OneNoticePerWindow and SlowClientCut: the notice of a window was sent
\* since it began, and the window began before now.
QueueInv ==
    /\ now \in Nat /\ depth \in Nat /\ {fullSince, noticedAt, lastDrop} \subseteq Nat \cup {None}
    /\ fullSince # None => fullSince <= now
    /\ notices \in {0, 1}
    /\ notices = 1 => fullSince # None /\ noticedAt # None /\ fullSince <= noticedAt
    /\ SQ!SlowClientCut

LEMMA QueueInitial ==
    ASSUME SQ!Init
    PROVE  QueueInv
BY DEF SQ!Init, QueueInv, SQ!SlowClientCut

LEMMA QueueQuiet ==
    ASSUME QueueInv, UNCHANGED <<depth, fullSince, noticedAt, gone, notices, lastDrop>>,
           now' \in Nat, now' >= now
    PROVE  QueueInv'
BY DEF QueueInv, SQ!SlowClientCut

\* A message skipped: the window is the one that was open, or begins now.
LEMMA Skipped ==
    ASSUME QueueInv, SQ!Skip, ~gone, now' = now
    PROVE  QueueInv'
<1> DEFINE since == SQ!BeginQueueFull
<1>1. since \in Nat /\ since <= now /\ (fullSince # None => since = fullSince) /\ None \notin Nat
  BY QueueAssumption DEF SQ!BeginQueueFull, QueueInv, SQ!ConstantsOK
<1>2. /\ fullSince' = since /\ lastDrop' = now /\ depth' = depth
      /\ gone' = (now - since >= FullMs) /\ FullMs \in Nat
  BY QueueAssumption DEF SQ!Skip, SQ!QueueFullDurationExceeded, SQ!ConstantsOK
<1>3. IF noticedAt = None \/ noticedAt < since THEN noticedAt' = now /\ notices' = notices + 1
      ELSE UNCHANGED <<noticedAt, notices>>
  BY <1>2 DEF SQ!Skip, SQ!NoticeOwed
<1> HIDE DEF since
<1>4. SQ!SlowClientCut'
  <2>1. now \in Nat /\ (~(now - since >= FullMs) => now - since < FullMs)
    BY <1>1, <1>2 DEF QueueInv
  <2>2. ~gone' => ~(now - since >= FullMs)
    BY <1>2, Zenon
  <2> QED BY <1>2, <2>1, <2>2 DEF SQ!SlowClientCut
<1>5. notices' \in {0, 1} /\ noticedAt' \in Nat \cup {None}
      /\ (notices' = 1 => noticedAt' # None /\ since <= noticedAt')
  <2>1. CASE noticedAt = None \/ noticedAt < since
    <3>1. notices = 0
      BY <1>1, <2>1 DEF QueueInv
    <3> QED BY <1>1, <1>3, <2>1, <3>1 DEF QueueInv
  <2>2. CASE ~(noticedAt = None \/ noticedAt < since)
    BY <1>1, <1>3, <2>2 DEF QueueInv
  <2> QED BY <2>1, <2>2
<1> QED BY <1>1, <1>2, <1>4, <1>5 DEF QueueInv

LEMMA QueueStep ==
    ASSUME QueueInv, SQ!Next
    PROVE  QueueInv'
<1>0. None \notin Nat /\ {SoftCap, QueueCap} \subseteq Nat
  BY QueueAssumption DEF SQ!ConstantsOK
<1>1. ASSUME SQ!TryEnqueue PROVE QueueInv'
  <2>1. CASE depth >= QueueCap
    BY <1>1, <2>1 DEF SQ!TryEnqueue, QueueInv, SQ!SlowClientCut
  <2>2. CASE ~(depth >= QueueCap) /\ depth >= SoftCap
    BY <1>1, <2>2, Skipped DEF SQ!TryEnqueue
  <2>3. CASE ~(depth >= QueueCap) /\ ~(depth >= SoftCap)
    <3>1. SQ!Enqueue /\ now' = now
      BY <1>1, <2>3 DEF SQ!TryEnqueue
    <3> QED BY <1>0, <3>1 DEF SQ!Enqueue, QueueInv, SQ!SlowClientCut
  <2> QED BY <2>1, <2>2, <2>3
<1>2. ASSUME SQ!MarkFlushed PROVE QueueInv'
  BY <1>0, <1>2 DEF SQ!MarkFlushed, QueueInv, SQ!SlowClientCut
<1>3. ASSUME SQ!Offer \/ SQ!TimerFires \/ SQ!Cancel PROVE QueueInv'
  BY <1>3, QueueQuiet DEF SQ!Offer, SQ!TimerFires, SQ!Cancel, SQ!queue, QueueInv
<1>4. ASSUME SQ!Tick PROVE QueueInv'
  BY <1>4, QueueQuiet DEF SQ!Tick, SQ!queue, QueueInv
<1> QED BY <1>1, <1>2, <1>3, <1>4 DEF SQ!Next

-----------------------------------------------------------------------------
(* The weekly agent: the lock, the calls of the models, the report.        *)

ParentOfNone == CHOOSE p \in Parents : TRUE

AgentTyped ==
    /\ pc \in [Agents -> WA!Loop \cup {"off"}] /\ parent \in [Agents -> Parents] /\ dry \in [Agents -> BOOLEAN]
    /\ stage \in [Agents -> {0, 1} \X {0, 1}] /\ calls \in [Agents -> Nat]
    /\ outcome \in [Agents -> WA!Outcomes]
    /\ drafted \in [Parents -> Nat] /\ written \in [Parents -> SUBSET {"md", "json"}]

\* A run under way owns the lock.
Locked == \A a \in Agents : pc[a] # "off" => lock = a

\* Calls that can have led to this stage: each repair may have used up a fallback before it.
CallsBefore(s) == 2 * s[1] + s[2]

CallsCounted ==
    \A a \in Agents :
        /\ pc[a] \in {"off", "halt", "performance", "decisions"} => calls[a] = 0 /\ stage[a] = <<0, 0>>
        /\ pc[a] = "llm" => calls[a] <= CallsBefore(stage[a])
        /\ calls[a] <= 4

HasReport(p) == written[p] = {"md", "json"} /\ drafted[p] = 1

PastDraft == {"active", "wait active", "shadow", "wait shadow", "md", "json"}

Rows == [terminal : WA!Outcomes, parent : Parents, draft : BOOLEAN]

\* The strengthening of CompletedHasReport: a run past its draft is not dry and its parent has
\* one, a run past the markdown has that too, and a run that says it completed has all.
ReportsBacked ==
    /\ WA!OneDraftPerWeek
    /\ \A a \in Agents :
         /\ pc[a] = "off" => outcome[a] = "none"
         /\ pc[a] \in PastDraft => drafted[parent[a]] = 1
         /\ pc[a] = "json" => "md" \in written[parent[a]]
         /\ outcome[a] = "completed" /\ ~dry[a] => HasReport(parent[a])
    /\ history # None => history \in Rows
    /\ history # None /\ history.terminal = "completed" => HasReport(history.parent)

\* The one engine process holds the semaphore.
OneChild == (child # {} => busy) /\ \A c, d \in child : c = d

AgentInv == AgentTyped /\ Locked /\ CallsCounted /\ ReportsBacked /\ OneChild

LEMMA AgentInitial ==
    ASSUME WA!Init
    PROVE  AgentInv
<1>1. ParentOfNone \in Parents
  BY AgentAssumption DEF ParentOfNone, WA!ConstantsOK
<1>2. AgentTyped
  BY <1>1 DEF WA!Init, AgentTyped, ParentOfNone, WA!Outcomes
<1> QED
  BY <1>2 DEF WA!Init, AgentInv, Locked, CallsCounted, ReportsBacked, OneChild, WA!OneDraftPerWeek, PastDraft

LEMMA AgentQuiet ==
    ASSUME AgentInv,
           UNCHANGED <<pc, parent, dry, stage, calls, outcome, lock, drafted, written, history, busy, child>>
    PROVE  AgentInv'
BY DEF AgentInv, AgentTyped, Locked, CallsCounted, CallsBefore, ReportsBacked, HasReport, OneChild,
   WA!OneDraftPerWeek

\* A run's step in the loop: nothing of another run moves.
RunMoves(a) ==
    /\ pc[a] # "off"
    /\ pc' \in [Agents -> WA!Loop \cup {"off"}] /\ outcome' \in [Agents -> WA!Outcomes]
    /\ \A b \in Agents \ {a} : pc'[b] = pc[b] /\ outcome'[b] = outcome[b]
    /\ UNCHANGED <<parent, dry, lock>>

\* What later steps leave of a report.
ReportsKept ==
    /\ drafted' \in [Parents -> Nat] /\ written' \in [Parents -> SUBSET {"md", "json"}]
    /\ \A p \in Parents :
         /\ drafted'[p] <= 1 /\ (drafted[p] = 1 => drafted'[p] = 1)
         /\ written[p] \subseteq written'[p]

\* What the loop owes for where the step has brought the run.
Backed(a) ==
    /\ pc'[a] # "off"
    /\ pc'[a] \in PastDraft => drafted'[parent[a]] = 1
    /\ pc'[a] = "json" => "md" \in written'[parent[a]]
    /\ outcome'[a] = "completed" /\ ~dry[a] => HasReport(parent[a])'

LEMMA ReportsStay ==
    ASSUME AgentInv, NEW a \in Agents, RunMoves(a), ReportsKept, Backed(a), history' = history
    PROVE  Locked' /\ ReportsBacked'
<1>1. Locked'
  BY DEF RunMoves, AgentInv, Locked
<1>2. \A p \in Parents : HasReport(p) => HasReport(p)'
  BY DEF ReportsKept, HasReport, AgentInv, AgentTyped
<1>3. ASSUME NEW b \in Agents
      PROVE  /\ pc'[b] = "off" => outcome'[b] = "none"
             /\ pc'[b] \in PastDraft => drafted'[parent'[b]] = 1
             /\ pc'[b] = "json" => "md" \in written'[parent'[b]]
             /\ outcome'[b] = "completed" /\ ~dry'[b] => HasReport(parent[b])'
  <2>1. parent[b] \in Parents
    BY DEF AgentInv, AgentTyped
  <2>2. CASE b = a
    BY <2>2 DEF Backed, RunMoves
  <2>3. CASE b # a
    BY <1>2, <2>1, <2>3 DEF RunMoves, ReportsKept, AgentInv, ReportsBacked
  <2> QED BY <2>2, <2>3
<1>4. WA!OneDraftPerWeek'
  BY DEF ReportsKept, WA!OneDraftPerWeek
<1>5. /\ history' # None => history' \in Rows
      /\ history' # None /\ history'.terminal = "completed" => HasReport(history.parent)'
  BY <1>2 DEF AgentInv, ReportsBacked, Rows
<1>6. parent' = parent
  BY DEF RunMoves
<1> QED BY <1>1, <1>3, <1>4, <1>5, <1>6 DEF ReportsBacked, HasReport

\* A step that leaves reports and child alone.
LEMMA LoopMoves ==
    ASSUME AgentInv, NEW a \in Agents, RunMoves(a), UNCHANGED <<drafted, written, history>>, Backed(a)
    PROVE  Locked' /\ ReportsBacked'
<1>1. ReportsKept
  BY DEF ReportsKept, AgentInv, AgentTyped, ReportsBacked, WA!OneDraftPerWeek
<1> QED BY <1>1, ReportsStay

\* The process of a run is gone.
LEMMA RunGone ==
    ASSUME AgentInv, NEW a \in Agents, WA!Gone(a), lock' = lock \/ (lock = a /\ lock' = None),
           UNCHANGED <<drafted, written, busy, child>>,
           history' = history \/ history' = WA!Row(a, "failed")
    PROVE  AgentInv'
<1>1. ParentOfNone \in Parents
  BY AgentAssumption DEF ParentOfNone, WA!ConstantsOK
<1>2. AgentTyped'
  BY <1>1 DEF WA!Gone, AgentInv, AgentTyped, ParentOfNone, WA!Outcomes
<1>3. Locked'
  BY DEF WA!Gone, AgentInv, AgentTyped, Locked
<1>4. CallsCounted'
  BY DEF WA!Gone, AgentInv, AgentTyped, CallsCounted, CallsBefore
<1>5. \A b \in Agents :
        IF b = a THEN pc'[b] = "off" /\ outcome'[b] = "none"
        ELSE pc'[b] = pc[b] /\ outcome'[b] = outcome[b] /\ dry'[b] = dry[b] /\ parent'[b] = parent[b]
  BY DEF WA!Gone, AgentInv, AgentTyped
<1>6. /\ history' # None => history' \in Rows
      /\ history' # None /\ history'.terminal = "completed" => HasReport(history'.parent)
  <2>1. CASE history' = history
    BY <2>1 DEF AgentInv, ReportsBacked
  <2>2. CASE history' = WA!Row(a, "failed")
    <3>1. history' = [terminal |-> "failed", parent |-> parent[a], draft |-> "failed" = "completed"]
      BY <2>2 DEF WA!Row
    <3>2. parent[a] \in Parents
      BY DEF AgentInv, AgentTyped
    <3> QED BY <3>1, <3>2 DEF Rows, WA!Outcomes
  <2> QED BY <2>1, <2>2
<1>7. ReportsBacked'
  BY <1>5, <1>6 DEF AgentInv, ReportsBacked, HasReport, WA!OneDraftPerWeek, PastDraft
<1>8. OneChild'
  BY DEF AgentInv, OneChild
<1> QED BY <1>2, <1>3, <1>4, <1>7, <1>8 DEF AgentInv

\* The steps of a run's loop, one by one.
LEMMA LoopKeeps ==
    ASSUME AgentInv, NEW a \in Agents, WA!LoopStep(a) \/ WA!SocketTimeout(a)
    PROVE  AgentInv'
<1> USE DEF WA!agent, WA!base, WA!server, WA!world
<1>1. ASSUME WA!GetHaltState(a) PROVE AgentInv'
  <2>1. AgentTyped' /\ RunMoves(a) /\ Backed(a)
    BY <1>1 DEF WA!GetHaltState, WA!Fail, WA!Goto, AgentInv, AgentTyped, WA!Loop, WA!Outcomes, RunMoves, Backed,
       PastDraft, ReportsBacked, HasReport
  <2>2. CallsCounted'
    BY <1>1 DEF WA!GetHaltState, WA!Fail, WA!Goto, AgentInv, AgentTyped, CallsCounted, CallsBefore
  <2>3. OneChild' /\ UNCHANGED <<drafted, written, history>>
    BY <1>1 DEF WA!GetHaltState, AgentInv, OneChild
  <2> QED BY <2>1, <2>2, <2>3, LoopMoves DEF AgentInv
<1>2. ASSUME WA!Read(a) PROVE AgentInv'
  <2>1. AgentTyped' /\ RunMoves(a) /\ Backed(a)
    BY <1>2 DEF WA!Read, WA!Fail, WA!Goto, AgentInv, AgentTyped, WA!Loop, WA!Outcomes, RunMoves, Backed,
       PastDraft, ReportsBacked, HasReport
  <2>2. CallsCounted'
    BY <1>2 DEF WA!Read, WA!Fail, WA!Goto, AgentInv, AgentTyped, CallsCounted, CallsBefore
  <2>3. OneChild' /\ UNCHANGED <<drafted, written, history>>
    BY <1>2 DEF WA!Read, AgentInv, OneChild
  <2> QED BY <2>1, <2>2, <2>3, LoopMoves DEF AgentInv
<1>3. ASSUME WA!CallLlm(a) PROVE AgentInv'
  <2>1. stage' \in [Agents -> {0, 1} \X {0, 1}]
    <3>1. stage[a] \in {0, 1} \X {0, 1}
      BY DEF AgentInv, AgentTyped
    <3>2. ASSUME NEW err, WA!NextStage(stage[a], err) # <<>>
          PROVE  WA!NextStage(stage[a], err) \in {0, 1} \X {0, 1}
      BY <3>1, <3>2 DEF WA!NextStage
    <3>3. \/ stage' = stage
          \/ \E err : WA!NextStage(stage[a], err) # <<>> /\ stage' = [stage EXCEPT ![a] = WA!NextStage(stage[a], err)]
      BY <1>3 DEF WA!CallLlm
    <3>4. stage \in [Agents -> {0, 1} \X {0, 1}]
      BY DEF AgentInv, AgentTyped
    <3>5. ASSUME NEW err, WA!NextStage(stage[a], err) # <<>>, stage' = [stage EXCEPT ![a] = WA!NextStage(stage[a], err)]
          PROVE  stage' \in [Agents -> {0, 1} \X {0, 1}]
      <4> DEFINE s == WA!NextStage(stage[a], err)
      <4>1. s \in {0, 1} \X {0, 1}
        BY <3>2, <3>5
      <4> HIDE DEF s
      <4>2. stage' = [stage EXCEPT ![a] = s]
        BY <3>5 DEF s
      <4> QED BY <3>4, <4>1, <4>2
    <3> QED BY <3>3, <3>4, <3>5
  <2>2. /\ pc' \in [Agents -> WA!Loop \cup {"off"}] /\ outcome' \in [Agents -> WA!Outcomes]
        /\ pc[a] = "llm" /\ pc'[a] \in {"llm", "draft", "history"} /\ outcome'[a] \in {outcome[a], "failed"}
        /\ \A b \in Agents \ {a} : pc'[b] = pc[b] /\ outcome'[b] = outcome[b]
    BY <1>3 DEF WA!CallLlm, WA!Fail, WA!Goto, AgentInv, AgentTyped, WA!Loop, WA!Outcomes
  <2>3. calls' \in [Agents -> Nat] /\ UNCHANGED <<parent, dry, lock, drafted, written, history, child, busy>>
    BY <1>3 DEF WA!CallLlm, AgentInv, AgentTyped
  <2>4. AgentTyped' /\ RunMoves(a) /\ Backed(a)
    BY <2>1, <2>2, <2>3 DEF AgentInv, AgentTyped, RunMoves, Backed, PastDraft, ReportsBacked, HasReport
  <2>5. CallsCounted'
    BY <1>3 DEF WA!CallLlm, WA!Fail, WA!Goto, AgentInv, AgentTyped, CallsCounted, CallsBefore, WA!NextStage
  <2>6. OneChild'
    BY <2>3 DEF AgentInv, OneChild
  <2> QED BY <2>3, <2>4, <2>5, <2>6, LoopMoves DEF AgentInv
<1>4. ASSUME WA!Draft(a) PROVE AgentInv'
  <2>1. /\ pc' \in [Agents -> WA!Loop \cup {"off"}] /\ outcome' \in [Agents -> WA!Outcomes]
        /\ pc[a] = "draft" /\ pc'[a] \in {"leave", "history", "active"}
        /\ outcome'[a] = "completed" => dry[a] \/ outcome[a] = "completed"
        /\ \A b \in Agents \ {a} : pc'[b] = pc[b] /\ outcome'[b] = outcome[b]
    BY <1>4 DEF WA!Draft, WA!Fail, WA!Goto, AgentInv, AgentTyped, WA!Loop, WA!Outcomes
  <2>2. UNCHANGED <<parent, dry, lock, stage, calls, written, history, child, busy>>
    BY <1>4 DEF WA!Draft
  <2>3. \/ drafted' = drafted /\ pc'[a] # "active"
        \/ drafted' = [drafted EXCEPT ![parent[a]] = @ + 1] /\ ~(drafted[parent[a]] > 0)
    BY <1>4, <2>1 DEF WA!Draft, WA!Fail, WA!Goto, WA!AlreadyDrafted, AgentInv, AgentTyped
  <2>4. parent[a] \in Parents /\ ReportsKept /\ (pc'[a] = "active" => drafted'[parent[a]] = 1)
    BY <2>2, <2>3 DEF ReportsKept, AgentInv, AgentTyped, ReportsBacked, WA!OneDraftPerWeek
  <2>5. HasReport(parent[a]) => HasReport(parent[a])'
    BY <2>2, <2>4 DEF HasReport, ReportsKept
  <2>6. AgentTyped' /\ RunMoves(a) /\ Backed(a)
    BY <2>1, <2>2, <2>4, <2>5 DEF AgentInv, AgentTyped, RunMoves, Backed, PastDraft, ReportsBacked, ReportsKept
  <2>7. CallsCounted' /\ OneChild'
    BY <2>1, <2>2 DEF AgentInv, AgentTyped, CallsCounted, CallsBefore, OneChild
  <2> QED BY <2>2, <2>4, <2>6, <2>7, ReportsStay DEF AgentInv
<1>5. ASSUME WA!Backtest(a) PROVE AgentInv'
  <2>1. AgentTyped' /\ RunMoves(a) /\ Backed(a)
    BY <1>5 DEF WA!Backtest, WA!RunBacktest, WA!Fail, WA!Goto, AgentInv, AgentTyped, WA!Loop, WA!Outcomes, RunMoves,
       Backed, PastDraft, ReportsBacked, HasReport
  <2>2. CallsCounted'
    BY <1>5 DEF WA!Backtest, WA!RunBacktest, WA!Fail, WA!Goto, AgentInv, AgentTyped, CallsCounted, CallsBefore
  <2>3. UNCHANGED <<drafted, written, history>>
    BY <1>5 DEF WA!Backtest
  <2>4. OneChild'
    <3>1. CASE UNCHANGED <<busy, child>>
      BY <3>1 DEF AgentInv, OneChild
    <3>2. CASE WA!RunBacktest(a)
      <4>1. child = {} /\ busy' = TRUE /\ child' = child \cup {spawned + 1}
        BY <3>2 DEF WA!RunBacktest, WA!TryAcquire, AgentInv, OneChild
      <4> QED BY <4>1 DEF OneChild
    <3> QED BY <1>5, <3>1, <3>2 DEF WA!Backtest
  <2> QED BY <2>1, <2>2, <2>3, <2>4, LoopMoves DEF AgentInv
<1>6. ASSUME WA!WriteReport(a) PROVE AgentInv'
  <2>1. /\ pc' \in [Agents -> WA!Loop \cup {"off"}] /\ outcome' \in [Agents -> WA!Outcomes]
        /\ pc[a] \in {"md", "json"} /\ pc'[a] \in {"json", "history"}
        /\ \A b \in Agents \ {a} : pc'[b] = pc[b] /\ outcome'[b] = outcome[b]
    BY <1>6 DEF WA!WriteReport, WA!AfterFile, WA!Fail, WA!Goto, AgentInv, AgentTyped, WA!Loop, WA!Outcomes
  <2>2. UNCHANGED <<parent, dry, lock, stage, calls, drafted, history, child, busy>>
    BY <1>6 DEF WA!WriteReport
  <2>3. \/ written' = written /\ pc'[a] = "history" /\ outcome'[a] = "failed"
        \/ /\ written' = [written EXCEPT ![parent[a]] = @ \cup {pc[a]}]
           /\ IF pc[a] = "md" THEN pc'[a] = "json" /\ outcome'[a] = outcome[a] ELSE pc'[a] = "history"
    BY <1>6 DEF WA!WriteReport, WA!AfterFile, WA!Fail, WA!Goto, AgentInv, AgentTyped
  <2>4. parent[a] \in Parents /\ ReportsKept
    BY <2>1, <2>2, <2>3 DEF ReportsKept, AgentInv, AgentTyped, ReportsBacked, WA!OneDraftPerWeek
  <2>5. drafted[parent[a]] = 1 /\ (pc[a] = "json" => "md" \in written[parent[a]])
    BY <2>1 DEF AgentInv, ReportsBacked, PastDraft
  <2>6. Backed(a)
    <3>1. CASE written' = written /\ pc'[a] = "history" /\ outcome'[a] = "failed"
      BY <3>1 DEF Backed, PastDraft
    <3>2. CASE /\ written' = [written EXCEPT ![parent[a]] = @ \cup {pc[a]}]
               /\ IF pc[a] = "md" THEN pc'[a] = "json" /\ outcome'[a] = outcome[a] ELSE pc'[a] = "history"
      <4>1. written'[parent[a]] = written[parent[a]] \cup {pc[a]} /\ written[parent[a]] \subseteq {"md", "json"}
        BY <2>4, <3>2 DEF AgentInv, AgentTyped
      <4>2. CASE pc[a] = "md"
        BY <2>2, <2>5, <3>2, <4>1, <4>2 DEF Backed, HasReport, AgentInv, ReportsBacked
      <4>3. CASE pc[a] = "json"
        <5>1. HasReport(parent[a])'
          BY <2>2, <2>5, <4>1, <4>3 DEF HasReport
        <5> QED BY <3>2, <4>3, <5>1 DEF Backed, PastDraft
      <4> QED BY <2>1, <4>2, <4>3
    <3> QED BY <2>3, <3>1, <3>2
  <2>7. AgentTyped' /\ RunMoves(a)
    BY <2>1, <2>2, <2>4 DEF AgentInv, AgentTyped, RunMoves, ReportsKept
  <2>8. CallsCounted' /\ OneChild'
    BY <2>1, <2>2 DEF AgentInv, AgentTyped, CallsCounted, CallsBefore, OneChild
  <2> QED BY <2>2, <2>4, <2>6, <2>7, <2>8, ReportsStay DEF AgentInv
<1>7. ASSUME WA!PersistHistory(a) PROVE AgentInv'
  <2>1. /\ pc[a] = "history" /\ pc' = [pc EXCEPT ![a] = "leave"]
        /\ UNCHANGED <<parent, dry, lock, stage, calls, outcome, drafted, written, child, busy>>
        /\ history' = history \/ (~dry[a] /\ history' = WA!Row(a, outcome[a]))
    BY <1>7 DEF WA!PersistHistory, WA!Goto, WA!Recorded
  <2>2. AgentTyped'
    BY <2>1 DEF AgentInv, AgentTyped, WA!Loop
  <2>3. Locked' /\ CallsCounted' /\ OneChild'
    BY <2>1 DEF AgentInv, AgentTyped, Locked, CallsCounted, CallsBefore, OneChild
  <2>4. /\ history' # None => history' \in Rows
        /\ history' # None /\ history'.terminal = "completed" => HasReport(history'.parent)
    <3>1. CASE history' = history
      BY <3>1 DEF AgentInv, ReportsBacked
    <3>2. CASE ~dry[a] /\ history' = WA!Row(a, outcome[a])
      <4>1. history' = [terminal |-> outcome[a], parent |-> parent[a], draft |-> outcome[a] = "completed"]
        BY <3>2 DEF WA!Row
      <4>2. parent[a] \in Parents /\ outcome[a] \in WA!Outcomes
        BY DEF AgentInv, AgentTyped
      <4>3. outcome[a] = "completed" => HasReport(parent[a])
        BY <3>2 DEF AgentInv, ReportsBacked
      <4> QED BY <4>1, <4>2, <4>3 DEF Rows, WA!Outcomes
    <3> QED BY <2>1, <3>1, <3>2
  <2>5. ReportsBacked'
    BY <2>1, <2>4 DEF AgentInv, AgentTyped, ReportsBacked, HasReport, WA!OneDraftPerWeek, PastDraft
  <2> QED BY <2>2, <2>3, <2>5 DEF AgentInv
<1>8. ASSUME WA!LoopReturns(a) PROVE AgentInv'
  BY <1>8, RunGone DEF WA!LoopReturns, WA!Exit
<1>9. ASSUME WA!SocketTimeout(a) PROVE AgentInv'
  <2>1. AgentTyped' /\ RunMoves(a) /\ Backed(a)
    BY <1>9 DEF WA!SocketTimeout, WA!Fail, WA!Goto, AgentInv, AgentTyped, WA!Loop, WA!Outcomes, RunMoves, Backed, PastDraft
  <2>2. CallsCounted'
    BY <1>9 DEF WA!SocketTimeout, WA!Fail, WA!Goto, AgentInv, AgentTyped, CallsCounted, CallsBefore
  <2>3. OneChild' /\ UNCHANGED <<drafted, written, history>>
    BY <1>9 DEF WA!SocketTimeout, AgentInv, OneChild
  <2> QED BY <2>1, <2>2, <2>3, LoopMoves DEF AgentInv
<1> QED BY <1>1, <1>2, <1>3, <1>4, <1>5, <1>6, <1>7, <1>8, <1>9 DEF WA!LoopStep

\* A run that starts finds every other one gone.
LEMMA RunStarts ==
    ASSUME AgentInv, NEW a \in Agents, WA!Bootstrap(a)
    PROVE  AgentInv'
<1> USE DEF WA!base, WA!server
<1>1. PICK p \in Parents, d \in BOOLEAN : parent' = [parent EXCEPT ![a] = p] /\ dry' = [dry EXCEPT ![a] = d]
  BY DEF WA!Bootstrap
<1>2. /\ pc[a] = "off" /\ pc' = [pc EXCEPT ![a] = "halt"] /\ lock' = a
      /\ UNCHANGED <<stage, outcome, calls, drafted, written, history, busy, child>>
  BY DEF WA!Bootstrap, WA!Goto
<1>3. AgentTyped'
  BY <1>1, <1>2 DEF AgentInv, AgentTyped, WA!Loop
<1>4. Locked'
  <2>1. \A b \in Agents : pc[b] = "off"
    BY DEF WA!Bootstrap, WA!LockFree, AgentInv, Locked
  <2> QED BY <1>2, <2>1 DEF AgentInv, AgentTyped, Locked
<1>5. CallsCounted' /\ OneChild'
  BY <1>2 DEF AgentInv, AgentTyped, CallsCounted, CallsBefore, OneChild
<1>6. ReportsBacked'
  <2>1. outcome[a] = "none"
    BY <1>2 DEF AgentInv, ReportsBacked
  <2>2. \A b \in Agents : pc'[b] = (IF b = a THEN "halt" ELSE pc[b])
                          /\ (b # a => parent'[b] = parent[b] /\ dry'[b] = dry[b])
    BY <1>1, <1>2 DEF AgentInv, AgentTyped
  <2>3. ASSUME NEW b \in Agents
        PROVE  /\ pc'[b] = "off" => outcome[b] = "none"
               /\ pc'[b] \in PastDraft => drafted[parent'[b]] = 1
               /\ pc'[b] = "json" => "md" \in written[parent'[b]]
               /\ outcome[b] = "completed" /\ ~dry'[b] => HasReport(parent'[b])
    <3>1. CASE b = a
      BY <2>1, <2>2, <3>1 DEF PastDraft
    <3>2. CASE b # a
      BY <2>2, <3>2 DEF AgentInv, ReportsBacked
    <3> QED BY <3>1, <3>2
  <2> QED BY <1>2, <2>3 DEF AgentInv, ReportsBacked, HasReport, WA!OneDraftPerWeek
<1> QED BY <1>3, <1>4, <1>5, <1>6 DEF AgentInv

\* The child is closed: whoever still waits for it goes on, the semaphore is free.
LEMMA ChildEnds ==
    ASSUME AgentInv, NEW c, WA!ChildCloses(c)
    PROVE  AgentInv'
<1> USE DEF WA!base, WA!world
<1> DEFINE waiting == {a \in Agents : awaited[a] = c /\ pc[a] \in {"wait active", "wait shadow"}}
<1>1. PICK good \in BOOLEAN :
        /\ pc' = [a \in Agents |-> IF a \notin waiting THEN pc[a]
                     ELSE IF ~good THEN "history" ELSE IF pc[a] = "wait active" THEN "shadow" ELSE "md"]
        /\ outcome' = [a \in Agents |-> IF a \in waiting /\ ~good THEN "failed" ELSE outcome[a]]
  BY DEF WA!ChildCloses
<1>2. /\ c \in child /\ child' = child \ {c}
      /\ UNCHANGED <<lock, drafted, written, history, parent, dry, stage, calls>>
  BY DEF WA!ChildCloses
<1>3. \A a \in waiting : a \in Agents /\ pc[a] \in {"wait active", "wait shadow"}
  OBVIOUS
<1> HIDE DEF waiting
<1>4. AgentTyped'
  BY <1>1, <1>2 DEF AgentInv, AgentTyped, WA!Loop, WA!Outcomes
<1>5. Locked' /\ CallsCounted'
  BY <1>1, <1>2, <1>3 DEF AgentInv, AgentTyped, Locked, CallsCounted, CallsBefore
<1>6. ReportsBacked'
  BY <1>1, <1>2, <1>3 DEF AgentInv, AgentTyped, ReportsBacked, HasReport, WA!OneDraftPerWeek, PastDraft
<1>7. OneChild'
  BY <1>2 DEF AgentInv, OneChild
<1> QED BY <1>4, <1>5, <1>6, <1>7 DEF AgentInv

\* Every step of the runs and of the tool server keeps it.
LEMMA AgentStep ==
    ASSUME AgentInv, WA!Next
    PROVE  AgentInv'
<1> USE DEF WA!agent, WA!base, WA!server, WA!world
<1>1. ASSUME NEW a \in Agents, WA!WallclockTail(a) \/ WA!Crash(a) PROVE AgentInv'
  BY <1>1, RunGone DEF WA!WallclockTail, WA!Crash, WA!Exit, WA!Recorded
<1>2. ASSUME (\E a \in Agents : WA!WallclockFires(a)) \/ (\E c \in WA!Children : WA!ChildTimesOut(c))
      PROVE  AgentInv'
  <2>1. UNCHANGED <<pc, parent, dry, stage, calls, outcome, lock, drafted, written, history, busy, child>>
    BY <1>2 DEF WA!WallclockFires, WA!ChildTimesOut
  <2> QED BY <2>1, AgentQuiet
<1> QED
  BY <1>1, <1>2, LoopKeeps, RunStarts, ChildEnds DEF WA!Next

-----------------------------------------------------------------------------
(* Bearer tokens.                                                          *)

Issued == [exp : Nat, aud : TK!Surfaces]

Asking == [jti : Jtis, at : Nat]

\* The strengthening of RevokedRefused: a token is revoked while it has at most its full life
\* left, a row is no older than the first revocation, and a revocation without its row is of a
\* token that has been dead for longer than a look into the table takes.
TokensInv ==
    /\ now \in Nat /\ token \in [Jtis -> Issued \cup {None}]
    /\ row \in [Jtis -> Nat \cup {None}] /\ dead \in [Jtis -> Nat \cup {None}]
    /\ asked \subseteq Asking
    /\ \A j \in Jtis :
         /\ token[j] # None => token[j].exp <= now + TokenTtl
         /\ row[j] # None => dead[j] # None
         /\ dead[j] # None =>
              /\ token[j] # None /\ dead[j] <= now /\ token[j].exp <= dead[j] + TokenTtl
              /\ IF row[j] = None THEN token[j].exp + Margin < now ELSE dead[j] <= row[j]
    /\ \A r \in asked : token[r.jti] # None /\ r.at < token[r.jti].exp /\ now <= r.at + MaxLookup
    /\ wrong = FALSE

LEMMA TokensInitial ==
    ASSUME TK!Init
    PROVE  TokensInv
BY DEF TK!Init, TokensInv, Issued

LEMMA TokensStep ==
    ASSUME TokensInv, TK!Next
    PROVE  TokensInv'
<1>0. {TokenTtl, Margin, PruneAfter, MaxLookup} \subseteq Nat /\ PruneAfter >= TokenTtl + Margin
      /\ MaxLookup <= Margin /\ None \notin Nat
  BY TokenAssumption DEF TK!ConstantsOK
<1>1. ASSUME NEW j \in Jtis, NEW surface \in TK!Surfaces, TK!Request(j, surface) PROVE TokensInv'
  BY <1>0, <1>1 DEF TK!Request, TK!Verify, TokensInv, Asking, Issued
<1>2. ASSUME NEW j \in Jtis, NEW aud \in TK!Surfaces, NEW ttl \in 0..TokenTtl, TK!Issue(j, aud, ttl)
      PROVE  TokensInv'
  BY <1>0, <1>2 DEF TK!Issue, TK!TtlOK, TokensInv, Asking, Issued
<1>3. ASSUME NEW j \in Jtis, TK!Revoke(j) PROVE TokensInv'
  <2>1. /\ token[j] # None /\ UNCHANGED <<now, token, asked, wrong>>
        /\ row' = [row EXCEPT ![j] = IF row[j] = None THEN now ELSE row[j]]
        /\ dead' = [dead EXCEPT ![j] = IF dead[j] = None THEN now ELSE dead[j]]
    BY <1>3 DEF TK!Revoke
  <2>2. /\ row' \in [Jtis -> Nat \cup {None}] /\ dead' \in [Jtis -> Nat \cup {None}]
        /\ \A k \in Jtis \ {j} : row'[k] = row[k] /\ dead'[k] = dead[k]
        /\ row'[j] = (IF row[j] = None THEN now ELSE row[j])
        /\ dead'[j] = (IF dead[j] = None THEN now ELSE dead[j])
    BY <2>1 DEF TokensInv
  <2>3. token[j].exp <= now + TokenTtl
    BY <1>0, <2>1 DEF TokensInv, Issued
  <2> QED BY <1>0, <2>1, <2>2, <2>3 DEF TokensInv, Asking, Issued
<1>4. ASSUME NEW r \in asked, TK!Lookup(r) PROVE TokensInv'
  <2>1. r.jti \in Jtis /\ r.at \in Nat /\ token[r.jti] # None
    BY DEF TokensInv, Asking
  <2>2. ~(row[r.jti] = None /\ dead[r.jti] # None /\ dead[r.jti] < r.at)
    <3> SUFFICES ASSUME row[r.jti] = None, dead[r.jti] # None PROVE FALSE
      OBVIOUS
    <3>1. token[r.jti].exp + Margin < now /\ r.at < token[r.jti].exp /\ now <= r.at + MaxLookup
      BY <2>1 DEF TokensInv
    <3>2. token[r.jti].exp \in Nat /\ now \in Nat
      BY <2>1 DEF TokensInv, Issued
    <3> QED BY <1>0, <2>1, <3>1, <3>2
  <2>3. wrong' = FALSE
    BY <1>4, <2>2 DEF TK!Lookup, TK!IsRevoked, TokensInv
  <2>4. asked' = asked \ {r} /\ UNCHANGED <<now, token, row, dead>>
    BY <1>4 DEF TK!Lookup
  <2> QED BY <2>3, <2>4 DEF TokensInv
<1>5. ASSUME TK!RunOnce PROVE TokensInv'
  BY <1>0, <1>5 DEF TK!RunOnce, TK!Prunable, TokensInv, Asking, Issued
<1>6. ASSUME TK!Tick PROVE TokensInv'
  BY <1>0, <1>6 DEF TK!Tick, TokensInv, Asking, Issued
<1> QED BY <1>1, <1>2, <1>3, <1>4, <1>5, <1>6 DEF TK!Next

-----------------------------------------------------------------------------
(* The surfaces together: a behaviour is one component's.                  *)

SurfaceInv ==
    /\ part = "feed" => FeedInv
    /\ part = "queue" => QueueInv
    /\ part = "agent" => AgentInv
    /\ part = "tokens" => TokensInv

\* Counting is the same in the instance.
LEMMA AgentCount == \A S : WA!Cardinality(S) = Cardinality(S)
BY DEF WA!IsFiniteSet, IsFiniteSet, WA!Cardinality, Cardinality

\* A set whose members are all one has at most one.
LEMMA AtMostOne ==
    ASSUME NEW S, \A x, y \in S : x = y
    PROVE  Cardinality(S) <= 1
<1>1. CASE S = {}
  BY <1>1, FS_EmptySet
<1>2. CASE S # {}
  <2>1. PICK x : x \in S
    BY <1>2
  <2>2. S = {x}
    BY <2>1
  <2> QED BY <2>2, FS_Singleton
<1> QED BY <1>1, <1>2

\* No room is left holding a dead socket, for any number of connections and any tokens
\* (LiveGateway); a queue-full window sends one lag notice and a client that stays full is cut,
\* for any caps and times (PerSocketQueue); weekly runs never overlap, draft twice, complete
\* without their report, ask the models more than four times or run two engines, for any number
\* of processes, crashes and timeouts (runWeeklyLoop, runBacktestOnce); and a revoked token stays
\* refused when the prune has forgotten it, because the boot asserts PruneAfter >= Ttl + Margin
\* (RevokedJtiRepository).
THEOREM SurfaceIsSound == Spec => []SurfaceSound
<1>1. Init => SurfaceInv
  BY FeedInitial, QueueInitial, AgentInitial, TokensInitial DEF Init, SurfaceInv
<1>2. SurfaceInv /\ [Next]_vars => SurfaceInv'
  <2>1. ASSUME SurfaceInv, Next PROVE SurfaceInv'
    BY <2>1, FeedStep, QueueStep, AgentStep, TokensStep DEF Next, SurfaceInv
  <2>2. ASSUME SurfaceInv, UNCHANGED vars PROVE SurfaceInv'
    <3>1. part' = part /\ UNCHANGED LF!vars /\ UNCHANGED SQ!vars /\ UNCHANGED WA!vars /\ UNCHANGED TK!vars
      BY <2>2 DEF vars
    <3>2. FeedInv => FeedInv'
      BY <3>1, FeedQuiet DEF LF!vars, LF!gateway
    <3>3. QueueInv => QueueInv'
      BY <3>1, QueueQuiet DEF SQ!vars, SQ!queue, QueueInv
    <3>4. AgentInv => AgentInv'
      BY <3>1, AgentQuiet DEF WA!vars, WA!agent, WA!base, WA!server
    <3>5. TokensInv => TokensInv'
      BY <3>1 DEF TK!vars, TokensInv
    <3> QED BY <2>2, <3>1, <3>2, <3>3, <3>4, <3>5 DEF SurfaceInv
  <2> QED BY <2>1, <2>2
<1>3. SurfaceInv => SurfaceSound
  <2>1. FeedInv => LF!DeadHoldNoRoom
    BY DEF FeedInv
  <2>2. QueueInv => SQ!OneNoticePerWindow /\ SQ!SlowClientCut
    BY DEF QueueInv, SQ!OneNoticePerWindow
  <2>3. ASSUME AgentInv
        PROVE  /\ WA!NoOverlap /\ WA!CompletedHasReport /\ WA!OneDraftPerWeek
               /\ WA!ModelCallsBounded /\ WA!OneEngineChild
    <3>1. WA!NoOverlap
      <4>1. \A x, y \in {a \in Agents : pc[a] # "off"} : x = y
        BY <2>3 DEF AgentInv, Locked
      <4> QED BY <4>1, AtMostOne, AgentCount DEF WA!NoOverlap
    <3>2. WA!OneEngineChild
      BY <2>3, AtMostOne, AgentCount DEF AgentInv, OneChild, WA!OneEngineChild
    <3> QED
      BY <2>3, <3>1, <3>2 DEF AgentInv, ReportsBacked, HasReport, CallsCounted, WA!CompletedHasReport, WA!ModelCallsBounded
  <2>4. TokensInv => TK!RevokedRefused
    BY DEF TokensInv, TK!RevokedRefused
  <2> QED BY <2>1, <2>2, <2>3, <2>4 DEF SurfaceInv, SurfaceSound
<1> QED BY <1>1, <1>2, <1>3, PTL DEF Spec
=============================================================================
