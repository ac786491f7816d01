---------------------------- MODULE WeeklyAgent ----------------------------
(***************************************************************************)
(* The weekly research agent and the tool server it calls.  A run takes a  *)
(* lock, asks the server for the halt flag, the performance and the        *)
(* decisions, has a model propose parameters, drafts a version of the      *)
(* active parent, backtests parent and draft, writes the report and one    *)
(* row of history, all under a wallclock that ends the process.  The       *)
(* server spawns one engine process at a time for the backtests.           *)
(* One ISO week.  The halt flag and the active version are the engine's: a *)
(* read may find either value, whatever the last one found.                *)
(***************************************************************************)
EXTENDS Naturals, FiniteSets

CONSTANTS
    Agents,             \* agent processes that cron or an operator may have started
    Parents,            \* version ids the runs are started for
    Lookback,           \* LOOKBACK_DAYS
    HardCap,            \* tool -> hard cap on the days of its window
    Midnight,           \* whether the run's instant is a UTC midnight
    MaxLaunches, MaxCrashes, MaxChildren,   \* bounds
    None

ConstantsOK ==
    /\ {Lookback, MaxLaunches, MaxCrashes, MaxChildren} \subseteq Nat
    /\ HardCap \in [{"performance", "decisions", "backtest"} -> Nat] /\ Midnight \in BOOLEAN
    /\ Parents # {}

VARIABLES
    pc, parent, dry,    \* a run: where its loop is, and its arguments
    stage,              \* <<repair, fallback>>: which model call this is
    outcome,            \* its terminal state
    wall,               \* the wallclock path of the process: "no", "recording"
    lock,               \* the lock file's owner
    drafted,            \* rows inserted per (parent, this week)
    written,            \* files of a parent's draft: subset of {"md", "json"}
    history,            \* agent_run_history of this week
    busy,               \* the backtest tool's semaphore
    child, awaited,     \* engine processes running; the one a run waits for
    killed,             \* those whose wallclock fired (timedOut)
    calls, launches, crashes, spawned   \* bounds' counters; calls of the model per run

agent == <<pc, parent, dry, stage, outcome, wall, calls, awaited>>
base == <<drafted, written, history>>
server == <<busy, child, killed, spawned>>
world == <<launches, crashes>>
vars == <<agent, lock, base, server, world>>

Loop == {"halt", "performance", "decisions", "llm", "draft", "active", "wait active", "shadow", "wait shadow", "md", "json", "history", "leave"}
Children == 1..MaxChildren
Outcomes == {"none", "completed", "halted", "idempotent", "failed"}

TypeOK ==
    /\ pc \in [Agents -> Loop \cup {"off"}] /\ parent \in [Agents -> Parents] /\ dry \in [Agents -> BOOLEAN]
    /\ stage \in [Agents -> {0, 1} \X {0, 1}] /\ wall \in [Agents -> {"no", "recording"}]
    /\ outcome \in [Agents -> Outcomes]
    /\ lock \in Agents \cup {None}
    /\ drafted \in [Parents -> Nat] /\ written \in [Parents -> SUBSET {"md", "json"}]
    /\ busy \in BOOLEAN /\ child \subseteq Children /\ killed \subseteq child /\ awaited \in [Agents -> Children \cup {0}]
    /\ calls \in [Agents -> Nat]

Init ==
    /\ pc = [a \in Agents |-> "off"] /\ parent = [a \in Agents |-> CHOOSE p \in Parents: TRUE] /\ dry = [a \in Agents |-> FALSE]
    /\ stage = [a \in Agents |-> <<0, 0>>] /\ outcome = [a \in Agents |-> "none"] /\ wall = [a \in Agents |-> "no"]
    /\ lock = None
    /\ drafted = [p \in Parents |-> 0] /\ written = [p \in Parents |-> {}] /\ history = None
    /\ busy = FALSE /\ child = {} /\ killed = {} /\ awaited = [a \in Agents |-> 0]
    /\ calls = [a \in Agents |-> 0] /\ launches = 0 /\ crashes = 0 /\ spawned = 0

Goto(a, p) == pc' = [pc EXCEPT ![a] = p]

-----------------------------------------------------------------------------
(* The process: arguments, lock, wallclock.                                *)

\* proper-lockfile: a living owner keeps refreshing the file, a dead one's goes stale.
LockFree == \A a \in Agents: lock = a => pc[a] = "off"

\* bootstrap, tryAcquireLock: a run that finds the lock held exits at once.
Bootstrap(a) ==
    /\ pc[a] = "off" /\ launches < MaxLaunches /\ LockFree
    /\ lock' = a /\ launches' = launches + 1 /\ Goto(a, "halt")
    /\ \E p \in Parents, d \in BOOLEAN: parent' = [parent EXCEPT ![a] = p] /\ dry' = [dry EXCEPT ![a] = d]
    /\ UNCHANGED <<stage, outcome, wall, calls, awaited, base, server, crashes>>

\* process.exit: nothing of the process is left.
Gone(a) ==
    /\ pc' = [pc EXCEPT ![a] = "off"] /\ wall' = [wall EXCEPT ![a] = "no"] /\ stage' = [stage EXCEPT ![a] = <<0, 0>>]
    /\ outcome' = [outcome EXCEPT ![a] = "none"] /\ calls' = [calls EXCEPT ![a] = 0] /\ awaited' = [awaited EXCEPT ![a] = 0]
    /\ dry' = [dry EXCEPT ![a] = FALSE] /\ parent' = [parent EXCEPT ![a] = CHOOSE p \in Parents: TRUE]

\* finally of runUnderWallclock, then process.exit.
Exit(a) == Gone(a) /\ lock' = IF lock = a THEN None ELSE lock

\* runUnderWallclock: the loop ended before the wallclock.
LoopReturns(a) ==
    /\ pc[a] = "leave" /\ wall[a] = "no" /\ Exit(a) /\ UNCHANGED <<base, server, world>>

\* The wallclock (or SIGTERM) wins the race; the loop is not cancelled.
WallclockFires(a) ==
    /\ pc[a] \in Loop \ {"leave"} /\ wall[a] = "no" /\ wall' = [wall EXCEPT ![a] = "recording"]
    /\ UNCHANGED <<pc, parent, dry, stage, outcome, calls, awaited, lock, base, server, world>>

\* record_agent_run_history: the first row of the week stays.
Recorded(row) == IF history = None THEN row ELSE history

Row(a, terminal) == [terminal |-> terminal, parent |-> parent[a], draft |-> terminal = "completed"]

\* recordWallclockExceeded; the write may fail and is then only logged.
WallclockTailMutant(a) ==
    /\ wall[a] = "recording" /\ lock' = None
    /\ wall' = [wall EXCEPT ![a] = "no"]
    /\ UNCHANGED <<pc, parent, dry, stage, outcome, calls, awaited, base, server, world>>

WallclockTail(a) ==
    /\ wall[a] = "recording" /\ Exit(a)
    /\ \E fails \in BOOLEAN: history' = IF dry[a] \/ fails THEN history ELSE Recorded(Row(a, "failed"))
    /\ UNCHANGED <<drafted, written, server, world>>

\* The process or its machine dies: the lock file stays.
Crash(a) ==
    /\ pc[a] # "off" /\ crashes < MaxCrashes /\ crashes' = crashes + 1 /\ Gone(a)
    /\ UNCHANGED <<lock, base, server, launches>>

-----------------------------------------------------------------------------
(* The tool server.                                                        *)

\* validateRange and the schemas: a window within the hard cap; backtests take whole UTC days.
WindowOK(tool) == Lookback <= HardCap[tool] /\ (tool = "backtest" => Midnight)

\* handleRequest, callTool: a call may be refused (token, envelope, arguments) or lost in transport.
Answered(tool) == tool = "halt" \/ WindowOK(tool)

\* runBacktestOnce, spawnBacktestChild: one at a time; the second caller is refused.
TryAcquireMutant == TRUE

TryAcquire == ~busy

RunBacktest(a) ==
    /\ TryAcquire /\ WindowOK("backtest") /\ spawned < MaxChildren
    /\ busy' = TRUE /\ spawned' = spawned + 1 /\ child' = child \cup {spawned + 1} /\ killed' = killed
    /\ awaited' = [awaited EXCEPT ![a] = spawned + 1]

\* The wallclock of the child: SIGTERM, then SIGKILL after the grace.
ChildTimesOut(c) ==
    /\ c \in child \ killed /\ killed' = killed \cup {c}
    /\ UNCHANGED <<agent, lock, base, busy, child, spawned, world>>

\* finally: the directory is removed and the semaphore released, whatever the child did.
ReleasedMutant(good) == IF good THEN FALSE ELSE busy

Released(good) == FALSE

\* waitForChild, readReportFromTmp: the caller, if it still waits, gets a report or an error.
ChildCloses(c) ==
    /\ c \in child /\ child' = child \ {c} /\ killed' = killed \ {c} /\ UNCHANGED <<spawned, lock, base, world, parent, dry, stage, wall, calls>>
    /\ \E good \in {FALSE} \cup {c \notin killed}:
         /\ busy' = Released(good)
         /\ LET waiting == {a \in Agents: awaited[a] = c /\ pc[a] \in {"wait active", "wait shadow"}} IN
            /\ awaited' = [a \in Agents |-> IF a \in waiting THEN 0 ELSE awaited[a]]
            /\ pc' = [a \in Agents |-> IF a \notin waiting THEN pc[a]
                                       ELSE IF ~good THEN "history" ELSE IF pc[a] = "wait active" THEN "shadow" ELSE "md"]
            /\ outcome' = [a \in Agents |-> IF a \in waiting /\ ~good THEN "failed" ELSE outcome[a]]

-----------------------------------------------------------------------------
(* The loop of a run.                                                      *)

\* The catch of runWeeklyLoop: the outcome is FAILED and goes to the history.
Fail(a) == Goto(a, "history") /\ outcome' = [outcome EXCEPT ![a] = "failed"]

\* runWeeklyLoop: halted runs are skipped.
GetHaltState(a) ==
    /\ pc[a] = "halt"
    /\ \/ Fail(a)
       \/ Goto(a, "history") /\ outcome' = [outcome EXCEPT ![a] = "halted"]
       \/ Goto(a, "performance") /\ UNCHANGED outcome
    /\ UNCHANGED <<parent, dry, stage, wall, calls, awaited, lock, base, server, world>>

\* runCompleteCycle up to the prompt: performance, then the decisions of the symbols.
Read(a) ==
    /\ pc[a] \in {"performance", "decisions"}
    /\ \/ Fail(a)
       \/ Answered(pc[a]) /\ Goto(a, IF pc[a] = "performance" THEN "decisions" ELSE "llm") /\ UNCHANGED outcome
    /\ UNCHANGED <<parent, dry, stage, wall, calls, awaited, lock, base, server, world>>

\* Which call follows a failed one: a retryable error once falls back to the other model, an
\* answer of the wrong shape is once repaired by asking again; <<>> is none.
NextStageMutant(s, err) ==
    IF err = "retryable" /\ s[2] = 0 THEN <<s[1], 1>> ELSE IF err = "shape" THEN <<s[1], 0>> ELSE <<>>

NextStage(s, err) ==
    IF err = "retryable" /\ s[2] = 0 THEN <<s[1], 1>> ELSE IF err = "shape" /\ s[1] = 0 THEN <<1, 0>> ELSE <<>>

\* generateStructured under callLlmWithRepair; "fatal" is any other error, the cost cap included.
CallLlm(a) ==
    /\ pc[a] = "llm" /\ calls' = [calls EXCEPT ![a] = @ + 1]
    /\ \/ Goto(a, "draft") /\ UNCHANGED <<stage, outcome>>
       \/ \E err \in {"shape", "retryable", "fatal"}:
             LET next == NextStage(stage[a], err) IN
             IF next = <<>> THEN Fail(a) /\ UNCHANGED stage
             ELSE stage' = [stage EXCEPT ![a] = next] /\ UNCHANGED <<pc, outcome>>
    /\ UNCHANGED <<parent, dry, wall, awaited, lock, base, server, world>>

\* draft_strategy_version: unique per (parent, week).
AlreadyDraftedMutant(p) == FALSE

AlreadyDrafted(p) == drafted[p] > 0

\* runBacktestsAndReport, first part; a dry run renders its report and leaves, and a parent that is
\* not active is refused.
Draft(a) ==
    /\ pc[a] = "draft"
    /\ \/ dry[a] /\ Goto(a, "leave") /\ outcome' = [outcome EXCEPT ![a] = "completed"] /\ UNCHANGED drafted
       \/ ~dry[a] /\ Fail(a) /\ UNCHANGED drafted
       \/ ~dry[a]
          /\ IF AlreadyDrafted(parent[a])
             THEN Goto(a, "history") /\ outcome' = [outcome EXCEPT ![a] = "idempotent"] /\ UNCHANGED drafted
             ELSE Goto(a, "active") /\ drafted' = [drafted EXCEPT ![parent[a]] = @ + 1] /\ UNCHANGED outcome
    /\ UNCHANGED <<parent, dry, stage, wall, calls, awaited, lock, written, history, server, world>>

\* runComparisonBacktests: the active parent, then the draft.
Backtest(a) ==
    /\ pc[a] \in {"active", "shadow"}
    /\ \/ RunBacktest(a) /\ Goto(a, IF pc[a] = "active" THEN "wait active" ELSE "wait shadow") /\ UNCHANGED outcome
       \/ Fail(a) /\ UNCHANGED <<server, awaited>>
    /\ UNCHANGED <<parent, dry, stage, wall, calls, lock, base, world>>

\* transportRequest: the socket times out or breaks; the server's child goes on.
SocketTimeout(a) ==
    /\ pc[a] \in {"wait active", "wait shadow"} /\ Fail(a) /\ awaited' = [awaited EXCEPT ![a] = 0]
    /\ UNCHANGED <<parent, dry, stage, wall, calls, lock, base, server, world>>

\* What the loop does after a file.
AfterFileMutant(f) == IF f = "md" THEN "history" ELSE "json"

AfterFile(f) == IF f = "md" THEN "json" ELSE "history"

\* ReportWriter.write: the markdown, then the json.
WriteReport(a) ==
    /\ pc[a] \in {"md", "json"}
    /\ \/ Fail(a) /\ UNCHANGED written
       \/ /\ written' = [written EXCEPT ![parent[a]] = @ \cup {pc[a]}] /\ Goto(a, AfterFile(pc[a]))
          /\ outcome' = [outcome EXCEPT ![a] = IF AfterFile(pc[a]) = "history" THEN "completed" ELSE @]
    /\ UNCHANGED <<parent, dry, stage, wall, calls, awaited, lock, drafted, history, server, world>>

\* persistHistoryBestEffort: not for a dry run; a failed write is only logged.
PersistHistory(a) ==
    /\ pc[a] = "history" /\ Goto(a, "leave")
    /\ \E fails \in BOOLEAN: history' = IF dry[a] \/ fails THEN history ELSE Recorded(Row(a, outcome[a]))
    /\ UNCHANGED <<parent, dry, stage, outcome, wall, calls, awaited, lock, drafted, written, server, world>>

LoopStep(a) ==
    \/ GetHaltState(a) \/ Read(a) \/ CallLlm(a) \/ Draft(a) \/ Backtest(a)
    \/ WriteReport(a) \/ PersistHistory(a) \/ LoopReturns(a)

Next ==
    \/ \E a \in Agents: LoopStep(a) \/ Bootstrap(a) \/ WallclockFires(a) \/ WallclockTail(a) \/ Crash(a) \/ SocketTimeout(a)
    \/ \E c \in Children: ChildTimesOut(c) \/ ChildCloses(c)

\* A process that runs takes its next step; a child is waited for, and killed if need be.
Fairness ==
    /\ \A a \in Agents: WF_vars(LoopStep(a)) /\ WF_vars(WallclockTail(a))
    /\ \A c \in Children: WF_vars(ChildCloses(c))

Spec == Init /\ [][Next]_vars /\ Fairness

-----------------------------------------------------------------------------
\* Two runs are never under way together: the tail of a timed-out run, whose loop is not
\* cancelled, keeps the lock until the process is gone (runUnderWallclock).
NoOverlap == Cardinality({a \in Agents: pc[a] # "off"}) <= 1

\* A week's history row that says COMPLETED has both report files and exactly one draft of that
\* parent behind it, and whatever reruns, crashes and late writes follow it keeps saying so.
CompletedHasReport ==
    history # None /\ history.terminal = "completed" =>
        written[history.parent] = {"md", "json"} /\ drafted[history.parent] = 1

\* A rerun, a crash or a loop that outlives its wallclock never drafts twice for a parent and a week.
OneDraftPerWeek == \A p \in Parents: drafted[p] <= 1

\* One repair and one fallback each: a run asks the models at most four times.
ModelCallsBounded == \A a \in Agents: calls[a] <= 4

\* Runs that time out, die or give up waiting never let two engine processes run together
\* (the single-slot semaphore of run_backtest).
OneEngineChild == Cardinality(child) <= 1

\* A backtest that fails, is killed, or whose caller is gone gives the slot back.
SlotFreed == busy ~> ~busy

\* A run only asks for windows the server serves: the days resolveWindow computes are within the
\* caps of the tools it calls.
AsksWhatIsServed ==
    \A a \in Agents:
        /\ pc[a] \in {"performance", "decisions"} => WindowOK(pc[a])
        /\ pc[a] \in {"active", "shadow"} => WindowOK("backtest")
=============================================================================
