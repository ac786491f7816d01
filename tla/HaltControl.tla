---------------------------- MODULE HaltControl ----------------------------
(***************************************************************************)
(* The kill switch: the in-memory halt flag that the executor obeys, the   *)
(* halt columns of the day's risk_state row that the gate obeys, the       *)
(* control_audit table, and everyone who writes them: operators, the gate  *)
(* (market stress, model divergence, loss streak), the rate-limit policy,  *)
(* logins, the exposure accounting, the key assertion and the restore that *)
(* every boot makes.                                                       *)
(*                                                                         *)
(* A handler takes its timestamp and reads the flag when it starts, awaits *)
(* its writes, and acts on what it read.  The audit row that counts at a   *)
(* restart is the one with the latest timestamp, not the one written last. *)
(***************************************************************************)
EXTENDS Integers

CONSTANTS
    Operators,      \* requests of these operators may overlap
    Evaluators,     \* gate evaluations that may overlap
    MaxStamp,       \* bound on the timestamps handed out
    MaxDate,        \* bound on the UTC days
    MaxReHalt,      \* MARKET_STRESS_MAX_DAILY_REHALT
    Settings        \* the sets of circumstances a behaviour may be in

\* "restart": the process restarts; "rollover": the UTC day ends; "freeze": the
\* exchange answers 429 or 418; "login": somebody logs in; "accounting": an
\* exposure adjustment; "autoResume": marketStressAutoResumeEnabled, the default
\* on paper; "abort": the paper soak is aborted; "dbFails": a write of the audit or
\* the day row throws; "exempt": the exchange is the testnet, whose keys are not
\* asserted; "keyFails": elsewhere, the assertion of the keys may fail at a boot.
Circumstances == {"restart", "rollover", "freeze", "login", "accounting", "autoResume", "abort", "dbFails",
                  "exempt", "keyFails"}

ASSUME HandlersAssumption ==
    /\ Operators \cap Evaluators = {}
    /\ {"login", "freeze", "expiry", "exposure", "keys"} \cap (Operators \cup Evaluators) = {}
ASSUME BoundsAssumption == MaxStamp \in Nat /\ MaxDate \in Nat /\ MaxReHalt \in Nat
ASSUME SettingsAssumption ==
    \A S \in Settings : S \subseteq Circumstances /\ ("keyFails" \in S => "restart" \in S /\ "exempt" \notin S)

VARIABLES
    setting,    \* the circumstances of this behaviour
    up,         \* the boot has restored the halt state
    clock,      \* the last timestamp handed out
    date,       \* the UTC day
    flag,       \* HaltFlagService: the source its reason names, or "none"
    day,        \* halt_reason of today's risk_state row, or "none"
    audit,      \* the control_audit row findLatest() returns
    pc,         \* [Handlers -> where it is]
    job,        \* [Handlers -> what it took with it: its stamp, its date, the
                \*  halt state it read, the day row it read]
    stressed,   \* RiskGateService's stress and resume bookkeeping
    fired,      \* RiskListeners.lastFiredBySource, within the dedup window
    timer,      \* RateLimitPolicyService.autoClearTimer is set
    quiet,      \* history: nobody asked for the opposite since this request began
    promised,   \* history: a halt was answered, and no resume was asked for since
    released    \* history: a resume was answered; nothing halted and no boot began
                \* a key-permission row since

history == <<quiet, promised, released>>
vars == <<setting, up, clock, date, flag, day, audit, pc, job, stressed, fired, timer, history>>

Handlers == Operators \cup Evaluators \cup {"login", "freeze", "expiry", "exposure", "keys"}
Sources == {"operator", "stress", "divergence", "rate", "other"}
DayHalts == {"none", "stress", "lock"}
Dates == 0..MaxDate

OperatorPcs == {"idle", "haltAudit", "haltAlert", "flattening", "resumeAudit", "resumeClear",
                "resumeAlert"}
Pcs == OperatorPcs \cup {"auditing", "loaded", "clearing", "resumed", "stressing", "locking", "writing",
                        "asserting"}

Row(at, state, source, when) == [at |-> at, state |-> state, source |-> source, date |-> when]
Job(at, when, was, row) == [at |-> at, date |-> when, was |-> was, day |-> row]
NoJob == Job(0, 0, FALSE, "none")
NoKey == <<-1, 0>>
Calm == [emitted |-> -1, count |-> 0, countDate |-> 0, resumeKey |-> NoKey, divergence |-> FALSE]

Jobs == [at : 0..MaxStamp, date : Dates, was : BOOLEAN, day : DayHalts]
Bookkeeping == [emitted : Dates \cup {-1}, count : 0..(MaxReHalt + 1), countDate : Dates,
                resumeKey : (Dates \cup {-1}) \X (0..(MaxReHalt + 1)), divergence : BOOLEAN]

TypeOK ==
    /\ setting \in Settings
    /\ up \in BOOLEAN
    /\ clock \in 0..MaxStamp
    /\ date \in Dates
    /\ flag \in Sources \cup {"none"}
    /\ day \in DayHalts
    /\ audit \in [at : 0..MaxStamp, state : {"HALTED", "RUNNING"}, source : Sources, date : Dates]
    /\ pc \in [Handlers -> Pcs]
    /\ job \in [Handlers -> Jobs]
    /\ stressed \in Bookkeeping
    /\ fired \subseteq {"stress", "divergence"}
    /\ timer \in BOOLEAN
    /\ quiet \in [Operators -> BOOLEAN]
    /\ promised \in BOOLEAN /\ released \in BOOLEAN

\* A process comes up with its key assertion to make, where that can leave a row.
Booting == [h \in Handlers |-> IF h = "keys" /\ setting \cap {"exempt", "keyFails"} # {} THEN "asserting" ELSE "idle"]

\* An engine that was booted on a fresh database.
Init ==
    /\ setting \in Settings
    /\ up = TRUE
    /\ clock = 0 /\ date = 0
    /\ flag = "none" /\ day = "none"
    /\ audit = Row(0, "RUNNING", "operator", 0)
    /\ pc = Booting
    /\ job = [h \in Handlers |-> NoJob]
    /\ stressed = Calm /\ fired = {} /\ timer = FALSE
    /\ quiet = [o \in Operators |-> FALSE]
    /\ promised = FALSE /\ released = FALSE

-----------------------------------------------------------------------------
(***************************************************************************)
(* Building blocks.                                                        *)
(***************************************************************************)

Halting(o) == pc[o] \in {"haltAudit", "haltAlert", "flattening"}
Resuming(o) == pc[o] \in {"resumeAudit", "resumeClear", "resumeAlert"}

\* The HTTP port opens once every boot hook, the key assertion included, is done.
Listening == up /\ pc["keys"] = "idle"

\* A handler starts: it reads the clock and the flag.
Begin(h, there) ==
    /\ up
    /\ pc[h] = "idle"
    /\ clock < MaxStamp
    /\ clock' = clock + 1
    /\ pc' = [pc EXCEPT ![h] = there]
    /\ job' = [job EXCEPT ![h] = Job(clock + 1, date, flag # "none", "none")]

Goto(h, there) == pc' = [pc EXCEPT ![h] = there] /\ UNCHANGED job

End(h) == pc' = [pc EXCEPT ![h] = "idle"] /\ job' = [job EXCEPT ![h] = NoJob]

\* MUTANT of Append: the row written last counts.
AppendLast(h, state, source) == audit' = Row(job[h].at, state, source, job[h].date)

\* The row is saved; findLatest() orders by occurredAt, the handler's stamp.
Append(h, state, source) ==
    audit' = IF job[h].at > audit.at THEN Row(job[h].at, state, source, job[h].date) ELSE audit

\* haltFlag.halt, guarded by isHalted as every caller does it.
Raise(source) == flag' = IF flag = "none" THEN source ELSE flag

\* A write to the row of the handler's own day; only today's row is kept.
SetDay(h, value) == day' = IF job[h].date = date THEN value ELSE day

\* Something halts trading, or is about to.
HaltIntended ==
    /\ released' = FALSE
    /\ quiet' = [o \in Operators |-> quiet[o] /\ ~Resuming(o)]
    /\ UNCHANGED promised

-----------------------------------------------------------------------------
(***************************************************************************)
(* HaltService: the operator's halt and resume.                            *)
(***************************************************************************)

EngageHalt(o) ==
    /\ Listening
    /\ Begin(o, "haltAudit")
    /\ released' = FALSE
    /\ quiet' = [p \in Operators |-> IF p = o THEN \A q \in Operators : ~Resuming(q)
                                              ELSE quiet[p] /\ ~Resuming(p)]
    /\ UNCHANGED <<setting, up, date, flag, day, audit, stressed, fired, timer, promised>>

\* The audit row is durable; then the flag is flipped, unless the handler found
\* it up when it started.
HaltAudited(o) ==
    /\ pc[o] = "haltAudit"
    /\ Append(o, "HALTED", "operator")
    /\ flag' = IF job[o].was THEN flag ELSE "operator"
    /\ Goto(o, "haltAlert")
    /\ UNCHANGED <<setting, up, clock, date, day, stressed, fired, timer, history>>

\* The request is answered.
HaltAnswered(o) ==
    /\ End(o)
    /\ promised' = (promised \/ quiet[o])
    /\ quiet' = [quiet EXCEPT ![o] = FALSE]
    /\ UNCHANGED <<setting, up, clock, date, flag, day, audit, stressed, fired, timer, released>>

\* The alert is out: flatten, on a first transition and if asked to, or answer.
HaltAlerted(o) ==
    /\ pc[o] = "haltAlert"
    /\ \/ HaltAnswered(o)
       \/ /\ ~job[o].was
          /\ Goto(o, "flattening")
          /\ UNCHANGED <<setting, up, clock, date, flag, day, audit, stressed, fired, timer, history>>

Flattened(o) == pc[o] = "flattening" /\ HaltAnswered(o)

Resume(o) ==
    /\ Listening
    /\ Begin(o, "resumeAudit")
    /\ promised' = FALSE
    /\ quiet' = [p \in Operators |->
         IF p = o
         THEN /\ \A q \in Operators : ~Halting(q)
              /\ \A e \in Evaluators : pc[e] \notin {"stressing", "locking"}
         ELSE quiet[p] /\ ~Halting(p)]
    /\ UNCHANGED <<setting, up, date, flag, day, audit, stressed, fired, timer, released>>

ResumeAudited(o) ==
    /\ pc[o] = "resumeAudit"
    /\ Append(o, "RUNNING", "operator")
    /\ Goto(o, "resumeClear")
    /\ UNCHANGED <<setting, up, clock, date, flag, day, stressed, fired, timer, history>>

\* clearHaltForDate on the day of the request, then the flag.
ResumeCleared(o) ==
    /\ pc[o] = "resumeClear"
    /\ SetDay(o, "none")
    /\ flag' = IF job[o].was THEN "none" ELSE flag
    /\ Goto(o, "resumeAlert")
    /\ UNCHANGED <<setting, up, clock, date, audit, stressed, fired, timer, history>>

ResumeAnswered(o) ==
    /\ pc[o] = "resumeAlert"
    /\ End(o)
    /\ released' = (released \/ quiet[o])
    /\ quiet' = [quiet EXCEPT ![o] = FALSE]
    /\ UNCHANGED <<setting, up, clock, date, flag, day, audit, stressed, fired, timer, promised>>

Operator(o) ==
    \/ EngageHalt(o) \/ HaltAudited(o) \/ HaltAlerted(o) \/ Flattened(o)
    \/ Resume(o) \/ ResumeAudited(o) \/ ResumeCleared(o) \/ ResumeAnswered(o)

-----------------------------------------------------------------------------
(***************************************************************************)
(* RiskGateService.evaluate, as far as halts go, and the RiskListeners     *)
(* behind it, whose flag flips happen inside the synchronous emit.         *)
(***************************************************************************)

\* loadState: today's row, before the checks.
Evaluate(e) ==
    /\ up
    /\ pc[e] = "idle"
    /\ pc' = [pc EXCEPT ![e] = "loaded"]
    /\ job' = [job EXCEPT ![e] = Job(0, date, FALSE, day)]
    /\ UNCHANGED <<setting, up, clock, date, flag, day, audit, stressed, fired, timer, history>>

\* The bookkeeping after an evaluation's first checks (it passes them once, before
\* an auto-resume): that of a new day starts over, divergence is found gone.
Checked(e, emitted) ==
    LET fresh == pc[e] = "loaded" /\ stressed.countDate # job[e].date
    IN [emitted |-> emitted,
        count |-> IF fresh THEN 0 ELSE stressed.count,
        countDate |-> IF fresh THEN job[e].date ELSE stressed.countDate,
        resumeKey |-> IF fresh THEN NoKey ELSE stressed.resumeKey,
        divergence |-> pc[e] # "loaded" /\ stressed.divergence]

\* engageProgrammatic, unless the source fired within the dedup window.
Engage(source) ==
    /\ IF source \in fired THEN UNCHANGED flag ELSE Raise(source)
    /\ fired' = fired \cup {source}

\* Model divergence: emitted on the transition, persisted nowhere.
Diverges(e) ==
    /\ pc[e] = "loaded"
    /\ IF stressed.divergence THEN UNCHANGED <<flag, fired>> ELSE Engage("divergence")
    /\ stressed' = [Checked(e, stressed.emitted) EXCEPT !.divergence = TRUE]
    /\ End(e)
    /\ HaltIntended
    /\ UNCHANGED <<setting, up, clock, date, day, audit, timer>>

\* The row halts the day: GLOBAL_HALT, or nothing to object and the loss
\* windows are open.
Passes(e) ==
    /\ pc[e] \in {"loaded", "resumed"}
    /\ stressed' = Checked(e, stressed.emitted)
    /\ End(e)
    /\ UNCHANGED <<setting, up, clock, date, flag, day, audit, fired, timer, history>>

\* resolveDayHalt: a resumable leg has been clear for long enough.
AutoResumes(e) ==
    /\ "autoResume" \in setting
    /\ pc[e] = "loaded" /\ job[e].day = "stress"
    /\ stressed' = Checked(e, stressed.emitted)
    /\ stressed'.count < MaxReHalt
    /\ Goto(e, "clearing")
    /\ UNCHANGED <<setting, up, clock, date, flag, day, audit, fired, timer, history>>

\* autoResumeMarketStress: clear the row, re-arm the emit, and announce it once
\* per re-halt cycle; onMarketStressResumed drops the flag whoever raised it.
AutoResumed(e) ==
    /\ pc[e] = "clearing"
    /\ SetDay(e, "none")
    /\ LET key == <<job[e].date, stressed.count>>
       IN /\ flag' = IF stressed.resumeKey = key THEN flag ELSE "none"
          /\ stressed' = [stressed EXCEPT !.emitted = -1, !.resumeKey = key]
    /\ pc' = [pc EXCEPT ![e] = "resumed"]
    /\ job' = [job EXCEPT ![e] = Job(0, job[e].date, FALSE, "none")]
    /\ UNCHANGED <<setting, up, clock, date, audit, fired, timer, history>>

\* Stress on a day that is not halted: emit once a day, then persist the halt.
Stress(e) ==
    /\ pc[e] \in {"loaded", "resumed"} /\ job[e].day = "none"
    /\ IF stressed.emitted = job[e].date THEN UNCHANGED <<flag, fired>> ELSE Engage("stress")
    /\ stressed' = Checked(e, job[e].date)
    /\ Goto(e, "stressing")
    /\ HaltIntended
    /\ UNCHANGED <<setting, up, clock, date, day, audit, timer>>

Least(a, b) == IF a < b THEN a ELSE b

\* upsertHaltForDay; the re-halt counter is only compared with its cap.
StressPersisted(e) ==
    /\ pc[e] = "stressing"
    /\ SetDay(e, "stress")
    /\ stressed' = [stressed EXCEPT !.count = Least(@ + 1, MaxReHalt + 1)]
    /\ End(e)
    /\ UNCHANGED <<setting, up, clock, date, flag, audit, fired, timer, history>>

\* A loss streak, found after several more awaits: the row alone is halted.
LossStreak(e) ==
    /\ pc[e] \in {"loaded", "resumed"} /\ job[e].day = "none"
    /\ stressed' = Checked(e, stressed.emitted)
    /\ Goto(e, "locking")
    /\ HaltIntended
    /\ UNCHANGED <<setting, up, clock, date, flag, day, audit, fired, timer>>

LossLocked(e) ==
    /\ pc[e] = "locking"
    /\ SetDay(e, "lock")
    /\ End(e)
    /\ UNCHANGED <<setting, up, clock, date, flag, audit, stressed, fired, timer, history>>

\* The dedup window of a source ends.
WindowEnds ==
    /\ up
    /\ fired # {}
    /\ \E s \in fired : fired' = fired \ {s}
    /\ UNCHANGED <<setting, up, clock, date, flag, day, audit, pc, job, stressed, timer, history>>

Gate(e) ==
    \/ Evaluate(e) \/ Diverges(e) \/ Passes(e) \/ AutoResumes(e) \/ AutoResumed(e)
    \/ Stress(e) \/ StressPersisted(e) \/ LossStreak(e) \/ LossLocked(e)

-----------------------------------------------------------------------------
(***************************************************************************)
(* RateLimitPolicyService and RateLimitHaltAdapter.                        *)
(***************************************************************************)

\* A 429 or 418: the flag goes up, the timer is set anew, the row follows.
Freeze ==
    /\ "freeze" \in setting
    /\ Begin("freeze", "auditing")
    /\ Raise("rate")
    /\ timer' = TRUE
    /\ HaltIntended
    /\ UNCHANGED <<setting, up, date, day, audit, stressed, fired>>

FreezeAudited ==
    /\ pc["freeze"] = "auditing"
    /\ Append("freeze", "HALTED", "rate")
    /\ End("freeze")
    /\ UNCHANGED <<setting, up, clock, date, flag, day, stressed, fired, timer, history>>

\* The freeze is over: clear the flag if it is the rate limit's; the row follows
\* (but none for an expiry beyond the bound on the clock).
AutoClear ==
    /\ timer
    /\ timer' = FALSE
    /\ flag' = IF flag = "rate" THEN "none" ELSE flag
    /\ \/ flag = "rate" /\ Begin("expiry", "auditing")
       \/ (flag # "rate" \/ clock = MaxStamp \/ pc["expiry"] # "idle") /\ UNCHANGED <<clock, pc, job>>
    /\ UNCHANGED <<setting, up, date, day, audit, stressed, fired, history>>

AutoClearAudited ==
    /\ pc["expiry"] = "auditing"
    /\ Append("expiry", "RUNNING", "rate")
    /\ End("expiry")
    /\ UNCHANGED <<setting, up, clock, date, flag, day, stressed, fired, timer, history>>

\* A drawdown, a drifted account or a failed exchange probe aborts the paper soak.
PaperAbort ==
    /\ "abort" \in setting
    /\ up
    /\ Raise("divergence")
    /\ HaltIntended
    /\ UNCHANGED <<setting, up, clock, date, day, audit, pc, job, stressed, fired, timer>>

(***************************************************************************)
(* Logins share the audit table; exposure adjustments share the day row.   *)
(***************************************************************************)

Login ==
    /\ "login" \in setting
    /\ Listening
    /\ Begin("login", "auditing")
    /\ UNCHANGED <<setting, up, date, flag, day, audit, stressed, fired, timer, history>>

\* Previous and new state are the state at the attempt.
LoginAudited ==
    /\ pc["login"] = "auditing"
    /\ Append("login", IF job["login"].was THEN "HALTED" ELSE "RUNNING", "operator")
    /\ End("login")
    /\ UNCHANGED <<setting, up, clock, date, flag, day, stressed, fired, timer, history>>

\* adjustOpenExposure reads the whole row of the day...
ReadExposure ==
    /\ "accounting" \in setting
    /\ up
    /\ pc["exposure"] = "idle"
    /\ pc' = [pc EXCEPT !["exposure"] = "writing"]
    /\ job' = [job EXCEPT !["exposure"] = Job(0, date, FALSE, day)]
    /\ UNCHANGED <<setting, up, clock, date, flag, day, audit, stressed, fired, timer, history>>

\* ...and writes it back, halt columns included: updated_at = now() passes the
\* newer-wins guard.
WriteExposure ==
    /\ pc["exposure"] = "writing"
    /\ SetDay("exposure", job["exposure"].day)
    /\ End("exposure")
    /\ UNCHANGED <<setting, up, clock, date, flag, audit, stressed, fired, timer, history>>

\* The write a handler awaits throws: the handler ends there.  A request answers
\* with an error, an evaluation fails, the others log it.
WriteFails(h) ==
    /\ "dbFails" \in setting
    /\ pc[h] \in {"haltAudit", "resumeAudit", "resumeClear", "clearing", "stressing", "locking",
                 "auditing", "writing"}
    /\ h # "keys"
    /\ End(h)
    /\ quiet' = [o \in Operators |-> quiet[o] /\ o # h]
    /\ UNCHANGED <<setting, up, clock, date, flag, day, audit, stressed, fired, timer, promised, released>>

-----------------------------------------------------------------------------
(***************************************************************************)
(* The day ends, the process restarts, the boot restores.                  *)
(***************************************************************************)

\* The new day has no row yet; the flag stays as it is.
Rollover ==
    /\ "rollover" \in setting
    /\ date < MaxDate
    /\ date' = date + 1
    /\ day' = "none"
    /\ UNCHANGED <<setting, up, clock, flag, audit, pc, job, stressed, fired, timer, history>>

\* The process ends, and what it kept in memory is lost.
Dies ==
    /\ up' = FALSE
    /\ flag' = "none"
    /\ pc' = Booting
    /\ job' = [h \in Handlers |-> NoJob]
    /\ stressed' = Calm /\ fired' = {} /\ timer' = FALSE
    /\ quiet' = [o \in Operators |-> FALSE]

Restart ==
    /\ "restart" \in setting
    /\ up
    /\ Dies
    /\ UNCHANGED <<setting, clock, date, day, audit, promised, released>>

(***************************************************************************)
(* KeyPermissionAssertionService: its hook and the restore's are started   *)
(* together, and either may be first to reach the audit table.             *)
(***************************************************************************)

\* Testnet boots leave a row saying that the assertion was skipped; elsewhere it
\* passes and leaves nothing, or fails.
AssertKeys ==
    /\ pc["keys"] = "asserting"
    /\ \/ /\ clock < MaxStamp
          /\ clock' = clock + 1
          /\ pc' = [pc EXCEPT !["keys"] = "auditing"]
          /\ job' = [job EXCEPT !["keys"] = Job(clock + 1, date, FALSE, "none")]
          /\ HaltIntended
       \/ /\ "keyFails" \in setting
          /\ End("keys")
          /\ UNCHANGED <<clock, history>>
    /\ UNCHANGED <<setting, up, date, flag, day, audit, stressed, fired, timer>>

\* Either row says HALTED before and after and names no halting source.  The write
\* is best effort; a failed assertion ends the process all the same.
KeysAudited ==
    /\ pc["keys"] = "auditing"
    /\ Append("keys", "HALTED", "operator") \/ ("dbFails" \in setting /\ UNCHANGED audit)
    /\ IF "keyFails" \in setting
       THEN Dies
       ELSE End("keys") /\ UNCHANGED <<up, flag, stressed, fired, timer, quiet>>
    /\ UNCHANGED <<setting, clock, date, day, promised, released>>


\* resolveProgrammaticSource
DaySource == IF day = "stress" THEN "stress" ELSE "other"

\* MUTANT of Resolved: a halted audit row of an earlier day is stale.
ResolvedTodayOnly ==
    IF audit.state = "HALTED" /\ audit.date = date THEN audit.source
    ELSE IF day # "none" THEN DaySource
    ELSE "none"

\* resolveNewerWins: who, if anyone, halts the restored engine.
Resolved ==
    IF audit.state = "HALTED" /\ (audit.date = date \/ day = "none") THEN audit.source
    ELSE IF day # "none" THEN DaySource
    ELSE "none"

Restore ==
    /\ ~up
    /\ up' = TRUE
    /\ flag' = Resolved
    /\ UNCHANGED <<setting, clock, date, day, audit, pc, job, stressed, fired, timer, history>>

-----------------------------------------------------------------------------
Next ==
    \/ \E o \in Operators : Operator(o)
    \/ \E e \in Evaluators : Gate(e)
    \/ WindowEnds
    \/ Freeze \/ FreezeAudited \/ AutoClear \/ AutoClearAudited
    \/ Login \/ LoginAudited
    \/ ReadExposure \/ WriteExposure \/ PaperAbort
    \/ \E h \in Handlers : WriteFails(h)
    \/ Rollover \/ Restart \/ AssertKeys \/ KeysAudited \/ Restore

Spec == Init /\ [][Next]_vars

-----------------------------------------------------------------------------
(***************************************************************************)
(* Properties.                                                             *)
(***************************************************************************)

\* A halt the operator has been answered holds until somebody asks for a resume:
\* the flag is up whenever the engine is, across any other halt and any restart.
HaltHolds == promised /\ up => flag # "none"

\* A login audits the state it found, and its row may carry the latest timestamp:
\* a restart then restores what the login saw.
LoginsMislead == {"login", "restart"} \subseteq setting

\* So it is as long as nothing but an operator lifts halts (no rate-limit freeze,
\* no auto-resume) and no login misleads a restart.
OperatorHaltHolds ==
    (setting \cap {"freeze", "autoResume"} = {} /\ ~LoginsMislead) => HaltHolds

\* A resume that has been answered has released both the executor's flag and the
\* gate's row, and a restart does not bring the halt back: until something halts, or
\* a boot starts on a key-permission row, which a restart takes for an operator's
\* halt (unless a login misleads it, or an exposure adjustment writes back an older
\* row).
ResumeReleases ==
    (released /\ up /\ ~LoginsMislead /\ "accounting" \notin setting) => flag = "none" /\ day = "none"
=============================================================================
