------------------------- MODULE HaltControlProofs -------------------------
(***************************************************************************)
(* An operator's halt holds and an operator's resume releases, for any     *)
(* number of operators and evaluations, any bound on clock and days, and   *)
(* every set of circumstances that undoes neither by itself.               *)
(***************************************************************************)
EXTENDS HaltControl, TLAPS

OnlyOperatorsLift == setting \cap {"freeze", "autoResume"} = {} /\ ~LoginsMislead

\* What a circumstance brings is absent without it, and no operator is served before
\* the halt state is restored and the keys are asserted.
Absent ==
    /\ "freeze" \notin setting => ~timer /\ pc["freeze"] = "idle" /\ pc["expiry"] = "idle"
    /\ "autoResume" \notin setting => \A e \in Evaluators : pc[e] # "clearing"
    /\ "login" \notin setting => pc["login"] = "idle"
    /\ "restart" \notin setting => up
    /\ "accounting" \notin setting => pc["exposure"] = "idle"
    /\ ~up => \A o \in Operators : pc[o] = "idle"
    /\ pc["keys"] # "idle" => \A o \in Operators : pc[o] = "idle"

\* No timestamp is from the future.
Stamps == audit.at <= clock /\ \A h \in Handlers : job[h].at <= clock

\* No resume is under way beside a halt that is to hold.
Unopposed ==
    (promised \/ \E o \in Operators : quiet[o] /\ Halting(o)) => \A o \in Operators : ~Resuming(o)

\* What a restart would restore is a halt.
Durable == "restart" \in setting => audit.state = "HALTED"

Kept == promised => (up => flag # "none") /\ Durable

\* A halt under way that nobody opposes: before its row is saved, the flag it
\* found up is still up and no later row says RUNNING; after that, both hold.
Underway(o) ==
    (quiet[o] /\ Halting(o)) =>
        /\ pc[o] = "haltAudit" =>
              /\ job[o].was => flag # "none"
              /\ ("restart" \in setting /\ audit.at >= job[o].at) => audit.state = "HALTED"
        /\ pc[o] # "haltAudit" => flag # "none" /\ Durable

Holding == OnlyOperatorsLift => Unopposed /\ Kept /\ \A o \in Operators : Underway(o)

IInv == TypeOK /\ Absent /\ Stamps /\ Holding
-----------------------------------------------------------------------------
(***************************************************************************)
(* Types.                                                                  *)
(***************************************************************************)

\* A handler that starts takes a typed job with it.
LEMMA BeginTyped ==
    ASSUME TypeOK, NEW h \in Handlers, NEW there \in Pcs, Begin(h, there)
    PROVE  /\ clock' \in 0..MaxStamp
           /\ pc' \in [Handlers -> Pcs]
           /\ job' \in [Handlers -> Jobs]
<1> DEFINE was == flag # "none"
<1>1. was \in BOOLEAN
  BY Zenon
<1>2. job' = [job EXCEPT ![h] = Job(clock + 1, date, was, "none")]
  BY DEF Begin
<1>3. clock' = clock + 1 /\ clock + 1 \in 0..MaxStamp
  BY BoundsAssumption DEF TypeOK, Begin
<1> HIDE DEF was
<1>4. Job(clock + 1, date, was, "none") \in Jobs
  BY <1>1, <1>3 DEF TypeOK, Job, Jobs, DayHalts
<1>5. QED
  BY <1>2, <1>3, <1>4 DEF TypeOK, Begin

\* The gate's first checks keep its bookkeeping typed.
LEMMA CheckedTyped ==
    ASSUME TypeOK, NEW e \in Evaluators
    PROVE  /\ Checked(e, stressed.emitted) \in Bookkeeping
           /\ Checked(e, job[e].date) \in Bookkeeping
<1> DEFINE diverged == pc[e] # "loaded" /\ stressed.divergence
           fresh == pc[e] = "loaded" /\ stressed.countDate # job[e].date
<1>1. job[e].date \in Dates
  BY DEF TypeOK, Handlers, Jobs
<1>2. stressed \in Bookkeeping
  BY DEF TypeOK
<1>3. NoKey \in (Dates \cup {-1}) \X (0..(MaxReHalt + 1)) /\ 0 \in 0..(MaxReHalt + 1)
  BY BoundsAssumption DEF NoKey
<1>4. diverged \in BOOLEAN
  BY Zenon
<1>5. SUFFICES ASSUME NEW emitted \in Dates \cup {-1}
               PROVE  Checked(e, emitted) \in Bookkeeping
  BY <1>1, <1>2 DEF Bookkeeping
<1>6. Checked(e, emitted) =
        [emitted |-> emitted,
         count |-> IF fresh THEN 0 ELSE stressed.count,
         countDate |-> IF fresh THEN job[e].date ELSE stressed.countDate,
         resumeKey |-> IF fresh THEN NoKey ELSE stressed.resumeKey,
         divergence |-> diverged]
  BY Zenon DEF Checked
<1> HIDE DEF diverged, fresh
<1>7. QED
  BY <1>1, <1>2, <1>3, <1>4, <1>6 DEF Bookkeeping

\* The bookkeeping a process starts with is typed.
LEMMA CalmTyped == Calm \in Bookkeeping
  BY BoundsAssumption DEF Calm, NoKey, Bookkeeping, Dates

\* A process comes up with every handler at a place of its own, and all but the key
\* assertion idle.
LEMMA BootingTyped ==
    /\ Booting \in [Handlers -> Pcs]
    /\ \A h \in Handlers : h # "keys" => Booting[h] = "idle"
    /\ Booting["keys"] \in {"idle", "asserting"}
BY DEF Booting, Handlers, Pcs, OperatorPcs

\* Every step keeps the types.
LEMMA TypeStep == TypeOK /\ [Next]_vars => TypeOK'
<1> SUFFICES ASSUME TypeOK, [Next]_vars PROVE TypeOK'
  OBVIOUS
<1> USE HandlersAssumption, BoundsAssumption
<1> USE DEF TypeOK, Handlers, Pcs, OperatorPcs, Sources, DayHalts, Dates, Jobs, Job, NoJob, Row, history
<1>1. ASSUME NEW o \in Operators, EngageHalt(o) PROVE TypeOK'
  <2>1. quiet' \in [Operators -> BOOLEAN]
    BY <1>1 DEF EngageHalt
  <2>2. clock' \in 0..MaxStamp /\ pc' \in [Handlers -> Pcs] /\ job' \in [Handlers -> Jobs]
    BY <1>1, BeginTyped DEF EngageHalt
  <2>3. /\ released' = FALSE
        /\ UNCHANGED <<setting, up, date, flag, day, audit, stressed, fired, timer, promised>>
    BY <1>1 DEF EngageHalt
  <2>4. QED
    BY <2>1, <2>2, <2>3
<1>2. ASSUME NEW o \in Operators, HaltAudited(o) PROVE TypeOK'
  BY <1>2 DEF HaltAudited, Append, Goto
<1>3. ASSUME NEW o \in Operators, HaltAlerted(o) PROVE TypeOK'
  <2>1. CASE HaltAnswered(o)
    BY <2>1 DEF HaltAnswered, End
  <2>2. CASE ~HaltAnswered(o)
    BY <1>3, <2>2 DEF HaltAlerted, Goto
  <2>3. QED
    BY <2>1, <2>2
<1>4. ASSUME NEW o \in Operators, Flattened(o) PROVE TypeOK'
  BY <1>4 DEF Flattened, HaltAnswered, End
<1>5. ASSUME NEW o \in Operators, Resume(o) PROVE TypeOK'
  <2>1. quiet' \in [Operators -> BOOLEAN]
    BY <1>5 DEF Resume
  <2>2. clock' \in 0..MaxStamp /\ pc' \in [Handlers -> Pcs] /\ job' \in [Handlers -> Jobs]
    BY <1>5, BeginTyped DEF Resume
  <2>3. /\ promised' = FALSE
        /\ UNCHANGED <<setting, up, date, flag, day, audit, stressed, fired, timer, released>>
    BY <1>5 DEF Resume
  <2>4. QED
    BY <2>1, <2>2, <2>3
<1>6. ASSUME NEW o \in Operators, ResumeAudited(o) PROVE TypeOK'
  BY <1>6 DEF ResumeAudited, Append, Goto
<1>7. ASSUME NEW o \in Operators, ResumeCleared(o) PROVE TypeOK'
  BY <1>7 DEF ResumeCleared, SetDay, Goto
<1>8. ASSUME NEW o \in Operators, ResumeAnswered(o) PROVE TypeOK'
  BY <1>8 DEF ResumeAnswered, End
<1>9. ASSUME NEW e \in Evaluators, Evaluate(e) PROVE TypeOK'
  BY <1>9 DEF Evaluate
<1>10. ASSUME NEW e \in Evaluators, Diverges(e) PROVE TypeOK'
  <2>1. stressed' \in Bookkeeping
    <3>1. ASSUME NEW b \in Bookkeeping PROVE [b EXCEPT !.divergence = TRUE] \in Bookkeeping
      BY DEF Bookkeeping
    <3>2. QED
      BY <1>10, <3>1, CheckedTyped DEF Diverges
  <2>2. quiet' \in [Operators -> BOOLEAN]
    BY <1>10 DEF HaltIntended, Diverges
  <2>3. flag' \in Sources \cup {"none"} /\ fired' \subseteq {"stress", "divergence"}
    BY <1>10 DEF Diverges, Engage, Raise
  <2>4. /\ released' = FALSE
        /\ UNCHANGED <<setting, up, clock, date, day, audit, timer, promised>>
    BY <1>10 DEF Diverges, HaltIntended
  <2>5. pc' \in [Handlers -> Pcs] /\ job' \in [Handlers -> Jobs]
    BY <1>10 DEF Diverges, End
  <2>6. QED
    BY <2>1, <2>2, <2>3, <2>4, <2>5
<1>11. ASSUME NEW e \in Evaluators, Passes(e) PROVE TypeOK'
  <2>1. stressed' \in Bookkeeping
    BY <1>11, CheckedTyped DEF Passes
  <2>2. QED
    BY <1>11, <2>1 DEF Passes, End
<1>12. ASSUME NEW e \in Evaluators, AutoResumes(e) PROVE TypeOK'
  <2>1. stressed' \in Bookkeeping
    BY <1>12, CheckedTyped DEF AutoResumes
  <2>2. QED
    BY <1>12, <2>1 DEF AutoResumes, Goto
<1>13. ASSUME NEW e \in Evaluators, AutoResumed(e) PROVE TypeOK'
  <2>1. stressed' \in Bookkeeping
    BY <1>13 DEF AutoResumed, Bookkeeping
  <2>2. QED
    BY <1>13, <2>1 DEF AutoResumed, SetDay
<1>14. ASSUME NEW e \in Evaluators, Stress(e) PROVE TypeOK'
  <2>1. stressed' \in Bookkeeping
    BY <1>14, CheckedTyped DEF Stress
  <2>2. quiet' \in [Operators -> BOOLEAN]
    BY <1>14 DEF HaltIntended, Stress
  <2>3. flag' \in Sources \cup {"none"} /\ fired' \subseteq {"stress", "divergence"}
    BY <1>14 DEF Stress, Engage, Raise
  <2>4. QED
    BY <1>14, <2>1, <2>2, <2>3 DEF Stress, HaltIntended, Goto
<1>15. ASSUME NEW e \in Evaluators, StressPersisted(e) PROVE TypeOK'
  <2>1. stressed' \in Bookkeeping
    BY <1>15 DEF StressPersisted, Bookkeeping, Least
  <2>2. QED
    BY <1>15, <2>1 DEF StressPersisted, SetDay, End
<1>16. ASSUME NEW e \in Evaluators, LossStreak(e) PROVE TypeOK'
  <2>1. stressed' \in Bookkeeping
    BY <1>16, CheckedTyped DEF LossStreak
  <2>2. quiet' \in [Operators -> BOOLEAN]
    BY <1>16 DEF HaltIntended, LossStreak
  <2>3. QED
    BY <1>16, <2>1, <2>2 DEF LossStreak, HaltIntended, Goto
<1>17. ASSUME NEW e \in Evaluators, LossLocked(e) PROVE TypeOK'
  BY <1>17 DEF LossLocked, SetDay, End
<1>18. ASSUME WindowEnds PROVE TypeOK'
  BY <1>18 DEF WindowEnds
<1>19. ASSUME Freeze PROVE TypeOK'
  <2>1. quiet' \in [Operators -> BOOLEAN]
    BY <1>19 DEF Freeze, HaltIntended
  <2>2. QED
    BY <1>19, <2>1, BeginTyped DEF Freeze, Raise, HaltIntended
<1>20. ASSUME FreezeAudited PROVE TypeOK'
  BY <1>20 DEF FreezeAudited, Append, End
<1>21. ASSUME AutoClear PROVE TypeOK'
  <2>1. CASE Begin("expiry", "auditing")
    BY <1>21, <2>1, BeginTyped DEF AutoClear
  <2>2. CASE UNCHANGED <<clock, pc, job>>
    BY <1>21, <2>2 DEF AutoClear
  <2>3. QED
    BY <1>21, <2>1, <2>2 DEF AutoClear
<1>22. ASSUME AutoClearAudited PROVE TypeOK'
  BY <1>22 DEF AutoClearAudited, Append, End
<1>23. ASSUME Login PROVE TypeOK'
  BY <1>23, BeginTyped DEF Login
<1>24. ASSUME LoginAudited PROVE TypeOK'
  BY <1>24 DEF LoginAudited, Append, End
<1>25. ASSUME ReadExposure PROVE TypeOK'
  BY <1>25 DEF ReadExposure
<1>26. ASSUME WriteExposure PROVE TypeOK'
  BY <1>26 DEF WriteExposure, SetDay, End
<1>27. ASSUME PaperAbort PROVE TypeOK'
  BY <1>27 DEF PaperAbort, Raise, HaltIntended
<1>28. ASSUME Rollover PROVE TypeOK'
  BY <1>28 DEF Rollover
<1>29. ASSUME Restart PROVE TypeOK'
  <2>1. stressed' \in Bookkeeping
    BY <1>29, CalmTyped DEF Restart, Dies
  <2>2. quiet' \in [Operators -> BOOLEAN]
    BY <1>29 DEF Restart, Dies
  <2>3. pc' \in [Handlers -> Pcs] /\ job' \in [Handlers -> Jobs]
    BY <1>29, BootingTyped DEF Restart, Dies
  <2>4. /\ up' = FALSE /\ flag' = "none" /\ fired' = {} /\ timer' = FALSE
        /\ UNCHANGED <<setting, clock, date, day, audit, promised, released>>
    BY <1>29 DEF Restart, Dies
  <2>5. QED
    BY <2>1, <2>2, <2>3, <2>4
<1>30. ASSUME Restore PROVE TypeOK'
  BY <1>30 DEF Restore, Resolved, DaySource
<1>31. ASSUME NEW h \in Handlers, WriteFails(h) PROVE TypeOK'
  BY <1>31 DEF WriteFails, End
<1>32. CASE UNCHANGED vars
  BY <1>32 DEF vars
<1>33. ASSUME AssertKeys PROVE TypeOK'
  <2>1. UNCHANGED <<setting, up, date, flag, day, audit, stressed, fired, timer>>
    BY <1>33 DEF AssertKeys
  <2>2. CASE /\ clock < MaxStamp /\ clock' = clock + 1
              /\ pc' = [pc EXCEPT !["keys"] = "auditing"]
              /\ job' = [job EXCEPT !["keys"] = Job(clock + 1, date, FALSE, "none")]
              /\ HaltIntended
    <3>1. Job(clock + 1, date, FALSE, "none") \in Jobs /\ clock' \in 0..MaxStamp
      BY <2>2
    <3>2. quiet' \in [Operators -> BOOLEAN] /\ released' = FALSE /\ promised' = promised
      BY <2>2 DEF HaltIntended
    <3>3. pc' \in [Handlers -> Pcs] /\ job' \in [Handlers -> Jobs]
      BY <2>2, <3>1
    <3>4. QED
      BY <2>1, <3>1, <3>2, <3>3
  <2>3. CASE End("keys") /\ UNCHANGED <<clock, history>>
    <3>1. pc' \in [Handlers -> Pcs] /\ job' \in [Handlers -> Jobs]
      BY <2>3 DEF End
    <3>2. QED
      BY <2>1, <2>3, <3>1
  <2>4. QED
    BY <1>33, <2>2, <2>3 DEF AssertKeys
<1>34. ASSUME KeysAudited PROVE TypeOK'
  <2>1. audit' \in [at : 0..MaxStamp, state : {"HALTED", "RUNNING"}, source : Sources, date : Dates]
    BY <1>34 DEF KeysAudited, Append
  <2>2. UNCHANGED <<setting, clock, date, day, promised, released>>
    BY <1>34 DEF KeysAudited
  <2>3. CASE "keyFails" \in setting
    <3>1. /\ up' = FALSE /\ flag' = "none" /\ pc' = Booting /\ job' = [h \in Handlers |-> NoJob]
          /\ stressed' = Calm /\ fired' = {} /\ timer' = FALSE /\ quiet' = [o \in Operators |-> FALSE]
      BY <1>34, <2>3 DEF KeysAudited, Dies
    <3>2. job' \in [Handlers -> Jobs] /\ quiet' \in [Operators -> BOOLEAN]
      BY <3>1
    <3>3. QED
      BY <2>1, <2>2, <3>1, <3>2, BootingTyped, CalmTyped
  <2>4. CASE "keyFails" \notin setting
    <3>1. End("keys") /\ UNCHANGED <<up, flag, stressed, fired, timer, quiet>>
      BY <1>34, <2>4 DEF KeysAudited
    <3>2. pc' \in [Handlers -> Pcs] /\ job' \in [Handlers -> Jobs]
      BY <3>1 DEF End
    <3>3. QED
      BY <2>1, <2>2, <3>1, <3>2
  <2>5. QED
    BY <2>3, <2>4
<1>35. QED
  BY <1>1, <1>2, <1>3, <1>4, <1>5, <1>6, <1>7, <1>8, <1>9, <1>10, <1>11, <1>12, <1>13, <1>14, <1>15, <1>16, <1>17, <1>18, <1>19, <1>20, <1>21, <1>22, <1>23, <1>24, <1>25, <1>26, <1>27, <1>28, <1>29, <1>30, <1>31, <1>32, <1>33, <1>34 DEF Next, Operator, Gate

\* What circumstances bring stays absent without them, and timestamps stay in
\* the past.
LEMMA GroundStep == TypeOK /\ Absent /\ Stamps /\ [Next]_vars => Absent' /\ Stamps'
<1> SUFFICES ASSUME TypeOK, Absent, Stamps, [Next]_vars PROVE Absent' /\ Stamps'
  OBVIOUS
<1>a. /\ clock \in Nat /\ audit.at \in Int
      /\ pc \in [Handlers -> Pcs]
      /\ job \in [Handlers -> Jobs]
      /\ \A h \in Handlers : job[h].at \in Int
  BY BoundsAssumption DEF TypeOK, Jobs
<1> USE <1>a, HandlersAssumption DEF Absent, Stamps, Handlers, Job
<1>1. ASSUME NEW o \in Operators, EngageHalt(o) PROVE Absent' /\ Stamps'
  BY <1>1 DEF EngageHalt, Begin, Listening
<1>2. ASSUME NEW o \in Operators, HaltAudited(o) PROVE Absent' /\ Stamps'
  BY <1>2 DEF HaltAudited, Append, Row, Goto
<1>3. ASSUME NEW o \in Operators, HaltAlerted(o) PROVE Absent' /\ Stamps'
  BY <1>3 DEF HaltAlerted, HaltAnswered, Goto, End, NoJob
<1>4. ASSUME NEW o \in Operators, Flattened(o) PROVE Absent' /\ Stamps'
  BY <1>4 DEF Flattened, HaltAnswered, End, NoJob
<1>5. ASSUME NEW o \in Operators, Resume(o) PROVE Absent' /\ Stamps'
  BY <1>5 DEF Resume, Begin, Listening
<1>6. ASSUME NEW o \in Operators, ResumeAudited(o) PROVE Absent' /\ Stamps'
  BY <1>6 DEF ResumeAudited, Append, Row, Goto
<1>7. ASSUME NEW o \in Operators, ResumeCleared(o) PROVE Absent' /\ Stamps'
  BY <1>7 DEF ResumeCleared, Goto
<1>8. ASSUME NEW o \in Operators, ResumeAnswered(o) PROVE Absent' /\ Stamps'
  BY <1>8 DEF ResumeAnswered, End, NoJob
<1>9. ASSUME NEW e \in Evaluators, Evaluate(e) PROVE Absent' /\ Stamps'
  BY <1>9 DEF Evaluate
<1>10. ASSUME NEW e \in Evaluators, Diverges(e) PROVE Absent' /\ Stamps'
  BY <1>10 DEF Diverges, End, NoJob
<1>11. ASSUME NEW e \in Evaluators, Passes(e) PROVE Absent' /\ Stamps'
  BY <1>11 DEF Passes, End, NoJob
<1>12. ASSUME NEW e \in Evaluators, AutoResumes(e) PROVE Absent' /\ Stamps'
  BY <1>12 DEF AutoResumes, Goto
<1>13. ASSUME NEW e \in Evaluators, AutoResumed(e) PROVE Absent' /\ Stamps'
  BY <1>13 DEF AutoResumed
<1>14. ASSUME NEW e \in Evaluators, Stress(e) PROVE Absent' /\ Stamps'
  BY <1>14 DEF Stress, Goto
<1>15. ASSUME NEW e \in Evaluators, StressPersisted(e) PROVE Absent' /\ Stamps'
  BY <1>15 DEF StressPersisted, End, NoJob
<1>16. ASSUME NEW e \in Evaluators, LossStreak(e) PROVE Absent' /\ Stamps'
  BY <1>16 DEF LossStreak, Goto
<1>17. ASSUME NEW e \in Evaluators, LossLocked(e) PROVE Absent' /\ Stamps'
  BY <1>17 DEF LossLocked, End, NoJob
<1>18. ASSUME WindowEnds PROVE Absent' /\ Stamps'
  BY <1>18 DEF WindowEnds
<1>19. ASSUME Freeze PROVE Absent' /\ Stamps'
  BY <1>19 DEF Freeze, Begin
<1>20. ASSUME FreezeAudited PROVE Absent' /\ Stamps'
  BY <1>20 DEF FreezeAudited, Append, Row, End, NoJob
<1>21. ASSUME AutoClear PROVE Absent' /\ Stamps'
  BY <1>21 DEF AutoClear, Begin
<1>22. ASSUME AutoClearAudited PROVE Absent' /\ Stamps'
  BY <1>22 DEF AutoClearAudited, Append, Row, End, NoJob
<1>23. ASSUME Login PROVE Absent' /\ Stamps'
  BY <1>23 DEF Login, Begin, Listening
<1>24. ASSUME LoginAudited PROVE Absent' /\ Stamps'
  BY <1>24 DEF LoginAudited, Append, Row, End, NoJob
<1>25. ASSUME ReadExposure PROVE Absent' /\ Stamps'
  BY <1>25 DEF ReadExposure
<1>26. ASSUME WriteExposure PROVE Absent' /\ Stamps'
  BY <1>26 DEF WriteExposure, End, NoJob
<1>27. ASSUME PaperAbort PROVE Absent' /\ Stamps'
  BY <1>27 DEF PaperAbort
<1>28. ASSUME Rollover PROVE Absent' /\ Stamps'
  BY <1>28 DEF Rollover
<1>29. ASSUME Restart PROVE Absent' /\ Stamps'
  BY <1>29, BootingTyped DEF Restart, Dies, NoJob
<1>30. ASSUME Restore PROVE Absent' /\ Stamps'
  BY <1>30 DEF Restore
<1>31. ASSUME NEW h \in Handlers, WriteFails(h) PROVE Absent' /\ Stamps'
  BY <1>31 DEF WriteFails, End, NoJob
<1>32. CASE UNCHANGED vars
  BY <1>32 DEF vars
<1>33. ASSUME AssertKeys PROVE Absent' /\ Stamps'
  BY <1>33 DEF AssertKeys, End, NoJob
<1>34. ASSUME KeysAudited PROVE Absent' /\ Stamps'
  <2>1. audit'.at <= clock /\ UNCHANGED <<setting, clock>>
    BY <1>34 DEF KeysAudited, Append, Row
  <2>2. CASE "keyFails" \in setting
    <3>1. "restart" \in setting
      BY <2>2, SettingsAssumption DEF TypeOK
    <3>2. QED
      BY <1>34, <2>1, <2>2, <3>1, BootingTyped DEF KeysAudited, Dies, NoJob
  <2>3. CASE "keyFails" \notin setting
    BY <1>34, <2>1, <2>3 DEF KeysAudited, End, NoJob
  <2>4. QED
    BY <2>2, <2>3
<1>35. QED
  BY <1>1, <1>2, <1>3, <1>4, <1>5, <1>6, <1>7, <1>8, <1>9, <1>10, <1>11, <1>12, <1>13, <1>14, <1>15, <1>16, <1>17, <1>18, <1>19, <1>20, <1>21, <1>22, <1>23, <1>24, <1>25, <1>26, <1>27, <1>28, <1>29, <1>30, <1>31, <1>32, <1>33, <1>34 DEF Next, Operator, Gate

-----------------------------------------------------------------------------
(***************************************************************************)
(* The operators' halts.                                                   *)
(***************************************************************************)

\* A step that neither is an operator's nor restarts the engine: it takes nothing
\* away from a halt.
Bystanding ==
    /\ UNCHANGED <<setting, up, promised>>
    /\ \A o \in Operators : pc'[o] = pc[o] /\ job'[o] = job[o] /\ (quiet'[o] => quiet[o])
    /\ flag # "none" => flag' # "none"
    /\ "restart" \in setting => audit' = audit \/ audit'.state = "HALTED"

Bystander ==
    \/ \E e \in Evaluators : Gate(e)
    \/ WindowEnds
    \/ Freeze \/ FreezeAudited \/ AutoClear \/ AutoClearAudited
    \/ Login \/ LoginAudited
    \/ ReadExposure \/ WriteExposure \/ PaperAbort
    \/ \E h \in Handlers \ Operators : WriteFails(h)
    \/ Rollover
    \/ AssertKeys \/ (KeysAudited /\ "keyFails" \notin setting)
    \/ UNCHANGED vars

\* Where only operators lift halts, the gate, the rate limiter, logins, accounting
\* and an assertion of the keys that does not end the process are bystanders.
LEMMA BystandersKeepHalts ==
    TypeOK /\ Absent /\ OnlyOperatorsLift /\ Bystander => Bystanding
<1> SUFFICES ASSUME TypeOK, Absent, OnlyOperatorsLift, Bystander PROVE Bystanding
  OBVIOUS
<1>a. /\ pc \in [Handlers -> Pcs]
      /\ job \in [Handlers -> Jobs]
      /\ quiet \in [Operators -> BOOLEAN]
      /\ \A o \in Operators : o \in Handlers /\ o \notin Evaluators
      /\ \A o \in Operators : o \notin {"login", "freeze", "expiry", "exposure", "keys"}
      /\ \A e \in Evaluators : e \in Handlers
  BY HandlersAssumption DEF TypeOK, Handlers
<1>b. /\ ~timer /\ pc["freeze"] = "idle" /\ pc["expiry"] = "idle"
      /\ \A e \in Evaluators : pc[e] # "clearing"
      /\ "freeze" \notin setting /\ "autoResume" \notin setting
      /\ "restart" \in setting => "login" \notin setting /\ pc["login"] = "idle"
  BY DEF Absent, OnlyOperatorsLift, LoginsMislead
<1> USE <1>a, <1>b DEF Bystanding, history
<1>1. ASSUME NEW e \in Evaluators, Evaluate(e) PROVE Bystanding
  BY <1>1 DEF Evaluate
<1>2. ASSUME NEW e \in Evaluators, Diverges(e) PROVE Bystanding
  BY <1>2 DEF Diverges, Engage, Raise, HaltIntended, End
<1>3. ASSUME NEW e \in Evaluators, Passes(e) PROVE Bystanding
  BY <1>3 DEF Passes, End
<1>4. ASSUME NEW e \in Evaluators, AutoResumes(e) PROVE Bystanding
  BY <1>4 DEF AutoResumes, Goto
<1>5. ASSUME NEW e \in Evaluators, AutoResumed(e) PROVE Bystanding
  BY <1>5 DEF AutoResumed
<1>6. ASSUME NEW e \in Evaluators, Stress(e) PROVE Bystanding
  BY <1>6 DEF Stress, Engage, Raise, HaltIntended, Goto
<1>7. ASSUME NEW e \in Evaluators, StressPersisted(e) PROVE Bystanding
  BY <1>7 DEF StressPersisted, End
<1>8. ASSUME NEW e \in Evaluators, LossStreak(e) PROVE Bystanding
  BY <1>8 DEF LossStreak, HaltIntended, Goto
<1>9. ASSUME NEW e \in Evaluators, LossLocked(e) PROVE Bystanding
  BY <1>9 DEF LossLocked, End
<1>10. ASSUME WindowEnds PROVE Bystanding
  BY <1>10 DEF WindowEnds
<1>11. ASSUME Freeze PROVE Bystanding
  BY <1>11 DEF Freeze
<1>12. ASSUME FreezeAudited PROVE Bystanding
  BY <1>12 DEF FreezeAudited
<1>13. ASSUME AutoClear PROVE Bystanding
  BY <1>13 DEF AutoClear
<1>14. ASSUME AutoClearAudited PROVE Bystanding
  BY <1>14 DEF AutoClearAudited
<1>15. ASSUME Login PROVE Bystanding
  BY <1>15 DEF Login, Begin, Listening
<1>16. ASSUME LoginAudited PROVE Bystanding
  BY <1>16 DEF LoginAudited, End
<1>17. ASSUME ReadExposure PROVE Bystanding
  BY <1>17 DEF ReadExposure
<1>18. ASSUME WriteExposure PROVE Bystanding
  BY <1>18 DEF WriteExposure, End
<1>19. ASSUME PaperAbort PROVE Bystanding
  BY <1>19 DEF PaperAbort, Raise, HaltIntended
<1>20. ASSUME Rollover PROVE Bystanding
  BY <1>20 DEF Rollover
<1>21. ASSUME NEW h \in Handlers \ Operators, WriteFails(h) PROVE Bystanding
  BY <1>21 DEF WriteFails, End
<1>22. CASE UNCHANGED vars
  BY <1>22 DEF vars
<1>23. ASSUME AssertKeys PROVE Bystanding
  BY <1>23 DEF AssertKeys, HaltIntended, End
<1>24. ASSUME KeysAudited, "keyFails" \notin setting PROVE Bystanding
  BY <1>24 DEF KeysAudited, Append, Row, End
<1>25. QED
  BY <1>1, <1>2, <1>3, <1>4, <1>5, <1>6, <1>7, <1>8, <1>9, <1>10, <1>11, <1>12, <1>13, <1>14, <1>15, <1>16, <1>17, <1>18, <1>19, <1>20, <1>21, <1>22, <1>23, <1>24 DEF Bystander, Gate

\* The circumstances of a behaviour do not change.
LEMMA SettingFixed == [Next]_vars => setting' = setting
<1> SUFFICES ASSUME [Next]_vars PROVE setting' = setting
  OBVIOUS
<1>1. ASSUME NEW o \in Operators, Operator(o) PROVE setting' = setting
  BY <1>1 DEF Operator, EngageHalt, HaltAudited, HaltAlerted, HaltAnswered, Flattened, Resume,
              ResumeAudited, ResumeCleared, ResumeAnswered
<1>2. ASSUME NEW e \in Evaluators, Gate(e) PROVE setting' = setting
  BY <1>2 DEF Gate, Evaluate, Diverges, Passes, AutoResumes, AutoResumed, Stress, StressPersisted,
              LossStreak, LossLocked
<1>3. QED
  BY <1>1, <1>2
  DEF Next, WindowEnds, Freeze, FreezeAudited, AutoClear, AutoClearAudited, Login, LoginAudited,
      ReadExposure, WriteExposure, PaperAbort, WriteFails, Rollover, Restart, AssertKeys, KeysAudited,
      Restore, vars

\* Every step keeps what holds an answered halt, and one that is under way.
LEMMA HoldingStep == IInv /\ [Next]_vars => Holding'
<1> SUFFICES ASSUME IInv, [Next]_vars, OnlyOperatorsLift'
             PROVE  Unopposed' /\ Kept' /\ \A o \in Operators : Underway(o)'
  BY DEF Holding
<1>1. /\ setting' = setting /\ OnlyOperatorsLift
      /\ TypeOK /\ Absent /\ Stamps /\ Unopposed /\ Kept /\ \A o \in Operators : Underway(o)
  <2>1. setting' = setting
    BY SettingFixed
  <2>2. OnlyOperatorsLift
    BY <2>1 DEF OnlyOperatorsLift, LoginsMislead
  <2>3. QED
    BY <2>1, <2>2 DEF IInv, Holding
<1>2. /\ clock \in Nat /\ audit.at \in Nat /\ audit.source # "none"
      /\ pc \in [Handlers -> Pcs] /\ job \in [Handlers -> Jobs] /\ quiet \in [Operators -> BOOLEAN]
      /\ \A h \in Handlers : job[h].at \in Nat /\ job[h].at <= clock
      /\ audit.at <= clock
      /\ \A o \in Operators : o \in Handlers
  BY <1>1, BoundsAssumption DEF TypeOK, Jobs, Sources, Stamps, Handlers
<1> USE <1>1, <1>2 DEF Unopposed, Kept, Durable, Underway, Halting, Resuming
<1>3. CASE Bystander
  BY <1>3, BystandersKeepHalts DEF Bystanding
<1>4. ASSUME NEW o \in Operators, EngageHalt(o)
      PROVE  Unopposed' /\ Kept' /\ \A p \in Operators : Underway(p)'
  <2>1. /\ UNCHANGED <<setting, up, flag, audit, promised>>
        /\ up /\ pc[o] = "idle"
        /\ \A p \in Operators \ {o} : pc'[p] = pc[p] /\ job'[p] = job[p] /\ (quiet'[p] => quiet[p])
        /\ pc'[o] = "haltAudit" /\ job'[o].at = clock + 1
        /\ quiet'[o] => \A q \in Operators : ~Resuming(q)
    BY <1>4 DEF EngageHalt, Begin, Job
  <2>2. job'[o].was => flag # "none"
    <3> DEFINE found == flag # "none"
    <3>1. job'[o] = Job(clock + 1, date, found, "none")
      BY <1>4 DEF EngageHalt, Begin, Listening
    <3> HIDE DEF found
    <3>2. job'[o].was = found
      BY <3>1 DEF Job
    <3>3. QED
      BY <3>2 DEF found
  <2>3. Unopposed' /\ Kept'
    BY <2>1
  <2>4. Underway(o)'
    BY <2>1, <2>2
  <2>5. ASSUME NEW p \in Operators \ {o} PROVE Underway(p)'
    BY <2>1
  <2>6. QED
    BY <2>3, <2>4, <2>5
<1>5. ASSUME NEW o \in Operators, HaltAudited(o)
      PROVE  Unopposed' /\ Kept' /\ \A p \in Operators : Underway(p)'
  BY <1>5 DEF HaltAudited, Append, Row, Goto, history
<1>6. ASSUME NEW o \in Operators, HaltAlerted(o) \/ Flattened(o)
      PROVE  Unopposed' /\ Kept' /\ \A p \in Operators : Underway(p)'
  BY <1>6 DEF HaltAlerted, Flattened, HaltAnswered, Goto, End, history
<1>7. ASSUME NEW o \in Operators, Resume(o)
      PROVE  Unopposed' /\ Kept' /\ \A p \in Operators : Underway(p)'
  BY <1>7 DEF Resume, Begin, Listening
<1>8. ASSUME NEW o \in Operators, ResumeAudited(o) \/ ResumeCleared(o) \/ ResumeAnswered(o)
      PROVE  Unopposed' /\ Kept' /\ \A p \in Operators : Underway(p)'
  BY <1>8 DEF ResumeAudited, ResumeCleared, ResumeAnswered, Goto, End, history
<1>9. ASSUME NEW o \in Operators, WriteFails(o)
      PROVE  Unopposed' /\ Kept' /\ \A p \in Operators : Underway(p)'
  BY <1>9 DEF WriteFails, End
<1>10. CASE Restart
  BY <1>10, BootingTyped DEF Restart, Dies
<1>11. CASE Restore
  BY <1>11 DEF Restore, Resolved, DaySource, Absent, history
<1>12. CASE KeysAudited /\ "keyFails" \in setting
  BY <1>12, BootingTyped DEF KeysAudited, Dies, Append, Row
<1>13. QED
  BY <1>3, <1>4, <1>5, <1>6, <1>7, <1>8, <1>9, <1>10, <1>11, <1>12 DEF Next, Operator, Bystander

\* A booted engine on a fresh database is typed.
LEMMA InitTyped == Init => TypeOK
<1> SUFFICES ASSUME Init PROVE TypeOK
  OBVIOUS
<1>1. 0 \in 0..MaxStamp /\ 0 \in Dates
  BY BoundsAssumption DEF Dates
<1>2. NoJob \in Jobs
  BY <1>1 DEF NoJob, Job, Jobs, DayHalts
<1>3. pc \in [Handlers -> Pcs] /\ job \in [Handlers -> Jobs] /\ quiet \in [Operators -> BOOLEAN]
  BY <1>2, BootingTyped DEF Init
<1>4. audit \in [at : 0..MaxStamp, state : {"HALTED", "RUNNING"}, source : Sources, date : Dates]
  BY <1>1 DEF Init, Row, Sources
<1>5. QED
  BY <1>1, <1>3, <1>4, CalmTyped DEF Init, TypeOK, DayHalts

\* Type correctness: stamps stay within the clock's bound, the re-halt count
\* within its cap, every handler at a place of its own with a typed job.
THEOREM TypeCorrect == Spec => []TypeOK
  BY InitTyped, TypeStep, PTL DEF Spec

\* HaltService.engageHalt keeps its promise: once answered, a halt nobody asked to
\* lift holds through everything that happens to flag, audit table and day row,
\* restarts included, where no freeze, auto-resume or misleading login is.
THEOREM OperatorsHaltHolds == Spec => []OperatorHaltHolds
<1>1. Init => IInv
  <2>1. Init => Absent /\ Stamps /\ Holding
    BY BootingTyped, HandlersAssumption
    DEF Init, Absent, Stamps, Holding, Unopposed, Kept, Underway, Halting, Resuming, Handlers, Row,
        NoJob, Job
  <2>2. QED
    BY <2>1, InitTyped DEF IInv
<1>2. IInv /\ [Next]_vars => IInv'
  BY TypeStep, GroundStep, HoldingStep DEF IInv
<1>3. IInv => OperatorHaltHolds
  BY DEF IInv, Holding, Kept, OnlyOperatorsLift, OperatorHaltHolds, HaltHolds
<1>4. QED
  BY <1>1, <1>2, <1>3, PTL DEF Spec
-----------------------------------------------------------------------------
(***************************************************************************)
(* The operators' resumes.  Nothing halts beside a resume that is to       *)
(* release: no operator, no evaluation about to persist a halt, no boot    *)
(* about to leave a key-permission row, and a freeze only if its row will  *)
(* carry an earlier stamp.  Until the resume   *)
(* clears flag and row they are as it found them or already clear; once    *)
(* its own row is saved, what a restart would restore is RUNNING.          *)
(***************************************************************************)

ReleasesLast == ~LoginsMislead /\ "accounting" \notin setting

Unhalted ==
    /\ \A o \in Operators : ~Halting(o)
    /\ \A e \in Evaluators : pc[e] \notin {"stressing", "locking"}

\* No freeze still to be audited would pass for later than stamp.
FreezeOlder(stamp) == pc["freeze"] = "auditing" => job["freeze"].at < stamp

\* A resume under way that nothing opposes.
Lifting(o) ==
    (quiet[o] /\ Resuming(o)) =>
        /\ Unhalted
        /\ FreezeOlder(job[o].at)
        /\ job[o].date # date => day = "none"
        /\ pc[o] # "resumeAlert" /\ ~job[o].was => flag = "none"
        /\ pc[o] = "resumeAlert" => flag = "none" /\ day = "none"
        /\ "restart" \in setting =>
              /\ audit.at >= job[o].at => audit.state = "RUNNING"
              /\ pc[o] # "resumeAudit" => audit.at >= job[o].at

\* An answered resume: everything is clear, and stays so over a restart.
Lifted ==
    released =>
        /\ Unhalted /\ pc["keys"] # "auditing"
        /\ flag = "none" /\ day = "none"
        /\ "restart" \in setting => audit.state = "RUNNING" /\ FreezeOlder(audit.at)

Releasing == ReleasesLast => Lifted /\ \A o \in Operators : Lifting(o)

RInv == TypeOK /\ Absent /\ Stamps /\ Releasing

\* Every step keeps what an answered resume released, and one that is under way.
LEMMA ReleasingStep == RInv /\ [Next]_vars => Releasing'
<1> SUFFICES ASSUME RInv, [Next]_vars, ReleasesLast'
             PROVE  Lifted' /\ \A o \in Operators : Lifting(o)'
  BY DEF Releasing
<1>1. /\ setting' = setting /\ ReleasesLast
      /\ TypeOK /\ Absent /\ Stamps /\ Lifted /\ \A o \in Operators : Lifting(o)
  <2>1. setting' = setting
    BY SettingFixed
  <2>2. ReleasesLast
    BY <2>1 DEF ReleasesLast, LoginsMislead
  <2>3. QED
    BY <2>1, <2>2 DEF RInv, Releasing
<1>2. /\ clock \in Nat /\ audit.at \in Nat
      /\ pc \in [Handlers -> Pcs] /\ job \in [Handlers -> Jobs] /\ quiet \in [Operators -> BOOLEAN]
      /\ \A h \in Handlers : job[h].at \in Nat /\ job[h].at <= clock
      /\ audit.at <= clock
      /\ \A o \in Operators : o \in Handlers /\ o \notin Evaluators
      /\ \A e \in Evaluators : e \in Handlers
      /\ \A h \in Operators \cup Evaluators : h \notin {"login", "freeze", "expiry", "exposure", "keys"}
      /\ {"freeze", "expiry", "keys"} \subseteq Handlers
  BY <1>1, BoundsAssumption, HandlersAssumption DEF TypeOK, Jobs, Stamps, Handlers
<1>3. /\ "restart" \in setting => pc["login"] = "idle" /\ "login" \notin setting
      /\ pc["exposure"] = "idle" /\ "accounting" \notin setting
      /\ "restart" \notin setting => up
      /\ ~up \/ pc["keys"] # "idle" => \A o \in Operators : pc[o] = "idle"
  BY <1>1 DEF Absent, ReleasesLast, LoginsMislead
<1> USE <1>1, <1>2, <1>3 DEF Lifted, Lifting, Unhalted, FreezeOlder, Halting, Resuming, history
<1> DEFINE KeptClear == Lifted' /\ \A o \in Operators : Lifting(o)'
<1>4. ASSUME NEW o \in Operators, EngageHalt(o) PROVE KeptClear
  BY <1>4 DEF EngageHalt, Begin, Job
<1>5. ASSUME NEW o \in Operators, HaltAudited(o) PROVE KeptClear
  BY <1>5 DEF HaltAudited, Append, Row, Goto
<1>6. ASSUME NEW o \in Operators, HaltAlerted(o) \/ Flattened(o) PROVE KeptClear
  BY <1>6 DEF HaltAlerted, Flattened, HaltAnswered, Goto, End
<1>7. ASSUME NEW o \in Operators, Resume(o) PROVE KeptClear
  <2>1. /\ UNCHANGED <<setting, up, date, flag, day, audit, released>>
        /\ \A p \in Operators \ {o} : pc'[p] = pc[p] /\ job'[p] = job[p] /\ (quiet'[p] => quiet[p])
        /\ \A e \in Evaluators : pc'[e] = pc[e]
        /\ pc'["freeze"] = pc["freeze"] /\ job'["freeze"] = job["freeze"] /\ pc'["keys"] = pc["keys"]
        /\ pc[o] = "idle" /\ pc'[o] = "resumeAudit"
        /\ job'[o].at = clock + 1 /\ job'[o].date = date
        /\ quiet'[o] => Unhalted
    BY <1>7 DEF Resume, Begin, Job
  <2>2. ~job'[o].was => flag = "none"
    <3> DEFINE found == flag # "none"
    <3>1. job'[o] = Job(clock + 1, date, found, "none")
      BY <1>7 DEF Resume, Begin, Listening
    <3> HIDE DEF found
    <3>2. job'[o].was = found
      BY <3>1 DEF Job
    <3>3. QED
      BY <3>2 DEF found
  <2>3. Lifted'
    BY <2>1
  <2>4. Lifting(o)'
    BY <2>1, <2>2
  <2>5. ASSUME NEW p \in Operators \ {o} PROVE Lifting(p)'
    BY <2>1
  <2>6. QED
    BY <2>3, <2>4, <2>5
<1>8. ASSUME NEW o \in Operators, ResumeAudited(o) PROVE KeptClear
  BY <1>8 DEF ResumeAudited, Append, Row, Goto
<1>9. ASSUME NEW o \in Operators, ResumeCleared(o) PROVE KeptClear
  BY <1>9 DEF ResumeCleared, SetDay, Goto
<1>10. ASSUME NEW o \in Operators, ResumeAnswered(o) PROVE KeptClear
  BY <1>10 DEF ResumeAnswered, End
<1>11. ASSUME NEW e \in Evaluators, Evaluate(e) PROVE KeptClear
  BY <1>11 DEF Evaluate
<1>12. ASSUME NEW e \in Evaluators, Passes(e) \/ AutoResumes(e) PROVE KeptClear
  BY <1>12 DEF Passes, AutoResumes, End, Goto
<1>13. ASSUME NEW e \in Evaluators, AutoResumed(e) PROVE KeptClear
  BY <1>13 DEF AutoResumed, SetDay
<1>14. ASSUME NEW e \in Evaluators, Diverges(e) \/ Stress(e) \/ LossStreak(e) PROVE KeptClear
  BY <1>14 DEF Diverges, Stress, LossStreak, HaltIntended, Goto, End
<1>15. ASSUME NEW e \in Evaluators, StressPersisted(e) \/ LossLocked(e) PROVE KeptClear
  BY <1>15 DEF StressPersisted, LossLocked, SetDay, End
<1>16. CASE WindowEnds \/ UNCHANGED vars
  BY <1>16 DEF WindowEnds, vars
<1>17. CASE Freeze
  BY <1>17 DEF Freeze, Begin, HaltIntended
<1>18. CASE FreezeAudited
  BY <1>18 DEF FreezeAudited, Append, Row, End
<1>19. CASE AutoClear
  BY <1>19 DEF AutoClear, Begin
<1>20. CASE AutoClearAudited
  BY <1>20 DEF AutoClearAudited, Append, Row, End
<1>21. CASE Login
  BY <1>21 DEF Login, Begin, Listening
<1>22. CASE LoginAudited
  BY <1>22 DEF LoginAudited, Append, Row, End
<1>23. CASE ReadExposure \/ WriteExposure
  BY <1>23 DEF ReadExposure, WriteExposure
<1>24. CASE PaperAbort
  BY <1>24 DEF PaperAbort, HaltIntended
<1>25. ASSUME NEW h \in Handlers, WriteFails(h) PROVE KeptClear
  BY <1>25 DEF WriteFails, End
<1>26. CASE Rollover
  BY <1>26 DEF Rollover
<1>27. CASE Restart
  BY <1>27, BootingTyped DEF Restart, Dies, Handlers
<1>28. CASE Restore
  BY <1>28 DEF Restore, Resolved
<1>29. CASE AssertKeys
  <2>1. \A o \in Operators : pc'[o] = "idle"
    BY <1>29, <1>3 DEF AssertKeys, End
  <2>2. CASE HaltIntended
    BY <2>1, <2>2 DEF HaltIntended
  <2>3. CASE End("keys") /\ UNCHANGED <<clock, history>>
    BY <1>29, <2>1, <2>3 DEF AssertKeys, End
  <2>4. QED
    BY <1>29, <2>2, <2>3 DEF AssertKeys
<1>30. CASE KeysAudited
  BY <1>30, BootingTyped DEF KeysAudited, Dies, End
<1>31. QED
  BY <1>4, <1>5, <1>6, <1>7, <1>8, <1>9, <1>10, <1>11, <1>12, <1>13, <1>14, <1>15, <1>16,
     <1>17, <1>18, <1>19, <1>20, <1>21, <1>22, <1>23, <1>24, <1>25, <1>26, <1>27, <1>28, <1>29, <1>30
  DEF Next, Operator, Gate

\* HaltService.resume keeps its promise too: once answered, with nothing halting
\* since it was asked for, flag and day row are clear and a restart does not
\* bring the halt back, over the end of a day, freezes, auto-resumes and failing
\* writes, until a boot begins a key-permission row (every boot of the testnet, and
\* elsewhere one whose assertion fails).
THEOREM ResumeAlwaysReleases == Spec => []ResumeReleases
<1>1. Init => RInv
  <2>1. Init => Absent /\ Stamps /\ Releasing
    BY BootingTyped, HandlersAssumption
    DEF Init, Absent, Stamps, Releasing, Lifted, Lifting, Resuming, Handlers, Row, NoJob, Job
  <2>2. QED
    BY <2>1, InitTyped DEF RInv
<1>2. RInv /\ [Next]_vars => RInv'
  BY TypeStep, GroundStep, ReleasingStep DEF RInv
<1>3. RInv => ResumeReleases
  BY DEF RInv, Releasing, Lifted, ReleasesLast, ResumeReleases
<1>4. QED
  BY <1>1, <1>2, <1>3, PTL DEF Spec
=============================================================================
