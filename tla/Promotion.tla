------------------------------ MODULE Promotion ------------------------------
(***************************************************************************)
(* The versions of one strategy name, and who may trade.  An operator runs *)
(* a comparison, then `strategy promote`: the gate judges the candidate    *)
(* against the version that is active when it looks, and a serializable    *)
(* transaction, opened after, demotes whatever is active then.             *)
(* `strategy reactivate` does the same without the gate.  The engine itself *)
(* trades the version its environment names and reads the shadow set once, *)
(* at boot.                                                                *)
(*                                                                         *)
(* At this commit criteria 7 and 9 are always deferred and the comparison  *)
(* writes no promotion decision into its artefact, so no draft can pass;   *)
(* harness = TRUE is the world of the integration tests, which stub the    *)
(* gate's deferrals and write stamped artefacts.                           *)
(***************************************************************************)
EXTENDS Naturals, FiniteSets

CONSTANTS
    Versions, Operators,
    Weaknesses,     \* sets of criteria (besides 5, 7, 9, 11) a candidate may fail
    MaxTx, MaxRestarts,
    None

ConstantsOK == IsFiniteSet(Versions) /\ {MaxTx, MaxRestarts} \subseteq Nat

VARIABLES
    status,         \* strategy_versions.status
    report,         \* the comparison report, or None
    harness,        \* the deferred criteria run and artefacts are stamped
    op,             \* each operator's command
    engine,         \* what the running engine loaded at boot
    ever,           \* ghost: versions that have been active
    replaced,       \* ghost: the last promotion: who, over whom, and whether a commit came between
    txs, restarts

vars == <<status, report, harness, op, engine, ever, replaced, txs, restarts>>

Statuses == {"draft", "shadow", "active", "archived"}
NoVersion == Versions \cup {None}
NoReplacement == [new |-> None, old |-> None, moved |-> FALSE]
Idle == [at |-> "idle", kind |-> "none", v |-> None, old |-> None, late |-> FALSE, stale |-> FALSE]

WithStatus(s) == {v \in Versions : status[v] = s}

TypeOK ==
    /\ status \in [Versions -> Statuses]
    /\ report = None \/ (report.versions \subseteq Versions /\ {report.winner, report.regime} \subseteq NoVersion)
    /\ \A p \in Operators : op[p].at \in {"idle", "judged", "tx"} /\ op[p].v \in NoVersion
    /\ engine.trading \in NoVersion /\ engine.shadows \subseteq Versions
    /\ ever \subseteq Versions /\ {replaced.new, replaced.old} \subseteq NoVersion
    /\ txs \in 0..MaxTx /\ restarts \in 0..MaxRestarts

Init ==
    /\ status \in [Versions -> Statuses] /\ Cardinality(WithStatus("active")) <= 1
    /\ harness \in BOOLEAN /\ report = None
    /\ op = [p \in Operators |-> Idle]
    /\ engine = [trading |-> IF WithStatus("active") = {} THEN None ELSE CHOOSE v \in WithStatus("active") : TRUE,
                 shadows |-> WithStatus("shadow")]
    /\ ever = WithStatus("active") /\ replaced = NoReplacement
    /\ txs = 0 /\ restarts = 0

-----------------------------------------------------------------------------
(* The comparison, and the gate's twelve criteria over its artefact.       *)

\* winner: the version whose paired interval beats every other one of the report.
\* regime: the one with the better mean in every target regime.
Compare(S, w, r, weak) ==
    /\ report = None /\ w \in S \cup {None} /\ r \in S \cup {None}
    /\ report' = [versions |-> S, winner |-> w, regime |-> r, weak |-> weak, stamped |-> harness]
    /\ UNCHANGED <<status, harness, op, engine, ever, replaced, txs, restarts>>

Baseline(v) ==
    LET sameName == WithStatus("active") \ {v}
    IN IF sameName = {} THEN None ELSE CHOOSE b \in sameName : TRUE

Deferred == IF harness THEN {} ELSE {7, 9}

\* Criterion 5: no baseline, no pair, no conclusive win of the candidate.
StatisticalFailure(v, b) == b = None \/ b \notin report.versions \/ report.winner # v

RegimeFailureMutant(v, b) == b = None

\* Criterion 11: the candidate must beat the baseline in each regime it targets.
RegimeFailure(v, b) == b = None \/ ~({v, b} \subseteq report.versions) \/ report.regime # v

\* The criteria over the candidate's own out-of-sample cells: report.weak of those it has,
\* and without a cell every one of them but concentration, which no trade cannot offend.
OwnFailures(v, criteria) == IF v \in report.versions THEN report.weak \cap criteria ELSE criteria

OosFailures(v) == OwnFailures(v, {1, 2, 3, 4})

SampleFailures(v) == OwnFailures(v, {6})

DropBestFailures(v) == OwnFailures(v, {8})

ConcentrationFailures(v) == IF v \in report.versions THEN report.weak \cap {10} ELSE {}

LowFidelityFailures(v) == OwnFailures(v, {12})

Failed(v, b) ==
    OosFailures(v) \cup SampleFailures(v) \cup DropBestFailures(v) \cup ConcentrationFailures(v)
      \cup LowFidelityFailures(v) \cup Deferred
      \cup (IF StatisticalFailure(v, b) THEN {5} ELSE {}) \cup (IF RegimeFailure(v, b) THEN {11} ELSE {})

Blocking == {1, 2, 3, 4, 8, 10, 11, 12}

ClassifyDecision(failed) ==
    IF failed = {} THEN "promote" ELSE IF failed \cap Blocking # {} THEN "reject" ELSE "inconclusive"

\* A report row whose artefact lies under the artefact root and parses.
LoadReportArtefact == report # None

\* PromotionService.promote: anything but "promote" throws the outcome back.
Evaluate(p, v) ==
    /\ op[p] = Idle /\ LoadReportArtefact
    /\ ClassifyDecision(Failed(v, Baseline(v))) = "promote"
    /\ op' = [op EXCEPT ![p] = [Idle EXCEPT !.at = "judged", !.kind = "promote", !.v = v]]
    /\ UNCHANGED <<status, report, harness, engine, ever, replaced, txs, restarts>>

-----------------------------------------------------------------------------
(* The transactions.  A transaction works on the rows as they were when it *)
(* began; if another committed meanwhile PostgreSQL aborts it (40001, or   *)
(* 23505 on the one-active-per-name index).                                *)

\* lockCandidateForPromote, requireReportPromotesVersion.
PromotableIn(v) == status[v] = "draft" /\ v \in report.versions /\ report.stamped

Reactivatable(v) == status[v] \in {"archived", "shadow"}

BeginPromote(p) ==
    /\ op[p].at = "judged"
    /\ \/ PromotableIn(op[p].v) /\ txs < MaxTx /\ txs' = txs + 1
          /\ op' = [op EXCEPT ![p].at = "tx", ![p].old = Baseline(op[p].v)]
       \/ ~PromotableIn(op[p].v) /\ op' = [op EXCEPT ![p] = Idle] /\ UNCHANGED txs
    /\ UNCHANGED <<status, report, harness, engine, ever, replaced, restarts>>

BeginReactivate(p, v) ==
    /\ op[p] = Idle /\ Reactivatable(v) /\ txs < MaxTx /\ txs' = txs + 1
    /\ op' = [op EXCEPT ![p] = [Idle EXCEPT !.at = "tx", !.kind = "reactivate", !.v = v, !.old = Baseline(v)]]
    /\ UNCHANGED <<status, report, harness, engine, ever, replaced, restarts>>

DemotedMutant == "archived"

Demoted == "shadow"

ConflictMutant(p) == FALSE

\* PostgreSQL's verdict: another transaction committed while this one was open.
Conflict(p) == op[p].stale

\* The incumbent locked when the transaction began is demoted, and only it.
AfterFlip(v, old) == [w \in Versions |-> IF w = v THEN "active" ELSE IF w = old THEN Demoted ELSE status[w]]

\* After a commit every other command in flight has been overtaken: an open transaction will
\* abort; a judged candidate only carries the mark (a ghost) that its verdict is older.
Overtaken(p) ==
    [q \in Operators |->
        IF q = p THEN Idle ELSE [op[q] EXCEPT !.late = @ \/ op[q].at = "judged", !.stale = op[q].at = "tx"]]

Commit(p) ==
    LET v == op[p].v IN
    /\ op[p].at = "tx" /\ ~Conflict(p)
    /\ status' = AfterFlip(v, op[p].old) /\ op' = Overtaken(p) /\ ever' = ever \cup {v}
    /\ replaced' = IF op[p].kind = "promote"
                   THEN [new |-> v, old |-> op[p].old, moved |-> op[p].late] ELSE replaced
    /\ UNCHANGED <<report, harness, engine, txs, restarts>>

Abort(p) ==
    /\ op[p].at = "tx" /\ Conflict(p) /\ op' = [op EXCEPT ![p] = Idle]
    /\ UNCHANGED <<status, report, harness, engine, ever, replaced, txs, restarts>>

-----------------------------------------------------------------------------
(* The engine.  ACTIVE_STRATEGY_VERSION_ID is edited by hand, or not.      *)

FindActiveShadows == WithStatus("shadow")

EngineRestarts(pinned) ==
    /\ restarts < MaxRestarts /\ restarts' = restarts + 1
    /\ engine' = [trading |-> pinned, shadows |-> FindActiveShadows]
    /\ UNCHANGED <<status, report, harness, op, ever, replaced, txs>>

Next ==
    \/ \E S \in SUBSET Versions, w \in NoVersion, r \in NoVersion, weak \in Weaknesses :
          Cardinality(S) >= 2 /\ Compare(S, w, r, weak)
    \/ \E p \in Operators :
          \/ \E v \in Versions : Evaluate(p, v) \/ BeginReactivate(p, v)
          \/ BeginPromote(p) \/ Commit(p) \/ Abort(p)
    \/ \E pinned \in {engine.trading} \cup WithStatus("active") : EngineRestarts(pinned)

Spec == Init /\ [][Next]_vars

-----------------------------------------------------------------------------
(* Properties.                                                             *)

\* However promotions and reactivations overlap, one name has at most one active version
\* (PromotionService: serializable transaction plus uq_strategy_versions_active_per_name).
OneActivePerName == Cardinality(WithStatus("active")) <= 1

\* A version that was ever active is never lost to shadow-logging: it is active, or an
\* engine booted now shadows it (demoteIncumbentToShadow, after the blackout of a
\* version archived on demotion).
DemotedKeepsShadowing == ever \subseteq WithStatus("active") \cup FindActiveShadows

\* A promoted version conclusively beat the version it displaced, unless another command
\* committed after it was judged: the transaction takes the incumbent it finds and does
\* not judge again.
PromotedBeatsIncumbent ==
    replaced.new # None /\ ~replaced.moved =>
        /\ replaced.old \in report.versions /\ report.winner = replaced.new /\ report.regime = replaced.new

\* Claimed at StrategyVersionRepository.findActiveShadows: the status alone keeps the
\* traded version out of the shadow set.  The engine trades what its environment names.
TradedIsNotShadowed == engine.trading \notin engine.shadows
=============================================================================
