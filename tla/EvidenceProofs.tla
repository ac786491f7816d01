--------------------------- MODULE EvidenceProofs ---------------------------
(***************************************************************************)
(* Proofs about the components MCEvidence gathers: the promotion of        *)
(* strategy versions, the login, toggle and alert limits, the backups, the *)
(* shadow ledger, the replay of a cell, and the pages of the read API.     *)
(***************************************************************************)
EXTENDS MCEvidence, Sequences, FiniteSets, FiniteSetTheorems, WellFoundedInduction, TLAPS

-----------------------------------------------------------------------------
(* Promotion.                                                              *)

Commands == [at : {"idle", "judged", "tx"}, kind : {"none", "promote", "reactivate"},
             v : Versions \cup {None}, old : Versions \cup {None}, late : BOOLEAN, stale : BOOLEAN]

AtMostOneActive == \A v, w \in Versions : status[v] = "active" /\ status[w] = "active" => v = w

\* What the gate found of candidate v against baseline b.
Verdict(v, b) ==
    /\ report # None /\ v # None
    /\ b \in report.versions /\ report.winner = v /\ report.regime = v

\* The strengthening of PromotionSound.  A transaction nobody overtook holds the
\* incumbent of the present; a verdict nobody overtook is about it.
PromotionInv ==
    /\ status \in [Versions -> PM!Statuses]
    /\ op \in [Operators -> Commands]
    /\ AtMostOneActive
    /\ \A p \in Operators :
         /\ op[p].at # "idle" => op[p].v \in Versions
         /\ op[p].at = "judged" => op[p].kind = "promote"
         /\ op[p].at = "judged" /\ ~op[p].late => Verdict(op[p].v, PM!Baseline(op[p].v))
         /\ op[p].at = "tx" /\ ~op[p].stale => op[p].old = PM!Baseline(op[p].v)
         /\ op[p].at = "tx" /\ ~op[p].stale /\ op[p].kind = "promote" /\ ~op[p].late =>
              Verdict(op[p].v, op[p].old)
    /\ PM!DemotedKeepsShadowing
    /\ replaced.new # None /\ ~replaced.moved => Verdict(replaced.new, replaced.old)

\* Counting is the same in the instance.
LEMMA VersionCount == \A S : (PM!IsFiniteSet(S) <=> IsFiniteSet(S)) /\ PM!Cardinality(S) = Cardinality(S)
BY DEF PM!IsFiniteSet, IsFiniteSet, PM!Cardinality, Cardinality

LEMMA PromotionTypes ==
    /\ PM!Idle \in Commands /\ PM!Idle.at = "idle"
    /\ \A s \in {"draft", "shadow", "active", "archived"} : s \in PM!Statuses
BY DEF PM!Idle, Commands, PM!Statuses

\* At most one member, then at most one by counting.
LEMMA FewActive ==
    ASSUME AtMostOneActive
    PROVE  PM!OneActivePerName
<1> DEFINE A == PM!WithStatus("active")
<1>1. CASE A = {}
  BY <1>1, FS_EmptySet, VersionCount DEF PM!OneActivePerName
<1>2. CASE A # {}
  <2>1. PICK a : a \in A
    BY <1>2
  <2>2. A = {a}
    BY <2>1 DEF PM!WithStatus, AtMostOneActive
  <2>3. Cardinality({a}) = 1
    BY FS_Singleton
  <2>4. PM!Cardinality(PM!WithStatus("active")) = 1
    BY <2>2, <2>3, VersionCount
  <2> QED BY <2>4 DEF PM!OneActivePerName
<1> QED BY <1>1, <1>2

\* The baseline is the other active version, if there is one.
LEMMA BaselineIs ==
    ASSUME NEW v
    PROVE  \/ PM!Baseline(v) = None /\ \A w \in Versions : status[w] = "active" => w = v
           \/ PM!Baseline(v) \in Versions \ {v} /\ status[PM!Baseline(v)] = "active"
<1> DEFINE S == PM!WithStatus("active") \ {v}
<1>1. CASE S = {}
  BY <1>1 DEF PM!Baseline, PM!WithStatus
<1>2. CASE S # {}
  <2>1. (CHOOSE b \in S : TRUE) \in S
    BY <1>2
  <2> QED BY <1>2, <2>1 DEF PM!Baseline, PM!WithStatus
<1> QED BY <1>1, <1>2

\* A gate that promotes found a conclusive win over the baseline.
LEMMA PromoteIsVerdict ==
    ASSUME NEW v \in Versions, NEW b, report # None,
           PM!ClassifyDecision(PM!Failed(v, b)) = "promote"
    PROVE  Verdict(v, b)
<1>1. PM!Failed(v, b) = {}
  BY DEF PM!ClassifyDecision
<1>2. ~PM!StatisticalFailure(v, b)
  BY <1>1 DEF PM!Failed
<1>3. ~PM!RegimeFailure(v, b)
  BY <1>1 DEF PM!Failed
<1> QED BY <1>2, <1>3, VersionsAssumption DEF PM!StatisticalFailure, PM!RegimeFailure, Verdict

\* A step that changes neither the versions nor the commands nor a report there is.
LEMMA PromotionQuiet ==
    ASSUME PromotionInv, UNCHANGED <<status, op, ever, replaced>>, report = None \/ report' = report
    PROVE  PromotionInv'
<1>1. \A v : PM!Baseline(v)' = PM!Baseline(v)
  BY DEF PM!Baseline, PM!WithStatus
<1>2. \A v, b : Verdict(v, b) => Verdict(v, b)'
  BY DEF Verdict
<1>3. PM!DemotedKeepsShadowing'
  BY DEF PromotionInv, PM!DemotedKeepsShadowing, PM!WithStatus, PM!FindActiveShadows
<1> QED BY <1>1, <1>2, <1>3 DEF PromotionInv, AtMostOneActive

\* A step of operator p's command that touches no version.
LEMMA PromotionCommand ==
    ASSUME PromotionInv, NEW p \in Operators, NEW c \in Commands, op' = [op EXCEPT ![p] = c],
           UNCHANGED <<status, report, ever, replaced>>,
           c.at # "idle" => c.v \in Versions,
           c.at = "judged" => c.kind = "promote",
           c.at = "judged" /\ ~c.late => Verdict(c.v, PM!Baseline(c.v)),
           c.at = "tx" /\ ~c.stale => c.old = PM!Baseline(c.v),
           c.at = "tx" /\ ~c.stale /\ c.kind = "promote" /\ ~c.late => Verdict(c.v, c.old)
    PROVE  PromotionInv'
<1>1. \A v : PM!Baseline(v)' = PM!Baseline(v)
  BY DEF PM!Baseline, PM!WithStatus
<1>2. \A v, b : Verdict(v, b)' = Verdict(v, b)
  BY DEF Verdict
<1>3. PM!DemotedKeepsShadowing'
  BY DEF PromotionInv, PM!DemotedKeepsShadowing, PM!WithStatus, PM!FindActiveShadows
<1>4. op' \in [Operators -> Commands] /\ \A q \in Operators : op'[q] = IF q = p THEN c ELSE op[q]
  BY DEF PromotionInv
<1> QED BY <1>1, <1>2, <1>3, <1>4 DEF PromotionInv, AtMostOneActive

\* The commit: the incumbent it demotes is the one there is.
LEMMA PromotionCommit ==
    ASSUME PromotionInv, NEW p \in Operators, PM!Commit(p)
    PROVE  PromotionInv'
<1> DEFINE v == op[p].v
           old == op[p].old
<1>1. /\ op[p].at = "tx" /\ ~op[p].stale /\ op[p] \in Commands /\ v \in Versions
      /\ old = PM!Baseline(v) /\ report' = report
  BY DEF PM!Commit, PM!Conflict, PromotionInv
<1>2. status' = [w \in Versions |-> IF w = v THEN "active" ELSE IF w = old THEN "shadow" ELSE status[w]]
  BY DEF PM!Commit, PM!AfterFlip, PM!Demoted
<1>3. \A w \in Versions : status[w] = "active" => w = v \/ w = old
  BY <1>1, BaselineIs DEF PromotionInv, AtMostOneActive
<1>4. status' \in [Versions -> PM!Statuses] /\ AtMostOneActive'
  <2>1. status' \in [Versions -> PM!Statuses]
    BY <1>2, PromotionTypes DEF PromotionInv
  <2>2. \A w \in Versions : status'[w] = "active" => w = v
    BY <1>2, <1>3
  <2> QED BY <2>1, <2>2 DEF AtMostOneActive
<1>5. PM!DemotedKeepsShadowing'
  <2>1. ever' = ever \cup {v}
    BY DEF PM!Commit
  <2>2. \A w \in ever : w \in Versions /\ status[w] \in {"active", "shadow"}
    BY DEF PromotionInv, PM!DemotedKeepsShadowing, PM!WithStatus, PM!FindActiveShadows
  <2>3. \A w \in ever' : w \in Versions /\ status'[w] \in {"active", "shadow"}
    BY <1>1, <1>2, <1>3, <2>1, <2>2
  <2> QED BY <2>3 DEF PM!DemotedKeepsShadowing, PM!WithStatus, PM!FindActiveShadows
<1>6. op' = [q \in Operators |-> IF q = p THEN PM!Idle
               ELSE [op[q] EXCEPT !.late = @ \/ op[q].at = "judged", !.stale = op[q].at = "tx"]]
  BY DEF PM!Commit, PM!Overtaken
<1>7. ASSUME NEW q \in Operators
      PROVE  /\ op'[q] \in Commands
             /\ op'[q].at # "idle" => op'[q].v \in Versions
             /\ op'[q].at = "judged" => op'[q].kind = "promote" /\ op'[q].late
             /\ op'[q].at = "tx" => op'[q].stale
  <2>1. CASE q = p
    BY <1>6, <2>1, PromotionTypes
  <2>2. CASE q # p
    <3>1. op[q] \in Commands /\ (op[q].at # "idle" => op[q].v \in Versions)
          /\ (op[q].at = "judged" => op[q].kind = "promote")
      BY DEF PromotionInv
    <3>2. op'[q] = [op[q] EXCEPT !.late = @ \/ op[q].at = "judged", !.stale = op[q].at = "tx"]
      BY <1>6, <2>2
    <3> QED BY <3>1, <3>2 DEF Commands
  <2> QED BY <2>1, <2>2
<1>8. op' \in [Operators -> Commands]
  BY <1>6, <1>7
<1>9. (replaced.new # None /\ ~replaced.moved => Verdict(replaced.new, replaced.old))'
  <2>1. \A x, b : Verdict(x, b)' = Verdict(x, b)
    BY <1>1 DEF Verdict
  <2>2. CASE op[p].kind = "promote"
    <3>1. replaced' = [new |-> v, old |-> old, moved |-> op[p].late]
      BY <2>2 DEF PM!Commit
    <3> QED BY <1>1, <2>1, <2>2, <3>1 DEF PromotionInv, Verdict
  <2>3. CASE op[p].kind # "promote"
    BY <2>1, <2>3 DEF PM!Commit, PromotionInv, Verdict
  <2> QED BY <2>2, <2>3
<1> QED BY <1>4, <1>5, <1>7, <1>8, <1>9 DEF PromotionInv

\* Every step of the promotions keeps it.
LEMMA PromotionStep ==
    ASSUME PromotionInv, PM!Next
    PROVE  PromotionInv'
<1>1. ASSUME NEW S, NEW w, NEW r, NEW weak, PM!Compare(S, w, r, weak) PROVE PromotionInv'
  BY <1>1, PromotionQuiet DEF PM!Compare
<1>2. ASSUME NEW pinned, PM!EngineRestarts(pinned) PROVE PromotionInv'
  BY <1>2, PromotionQuiet DEF PM!EngineRestarts
<1>3. ASSUME NEW p \in Operators, NEW v \in Versions, PM!Evaluate(p, v) PROVE PromotionInv'
  <2> DEFINE c == [PM!Idle EXCEPT !.at = "judged", !.kind = "promote", !.v = v]
  <2>1. op' = [op EXCEPT ![p] = c] /\ UNCHANGED <<status, report, ever, replaced>>
    BY <1>3 DEF PM!Evaluate
  <2>2. c \in Commands /\ c.at = "judged" /\ c.kind = "promote" /\ c.v = v
    BY PromotionTypes DEF PM!Idle, Commands
  <2>3. Verdict(v, PM!Baseline(v))
    BY <1>3, PromoteIsVerdict DEF PM!Evaluate, PM!LoadReportArtefact
  <2> HIDE DEF c
  <2> QED BY <2>1, <2>2, <2>3, PromotionCommand
<1>4. ASSUME NEW p \in Operators, NEW v \in Versions, PM!BeginReactivate(p, v) PROVE PromotionInv'
  <2> DEFINE c == [PM!Idle EXCEPT !.at = "tx", !.kind = "reactivate", !.v = v, !.old = PM!Baseline(v)]
  <2>1. op' = [op EXCEPT ![p] = c] /\ UNCHANGED <<status, report, ever, replaced>>
    BY <1>4 DEF PM!BeginReactivate
  <2>2. PM!Baseline(v) \in Versions \cup {None}
    BY BaselineIs
  <2>3. c \in Commands /\ c.at = "tx" /\ c.kind = "reactivate" /\ c.v = v /\ c.old = PM!Baseline(v)
    BY <2>2, PromotionTypes DEF PM!Idle, Commands
  <2> HIDE DEF c
  <2> QED BY <2>1, <2>3, PromotionCommand
<1>5. ASSUME NEW p \in Operators, PM!BeginPromote(p) PROVE PromotionInv'
  <2>1. op[p].at = "judged" /\ op[p] \in Commands /\ UNCHANGED <<status, report, ever, replaced>>
    BY <1>5 DEF PM!BeginPromote, PromotionInv
  <2>2. CASE op' = [op EXCEPT ![p] = PM!Idle]
    BY <2>1, <2>2, PromotionTypes, PromotionCommand
  <2>3. CASE op' = [op EXCEPT ![p].at = "tx", ![p].old = PM!Baseline(op[p].v)]
    <3> DEFINE c == [op[p] EXCEPT !.at = "tx", !.old = PM!Baseline(op[p].v)]
    <3>1. op' = [op EXCEPT ![p] = c]
      BY <2>3 DEF PromotionInv
    <3>2. PM!Baseline(op[p].v) \in Versions \cup {None}
      BY BaselineIs
    <3>3. c \in Commands /\ c.at = "tx" /\ c.v = op[p].v /\ c.old = PM!Baseline(op[p].v)
          /\ c.late = op[p].late /\ c.kind = op[p].kind
      BY <2>1, <3>2 DEF Commands
    <3>4. c.v \in Versions /\ (~c.late => Verdict(c.v, c.old))
      BY <2>1, <3>3 DEF PromotionInv
    <3> HIDE DEF c
    <3> QED BY <2>1, <3>1, <3>3, <3>4, PromotionCommand
  <2> QED BY <1>5, <2>2, <2>3 DEF PM!BeginPromote
<1>6. ASSUME NEW p \in Operators, PM!Abort(p) PROVE PromotionInv'
  BY <1>6, PromotionTypes, PromotionCommand DEF PM!Abort
<1> QED BY <1>1, <1>2, <1>3, <1>4, <1>5, <1>6, PromotionCommit DEF PM!Next

LEMMA PromotionInit ==
    ASSUME PM!Init
    PROVE  PromotionInv
<1>1. AtMostOneActive
  <2> DEFINE A == PM!WithStatus("active")
  <2>1. IsFiniteSet(A) /\ Cardinality(A) <= 1
    BY VersionsAssumption, VersionCount, FS_Subset DEF PM!Init, PM!WithStatus, PM!ConstantsOK
  <2>2. ASSUME NEW v \in Versions, NEW w \in Versions, status[v] = "active", status[w] = "active", v # w
        PROVE  FALSE
    <3>1. {v, w} \subseteq A
      BY <2>2 DEF PM!WithStatus
    <3>2. Cardinality({v, w}) = 2
      <4>1. IsFiniteSet({v}) /\ Cardinality({v}) = 1
        BY FS_Singleton
      <4>2. Cardinality({v} \cup {w}) = 2
        BY <2>2, <4>1, FS_AddElement
      <4>3. {v} \cup {w} = {v, w}
        OBVIOUS
      <4> QED BY <4>2, <4>3
    <3>3. Cardinality({v, w}) <= Cardinality(A)
      BY <2>1, <3>1, FS_Subset
    <3>4. Cardinality(A) \in Nat
      BY <2>1, FS_CardinalityType
    <3> HIDE DEF A
    <3> QED BY <2>1, <3>2, <3>3, <3>4
  <2> QED BY <2>2 DEF AtMostOneActive
<1>2. status \in [Versions -> PM!Statuses] /\ op \in [Operators -> Commands]
      /\ \A p \in Operators : op[p].at = "idle"
  BY PromotionTypes DEF PM!Init
<1>3. PM!DemotedKeepsShadowing
  BY DEF PM!Init, PM!DemotedKeepsShadowing
<1>4. replaced.new = None
  BY DEF PM!Init, PM!NoReplacement
<1> QED BY <1>1, <1>2, <1>3, <1>4 DEF PromotionInv

\* Promote and reactivate commands of any number of operators, in any order,
\* leave one active version per name, lose no version that was active to shadow
\* logging, and promote only over an incumbent that was conclusively beaten,
\* unless another command committed between verdict and transaction.
THEOREM PromotionsAreSound == Spec => []PromotionSound
<1> DEFINE I == part = "promotion" => PromotionInv
<1>1. Init => I
  BY PromotionInit DEF Init
<1>2. I /\ [Next]_vars => I'
  <2> SUFFICES ASSUME I, [Next]_vars, part' = "promotion" PROVE PromotionInv'
    OBVIOUS
  <2>1. CASE Next
    BY <2>1, PromotionStep DEF Next
  <2>2. CASE UNCHANGED vars
    BY <2>2, PromotionQuiet DEF vars, PM!vars
  <2> QED BY <2>1, <2>2
<1>3. I => PromotionSound
  BY FewActive DEF PromotionInv, PromotionSound, PM!PromotedBeatsIncumbent, Verdict
<1> QED BY <1>1, <1>2, <1>3, PTL DEF Spec

-----------------------------------------------------------------------------
(* Counting and extremes.                                                  *)

\* Counting is the same in the instances.
LEMMA Counts ==
    \A S : LL!Cardinality(S) = Cardinality(S) /\ AD!Cardinality(S) = Cardinality(S) /\ BU!Cardinality(S) = Cardinality(S)
BY DEF LL!IsFiniteSet, AD!IsFiniteSet, BU!IsFiniteSet, IsFiniteSet, LL!Cardinality, AD!Cardinality, BU!Cardinality,
   Cardinality

LEMMA HasLeast ==
    ASSUME NEW S \in SUBSET Nat, S # {}
    PROVE  \E m \in S : \A x \in S : m <= x
<1>1. PICK m \in S : \A y \in S : ~ (<<y, m>> \in OpToRel(<, Nat))
  <2> HIDE DEF OpToRel
  <2> QED BY NatLessThanWellFounded, WFMin, Zenon
<1>2. \A y \in S : ~ (y < m)
  BY <1>1 DEF OpToRel
<1> QED BY <1>2

LEMMA HasGreatest ==
    ASSUME NEW S \in SUBSET Nat, S # {}, NEW b \in Nat, \A x \in S : x <= b
    PROVE  \E m \in S : \A x \in S : x <= m
<1> DEFINE T == {b - x : x \in S}
<1>1. T \in SUBSET Nat /\ T # {}
  <2>1. \A x \in S : b - x \in Nat
    OBVIOUS
  <2>2. PICK x \in S : TRUE
    OBVIOUS
  <2>3. b - x \in T
    OBVIOUS
  <2> QED BY <2>1, <2>3
<1>2. PICK d \in T : \A y \in T : d <= y
  BY <1>1, HasLeast
<1>3. PICK m \in S : d = b - m
  BY <1>2
<1>4. ASSUME NEW x \in S PROVE x <= m
  <2>1. b - x \in T
    OBVIOUS
  <2>2. b - m <= b - x
    BY <1>2, <1>3, <2>1
  <2> QED BY <2>2
<1> QED BY <1>4

\* A set of numbered things has a first and, if the numbers are bounded, a last one.
LEMMA HasFirst ==
    ASSUME NEW S, S # {}, \A a \in S : a.n \in Nat
    PROVE  \E a \in S : \A b \in S : a.n <= b.n
<1>1. PICK m \in {a.n : a \in S} : \A x \in {a.n : a \in S} : m <= x
  BY HasLeast
<1> QED BY <1>1

LEMMA HasLast ==
    ASSUME NEW S, S # {}, NEW bound \in Nat, \A a \in S : a.n \in Nat /\ a.n <= bound
    PROVE  \E a \in S : \A b \in S : b.n <= a.n
<1>1. {a.n : a \in S} \in SUBSET Nat /\ {a.n : a \in S} # {} /\ \A x \in {a.n : a \in S} : x <= bound
  OBVIOUS
<1>2. PICK m \in {a.n : a \in S} : \A x \in {a.n : a \in S} : x <= m
  BY <1>1, HasGreatest
<1> QED BY <1>2

\* A part of a finite set is finite and no larger, and one element more counts one more at most.
LEMMA PartCounts ==
    ASSUME NEW S, IsFiniteSet(S), NEW T \in SUBSET S
    PROVE  IsFiniteSet(T) /\ Cardinality(T) \in Nat /\ Cardinality(S) \in Nat /\ Cardinality(T) <= Cardinality(S)
BY FS_Subset, FS_CardinalityType

LEMMA OneMore ==
    ASSUME NEW S, IsFiniteSet(S), NEW x
    PROVE  /\ IsFiniteSet(S \cup {x}) /\ Cardinality(S \cup {x}) \in Nat /\ Cardinality(S) \in Nat
           /\ Cardinality(S \cup {x}) <= Cardinality(S) + 1
           /\ x \notin S => Cardinality(S \cup {x}) = Cardinality(S) + 1
<1>1. IsFiniteSet(S \cup {x}) /\ (Cardinality(S \cup {x}) = IF x \in S THEN Cardinality(S) ELSE Cardinality(S) + 1)
  BY FS_AddElement
<1>2. Cardinality(S) \in Nat /\ Cardinality(S \cup {x}) \in Nat
  BY <1>1, FS_CardinalityType
<1> QED BY <1>1, <1>2

LEMMA OneLess ==
    ASSUME NEW S, IsFiniteSet(S), NEW x \in S
    PROVE  IsFiniteSet(S \ {x}) /\ Cardinality(S \ {x}) = Cardinality(S) - 1 /\ Cardinality(S) \in Nat
BY FS_RemoveElement, FS_CardinalityType

-----------------------------------------------------------------------------
(* Login limits.                                                           *)

Tries == [n : Nat, ip : Ips, at : Nat]

\* The logins let through up to m and counted in the window of key k that m closes.
UpTo(m, k) == {l \in let : k \in LL!Touched(l.ip) /\ l.n <= m.n /\ l.at > m.at - LoginWindow[k[2]]}

\* The strengthening of LimitsHold: a list still holds every login of its window that was let
\* through, so each of them was within the limit of the windows that it ends.
LoginInv ==
    /\ now \in Nat /\ attempts \in Nat
    /\ let \subseteq Tries /\ IsFiniteSet(let)
    /\ \A l \in let : l.n <= attempts /\ l.at <= now
    /\ \A l, m \in let : l.n <= m.n => l.at <= m.at
    /\ \A k \in LL!Keys : IsFiniteSet(seen[k]) /\ IsFiniteSet(sent[k][1]) /\ IsFiniteSet(sent[k][2])
    /\ \A l \in let : \A k \in LL!Touched(l.ip) : l.at > now - LoginWindow[k[2]] => l \in seen[k]
    /\ \A m \in let : \A k \in LL!Touched(m.ip) : Cardinality(UpTo(m, k)) <= LoginLimit[k[2]]

LEMMA TouchedKeys ==
    ASSUME NEW ip \in Ips, NEW k \in LL!Touched(ip)
    PROVE  k \in LL!Keys /\ LoginWindow[k[2]] \in Nat /\ LoginLimit[k[2]] \in Nat
<1>1. k \in {<<ip, "burst">>, <<ip, "sustained">>, <<LL!All, "global">>}
  BY DEF LL!Touched
<1>2. k[2] \in LL!Scopes
  BY <1>1 DEF LL!Scopes
<1>3. k \in LL!Keys
  BY <1>1 DEF LL!Keys
<1> QED BY <1>2, <1>3, LoginAssumption DEF LL!ConstantsOK

LEMMA LoginInitial ==
    ASSUME LL!Init
    PROVE  LoginInv
<1>1. IsFiniteSet({})
  BY FS_EmptySet
<1>2. let = {} /\ now = 0 /\ attempts = 0
      /\ \A k \in LL!Keys : seen[k] = {} /\ sent[k][1] = {} /\ sent[k][2] = {}
  BY DEF LL!Init
<1> QED BY <1>1, <1>2 DEF LoginInv

\* Time passes, or the other limiter is asked.
LEMMA LoginQuiet ==
    ASSUME LoginInv, UNCHANGED <<seen, sent, let, attempts>>, now' \in Nat, now' >= now
    PROVE  LoginInv'
<1>1. \A m, k : UpTo(m, k)' = UpTo(m, k)
  BY DEF UpTo, LL!Touched
<1>2. \A l \in let : \A k \in LL!Touched(l.ip) : l.at > now' - LoginWindow[k[2]] => l \in seen[k]
  <2> SUFFICES ASSUME NEW l \in let, NEW k \in LL!Touched(l.ip), l.at > now' - LoginWindow[k[2]]
               PROVE  l \in seen[k]
    OBVIOUS
  <2>1. l.ip \in Ips /\ l.at \in Nat /\ now \in Nat
    BY DEF LoginInv, Tries
  <2>2. LoginWindow[k[2]] \in Nat
    BY <2>1, TouchedKeys
  <2> QED BY <2>1, <2>2 DEF LoginInv
<1>3. \A l \in let : l.at <= now'
  BY DEF LoginInv, Tries
<1> QED BY <1>1, <1>2, <1>3 DEF LoginInv, LL!Touched

\* An attempt: what is let through was counted together with all that its windows hold.
LEMMA LoginAttempt ==
    ASSUME LoginInv, NEW ip \in Ips, LL!Enforce(ip)
    PROVE  LoginInv'
<1> DEFINE this == LL!ThisAttempt(ip)
           s == LL!Recorded(ip)
<1>1. /\ seen' = s /\ attempts' = attempts + 1 /\ now' = now
      /\ sent' = [k \in LL!Keys |-> IF k \in LL!Touched(ip) THEN <<sent[k][2], s[k]>> ELSE sent[k]]
      /\ let' = IF LL!Throttled(ip, s) = {} THEN let \cup {this} ELSE let
  BY DEF LL!Enforce
<1>2. this \in Tries /\ this.n = attempts + 1 /\ this.ip = ip /\ this.at = now
  BY DEF LL!ThisAttempt, LoginInv, Tries
<1>3. ASSUME NEW k \in LL!Keys
      PROVE  LL!Kept[k] \in SUBSET seen[k] /\ \A l \in seen[k] : l.at > now - LoginWindow[k[2]] => l \in LL!Kept[k]
  BY DEF LL!Kept, LL!Collect, LL!Fresh
<1>4. ASSUME NEW k \in LL!Keys
      PROVE  s[k] = IF k \in LL!Touched(ip) THEN LL!Fresh(LL!Kept[k], k[2]) \cup {this} ELSE LL!Kept[k]
  BY DEF LL!Recorded
<1>5. ASSUME NEW k \in LL!Keys PROVE IsFiniteSet(s[k])
  <2>1. IsFiniteSet(LL!Kept[k])
    BY <1>3, PartCounts DEF LoginInv
  <2>2. IsFiniteSet(LL!Fresh(LL!Kept[k], k[2]))
    BY <2>1, PartCounts DEF LL!Fresh
  <2> QED BY <1>4, <2>1, <2>2, OneMore
<1> HIDE DEF this, s
<1>6. ASSUME NEW l \in let, NEW k \in LL!Touched(l.ip), l.at > now - LoginWindow[k[2]] PROVE l \in s[k]
  <2>1. k \in LL!Keys /\ l \in seen[k]
    BY <1>6, TouchedKeys DEF LoginInv, Tries
  <2>2. l \in LL!Kept[k]
    BY <1>3, <1>6, <2>1
  <2> QED BY <1>4, <1>6, <2>1, <2>2 DEF LL!Fresh
<1>7. ASSUME NEW k \in LL!Touched(ip) PROVE this \in s[k]
  BY <1>4, TouchedKeys
<1>8. \A l \in let' : l \in let \/ (l = this /\ LL!Throttled(ip, s) = {})
  BY <1>1
<1>9. let' \subseteq Tries /\ IsFiniteSet(let')
  BY <1>1, <1>2, OneMore DEF LoginInv
<1>10. \A l \in let' : l.n <= attempts' /\ l.at <= now'
  BY <1>1, <1>2, <1>8 DEF LoginInv, Tries
<1>11. \A l, m \in let' : l.n <= m.n => l.at <= m.at
  BY <1>2, <1>8 DEF LoginInv, Tries
<1>12. \A k \in LL!Keys : IsFiniteSet(seen'[k]) /\ IsFiniteSet(sent'[k][1]) /\ IsFiniteSet(sent'[k][2])
  BY <1>1, <1>5 DEF LoginInv
<1>13. \A l \in let' : \A k \in LL!Touched(l.ip) : l.at > now - LoginWindow[k[2]] => l \in s[k]
  BY <1>2, <1>6, <1>7, <1>8
<1>14. ASSUME NEW m \in let', NEW k \in LL!Touched(m.ip)
       PROVE  Cardinality(UpTo(m, k)') <= LoginLimit[k[2]]
  <2>1. UpTo(m, k)' = {l \in let' : k \in LL!Touched(l.ip) /\ l.n <= m.n /\ l.at > m.at - LoginWindow[k[2]]}
    BY DEF UpTo, LL!Touched
  <2>2. CASE m \in let
    <3>1. m.n <= attempts /\ m.n \in Nat
      BY <2>2 DEF LoginInv, Tries
    <3>2. UpTo(m, k)' = UpTo(m, k)
      BY <1>1, <1>2, <1>8, <2>1, <3>1 DEF UpTo, LoginInv
    <3> QED BY <2>2, <3>2 DEF LoginInv
  <2>3. CASE m = this /\ LL!Throttled(ip, s) = {}
    <3>1. k \in LL!Touched(ip) /\ k \in LL!Keys /\ LoginLimit[k[2]] \in Nat
      BY <1>2, <2>3, TouchedKeys
    <3>2. UpTo(m, k)' \in SUBSET s[k]
      BY <1>2, <1>6, <1>7, <1>8, <2>1, <2>3
    <3>3. ~(Cardinality(s[k]) > LoginLimit[k[2]])
      BY <2>3, <3>1, Counts DEF LL!Throttled
    <3>4. IsFiniteSet(s[k])
      BY <1>5, <3>1
    <3> QED BY <3>1, <3>2, <3>3, <3>4, PartCounts
  <2> QED BY <1>8, <2>2, <2>3
<1>15. \A l \in let' : \A k \in LL!Touched(l.ip) : l.at > now' - LoginWindow[k[2]] => l \in seen'[k]
  BY <1>1, <1>13
<1>16. now' \in Nat /\ attempts' \in Nat
  BY <1>1 DEF LoginInv
<1> QED BY <1>9, <1>10, <1>11, <1>12, <1>14, <1>15, <1>16 DEF LoginInv, LL!Touched

LEMMA LoginRestart ==
    ASSUME LoginInv, LL!Restart
    PROVE  LoginInv'
<1>1. let' = {} /\ UNCHANGED <<now, attempts>>
  BY DEF LL!Restart
<1>2. \A k \in LL!Keys : IsFiniteSet(seen'[k]) /\ IsFiniteSet(sent'[k][1]) /\ IsFiniteSet(sent'[k][2])
  <2>0. IsFiniteSet({})
    BY FS_EmptySet
  <2>1. CASE seen' = [k \in LL!Keys |-> {}] /\ UNCHANGED sent
    BY <2>0, <2>1 DEF LoginInv
  <2>2. ASSUME NEW w \in LL!Rows, seen' = [k \in LL!Keys |-> LL!Hydrated(sent[k][w[k]])],
               sent' = [k \in LL!Keys |-> <<{}, sent[k][w[k]]>>]
        PROVE  \A k \in LL!Keys : IsFiniteSet(seen'[k]) /\ IsFiniteSet(sent'[k][1]) /\ IsFiniteSet(sent'[k][2])
    <3> SUFFICES ASSUME NEW k \in LL!Keys
                 PROVE  IsFiniteSet(seen'[k]) /\ IsFiniteSet(sent'[k][1]) /\ IsFiniteSet(sent'[k][2])
      OBVIOUS
    <3>1. w[k] \in {1, 2}
      BY DEF LL!Rows
    <3>2. IsFiniteSet(sent[k][w[k]])
      BY <3>1 DEF LoginInv
    <3>3. LL!Hydrated(sent[k][w[k]]) \in SUBSET sent[k][w[k]]
      BY DEF LL!Hydrated
    <3> QED BY <2>0, <2>2, <3>2, <3>3, PartCounts
  <2> QED BY <2>1, <2>2 DEF LL!Restart
<1>3. IsFiniteSet({})
  BY FS_EmptySet
<1> QED BY <1>1, <1>2, <1>3 DEF LoginInv

\* The last login in a window closes a window within its limit.
LEMMA WindowsHeld ==
    ASSUME LoginInv
    PROVE  LL!LimitsHold
<1>1. ASSUME NEW t \in Nat, NEW k, NEW ips, NEW scope \in LL!Scopes, k[2] = scope,
             \A l \in let : l.ip \in ips <=> k \in LL!Touched(l.ip)
      PROVE  LL!Passed(let, ips, t, scope) <= LoginLimit[scope]
  <2> DEFINE S == {a \in let : a.ip \in ips /\ a.at <= t /\ a.at > t - LoginWindow[scope]}
  <2>0. LoginLimit[scope] \in Nat /\ LoginWindow[scope] \in Nat
    BY LoginAssumption DEF LL!ConstantsOK
  <2>1. LL!Passed(let, ips, t, scope) = Cardinality(S)
    BY Counts DEF LL!Passed
  <2>2. CASE S = {}
    <3>1. Cardinality(S) = 0
      BY <2>2, FS_EmptySet
    <3> QED BY <2>0, <2>1, <3>1
  <2>3. CASE S # {}
    <3>0. attempts \in Nat /\ \A a \in S : a.n \in Nat /\ a.n <= attempts
      BY DEF LoginInv, Tries
    <3> HIDE DEF S
    <3>1. PICK m \in S : \A b \in S : b.n <= m.n
      BY <2>3, <3>0, HasLast
    <3> USE DEF S
    <3>2. m \in let /\ k \in LL!Touched(m.ip) /\ m.at \in Nat
      BY <1>1 DEF LoginInv, Tries
    <3>3. S \in SUBSET UpTo(m, k)
      BY <1>1, <2>0, <3>1, <3>2 DEF UpTo, LoginInv, Tries
    <3>4. IsFiniteSet(UpTo(m, k))
      BY PartCounts DEF UpTo, LoginInv
    <3>5. Cardinality(UpTo(m, k)) <= LoginLimit[scope]
      BY <1>1, <3>2 DEF LoginInv
    <3> QED BY <2>0, <2>1, <3>3, <3>4, <3>5, PartCounts
  <2> QED BY <2>2, <2>3
<1>2. {"burst", "sustained", "global"} \subseteq LL!Scopes
  BY DEF LL!Scopes
<1>3. ASSUME NEW t \in 0..now, NEW ip \in Ips
      PROVE  /\ LL!Passed(let, {ip}, t, "burst") <= LoginLimit["burst"]
             /\ LL!Passed(let, {ip}, t, "sustained") <= LoginLimit["sustained"]
  <2>1. \A l \in let : l.ip \in {ip} <=> <<ip, "burst">> \in LL!Touched(l.ip)
    BY LoginAssumption DEF LL!Touched
  <2>2. \A l \in let : l.ip \in {ip} <=> <<ip, "sustained">> \in LL!Touched(l.ip)
    BY LoginAssumption DEF LL!Touched
  <2>3. t \in Nat
    BY DEF LoginInv
  <2> QED BY <1>1, <1>2, <2>1, <2>2, <2>3
<1>4. ASSUME NEW t \in 0..now PROVE LL!Passed(let, Ips, t, "global") <= LoginLimit["global"]
  <2>1. \A l \in let : l.ip \in Ips <=> <<LL!All, "global">> \in LL!Touched(l.ip)
    BY DEF LL!Touched, LoginInv, Tries
  <2>2. t \in Nat
    BY DEF LoginInv
  <2> QED BY <1>1, <1>2, <2>1, <2>2
<1> QED BY <1>3, <1>4 DEF LL!LimitsHold, LL!LimitHeld

-----------------------------------------------------------------------------
(* Halt toggles.                                                           *)

\* The strengthening of HaltRetrySuffices: of the toggles counted, one has left the window when
\* the promised time has come.
TogglesInv ==
    /\ now \in Nat /\ IsFiniteSet(toggles) /\ Cardinality(toggles) <= LoginLimit["halt"]
    /\ \A a \in toggles : a.at \in Nat /\ a.n \in Nat
    /\ toggled \in Nat /\ refused \in Int
    /\ refused # LL!Never => \E a \in toggles : a.at + LoginWindow["halt"] <= refused
    /\ broken = FALSE

LEMMA HaltLimits == LoginWindow["halt"] \in Nat /\ LoginLimit["halt"] \in Nat \ {0}
BY LoginAssumption DEF LL!ConstantsOK, LL!Scopes

LEMMA TogglesQuiet ==
    ASSUME TogglesInv, UNCHANGED <<toggles, toggled, refused, broken>>, now' \in Nat
    PROVE  TogglesInv'
BY DEF TogglesInv, LL!Never

LEMMA ToggleEnforced ==
    ASSUME TogglesInv, LL!EnforceToggle
    PROVE  TogglesInv'
<1> DEFINE s == LL!Fresh(toggles, "halt")
           this == [n |-> toggled + 1, at |-> now]
<1>1. /\ toggles' = LL!AfterToggle(s) /\ toggled' = toggled + 1 /\ now' = now
      /\ refused' = IF LL!Cardinality(s) < LoginLimit["halt"] THEN LL!Never ELSE LL!RetryAt(s)
      /\ broken' = (broken \/ (~(LL!Cardinality(s) < LoginLimit["halt"]) /\ refused # LL!Never /\ now >= refused))
  BY DEF LL!EnforceToggle
<1>2. s \in SUBSET toggles /\ \A a \in toggles : a \in s <=> a.at > now - LoginWindow["halt"]
  BY DEF LL!Fresh
<1> HIDE DEF s
<1>3. IsFiniteSet(s) /\ Cardinality(s) \in Nat /\ Cardinality(s) <= LoginLimit["halt"]
  BY <1>2, HaltLimits, PartCounts DEF TogglesInv
<1>4. LL!Cardinality(s) = Cardinality(s)
  BY Counts
<1>5. CASE Cardinality(s) < LoginLimit["halt"]
  <2>1. toggles' = s \cup {this} /\ refused' = LL!Never /\ broken' = FALSE
    BY <1>1, <1>4, <1>5 DEF LL!AfterToggle, TogglesInv
  <2>2. IsFiniteSet(toggles') /\ Cardinality(toggles') <= LoginLimit["halt"]
    <3> HIDE DEF this
    <3>1. IsFiniteSet(s \cup {this}) /\ Cardinality(s \cup {this}) \in Nat
          /\ Cardinality(s \cup {this}) <= Cardinality(s) + 1
      BY <1>3, OneMore
    <3> QED BY <1>3, <1>5, <2>1, <3>1, HaltLimits
  <2>3. \A a \in toggles' : a.at \in Nat /\ a.n \in Nat
    BY <1>2, <2>1 DEF TogglesInv
  <2> QED BY <1>1, <2>1, <2>2, <2>3 DEF TogglesInv, LL!Never
<1>6. CASE ~(Cardinality(s) < LoginLimit["halt"])
  <2>1. toggles' = s /\ refused' = LL!RetryAt(s)
    BY <1>1, <1>4, <1>6 DEF LL!AfterToggle
  <2>2. s # {}
    BY <1>3, <1>6, HaltLimits, FS_EmptySet
  <2>3. \E a \in s : LL!RetryAt(s) = a.at + LoginWindow["halt"]
    <3>1. \E a \in s : \A b \in s : a.n <= b.n
      BY <1>2, <2>2, HasFirst DEF TogglesInv
    <3> QED BY <3>1 DEF LL!RetryAt
  <2>4. ~(refused # LL!Never /\ now >= refused)
    <3> SUFFICES ASSUME refused # LL!Never, now >= refused PROVE FALSE
      OBVIOUS
    <3>1. PICK a \in toggles : a.at + LoginWindow["halt"] <= refused
      BY DEF TogglesInv
    <3>2. a \notin s
      BY <1>2, <3>1, HaltLimits DEF TogglesInv
    <3>3. s \in SUBSET (toggles \ {a})
      BY <1>2, <3>2
    <3>4. Cardinality(s) <= Cardinality(toggles) - 1 /\ Cardinality(toggles) \in Nat
      <4>1. IsFiniteSet(toggles \ {a}) /\ Cardinality(toggles \ {a}) = Cardinality(toggles) - 1
            /\ Cardinality(toggles) \in Nat
        BY OneLess DEF TogglesInv
      <4>2. Cardinality(s) <= Cardinality(toggles \ {a})
        BY <3>3, <4>1, PartCounts
      <4> QED BY <4>1, <4>2
    <3> QED BY <1>3, <1>6, <3>4, HaltLimits DEF TogglesInv
  <2>5. broken' = FALSE
    BY <1>1, <2>4 DEF TogglesInv
  <2>6. \A a \in s : a.at \in Nat /\ a.n \in Nat
    BY <1>2 DEF TogglesInv
  <2>7. refused' \in Int /\ \E a \in s : a.at + LoginWindow["halt"] <= refused'
    BY <2>1, <2>3, <2>6, HaltLimits
  <2> QED BY <1>1, <1>3, <2>1, <2>5, <2>6, <2>7 DEF TogglesInv
<1> QED BY <1>5, <1>6

LEMMA TogglesInitial ==
    ASSUME LL!Init
    PROVE  TogglesInv
BY HaltLimits, FS_EmptySet DEF LL!Init, TogglesInv, LL!Never

LEMMA LimitsStep ==
    ASSUME LoginInv, TogglesInv, LL!Next
    PROVE  LoginInv' /\ TogglesInv'
<1>1. ASSUME NEW ip \in Ips, LL!Enforce(ip) PROVE LoginInv' /\ TogglesInv'
  <2>1. TogglesInv'
    BY <1>1, TogglesQuiet DEF LL!Enforce, LL!halt, TogglesInv
  <2> QED BY <1>1, <2>1, LoginAttempt
<1>2. ASSUME LL!EnforceToggle PROVE LoginInv' /\ TogglesInv'
  <2>1. LoginInv'
    BY <1>2, LoginQuiet DEF LL!EnforceToggle, LL!login, LoginInv
  <2> QED BY <1>2, <2>1, ToggleEnforced
<1>3. ASSUME LL!Restart PROVE LoginInv' /\ TogglesInv'
  <2>1. toggles' = {} /\ refused' = LL!Never /\ UNCHANGED <<now, toggled, broken>>
    BY <1>3 DEF LL!Restart
  <2>2. TogglesInv'
    BY <2>1, HaltLimits, FS_EmptySet DEF TogglesInv, LL!Never
  <2> QED BY <1>3, <2>2, LoginRestart
<1>4. ASSUME LL!Tick PROVE LoginInv' /\ TogglesInv'
  BY <1>4, LoginQuiet, TogglesQuiet DEF LL!Tick, LL!login, LL!halt, LoginInv
<1> QED BY <1>1, <1>2, <1>3, <1>4 DEF LL!Next

-----------------------------------------------------------------------------
(* Alerts.                                                                 *)

\* The alerts up to m in the window that m closes.
Before(m) == {a \in log : a.n <= m.n /\ a.at > m.at - AlertWindow}

Buckets == [firstAt : Nat, count : Nat]

AlertsTyped ==
    /\ now \in Nat /\ alerts \in Nat /\ IsFiniteSet(log) /\ recent \subseteq log
    /\ \A a \in log : a.n \in Nat /\ a.at \in Nat /\ a.n <= alerts /\ a.at <= now
    /\ \A a, b \in log : (a.n <= b.n => a.at <= b.at) /\ (a.n = b.n => a = b)
    /\ bucket \in [AlertKeys -> Buckets \cup {None}]

\* An alert leaves the count when its window is over, or pushed out by a critical one: then the
\* count is full, of later ones.
PushedOut ==
    /\ Cardinality(recent) <= Ceiling
    /\ \A a \in log \ recent :
          a.at <= now - AlertWindow \/ (Cardinality(recent) = Ceiling /\ \A b \in recent : a.n < b.n)

\* An alert that is not critical found room when it was let through.
RoomFound == \A m \in log : ~m.critical => Cardinality(Before(m)) <= Ceiling

\* A bucket is no older than the alerts of its key, whichever of them restarted it.
BucketsNew == \A a \in log : a.key \in AlertKeys => bucket[a.key] # None /\ bucket[a.key].firstAt >= a.at

AlertsInv == AlertsTyped /\ PushedOut /\ RoomFound /\ BucketsNew /\ AD!OnePerCoalesceWindow

LEMMA AlertLimits ==
    /\ Coalesce \in Nat /\ AlertWindow \in Nat /\ Ceiling \in Nat \ {0} /\ None \notin AlertKeys
    /\ None \notin Buckets
BY AlertAssumption DEF AD!ConstantsOK, Buckets

LEMMA AlertsInitial ==
    ASSUME AD!Init
    PROVE  AlertsInv
<1>1. Cardinality({}) = 0 /\ IsFiniteSet({})
  BY FS_EmptySet
<1>2. log = {} /\ recent = {} /\ now = 0 /\ alerts = 0 /\ bucket = [k \in AlertKeys |-> None]
  BY DEF AD!Init
<1> QED BY <1>1, <1>2, AlertLimits
    DEF AlertsInv, AlertsTyped, PushedOut, RoomFound, BucketsNew, AD!OnePerCoalesceWindow

\* What remains of the count when the expired ones are gone still meets PushedOut, and when there
\* is room it holds the whole window.
LEMMA UnexpiredCounts ==
    ASSUME AlertsInv
    PROVE  /\ AD!Unexpired \subseteq recent /\ IsFiniteSet(AD!Unexpired)
           /\ Cardinality(AD!Unexpired) \in Nat /\ Cardinality(AD!Unexpired) <= Ceiling
           /\ \A a \in log \ AD!Unexpired :
                 \/ a.at <= now - AlertWindow
                 \/ Cardinality(AD!Unexpired) = Ceiling /\ \A b \in AD!Unexpired : a.n < b.n
<1> DEFINE u == AD!Unexpired
<1>1. u \in SUBSET recent /\ \A a \in recent : a \in u <=> a.at > now - AlertWindow
  BY DEF AD!Unexpired
<1> HIDE DEF u
<1>2. IsFiniteSet(recent) /\ Cardinality(recent) \in Nat /\ Cardinality(recent) <= Ceiling
  BY PartCounts DEF AlertsInv, AlertsTyped, PushedOut
<1>3. IsFiniteSet(u) /\ Cardinality(u) \in Nat /\ Cardinality(u) <= Ceiling
  BY <1>1, <1>2, PartCounts, AlertLimits
<1>4. ASSUME NEW a \in log \ u, a.at > now - AlertWindow
      PROVE  Cardinality(u) = Ceiling /\ \A b \in u : a.n < b.n
  <2>1. a \notin recent
    BY <1>1, <1>4
  <2>2. Cardinality(recent) = Ceiling /\ \A b \in recent : a.n < b.n
    BY <1>4, <2>1, AlertLimits DEF AlertsInv, AlertsTyped, PushedOut
  <2>3. ASSUME NEW b \in recent PROVE b \in u
    <3>1. a.n <= b.n /\ b \in log /\ a.n \in Nat /\ b.n \in Nat /\ a.at \in Nat /\ b.at \in Nat /\ now \in Nat
      BY <2>2 DEF AlertsInv, AlertsTyped
    <3>2. a.at <= b.at
      BY <3>1 DEF AlertsInv, AlertsTyped
    <3> QED BY <1>1, <1>4, <3>1, <3>2, AlertLimits
  <2>4. u = recent
    BY <1>1, <2>3
  <2> QED BY <2>2, <2>4
<1>5. \A a \in log \ u : a.at \in Nat /\ now \in Nat
  BY DEF AlertsInv, AlertsTyped
<1> QED BY <1>1, <1>3, <1>4, <1>5, AlertLimits DEF u

\* The log unchanged, the count is what has not expired.
LEMMA AlertsCounted ==
    ASSUME AlertsInv, UNCHANGED <<now, log>>, recent' = AD!Unexpired, alerts' = alerts + 1,
           bucket' \in [AlertKeys -> Buckets \cup {None}],
           \A k \in AlertKeys :
              bucket[k] # None => bucket'[k] # None /\ bucket'[k].firstAt \in {bucket[k].firstAt, now}
    PROVE  AlertsInv'
<1>1. AlertsTyped'
  BY UnexpiredCounts DEF AlertsInv, AlertsTyped
<1>2. PushedOut'
  BY UnexpiredCounts DEF PushedOut
<1>3. RoomFound'
  BY DEF AlertsInv, RoomFound, Before
<1>4. BucketsNew'
  <2> SUFFICES ASSUME NEW a \in log, a.key \in AlertKeys
               PROVE  bucket'[a.key] # None /\ bucket'[a.key].firstAt >= a.at
    BY DEF BucketsNew
  <2>1. bucket[a.key] # None /\ bucket[a.key].firstAt >= a.at /\ a.at \in Nat
    BY DEF AlertsInv, AlertsTyped, BucketsNew
  <2>2. bucket'[a.key] # None /\ bucket'[a.key].firstAt \in {bucket[a.key].firstAt, now}
    BY <2>1
  <2>3. now >= a.at
    BY DEF AlertsInv, AlertsTyped
  <2> QED BY <2>1, <2>2, <2>3
<1>5. AD!OnePerCoalesceWindow'
  BY DEF AlertsInv, AD!OnePerCoalesceWindow
<1> QED BY <1>1, <1>2, <1>3, <1>4, <1>5 DEF AlertsInv

\* A new bucket of a key is no older than the one it takes the place of.
LEMMA BucketRenewed ==
    ASSUME AlertsInv, NEW k \in AlertKeys
    PROVE  /\ AD!NewBucket \in Buckets /\ AD!NewBucket # None /\ AD!NewBucket.firstAt = now
           /\ [bucket EXCEPT ![k] = AD!NewBucket] \in [AlertKeys -> Buckets \cup {None}]
<1>1. AD!NewBucket \in Buckets /\ AD!NewBucket.firstAt = now
  BY DEF AD!NewBucket, Buckets, AlertsInv, AlertsTyped
<1> QED BY <1>1, AlertLimits DEF AlertsInv, AlertsTyped

LEMMA AlertFolded ==
    ASSUME AlertsInv, alerts' = alerts + 1, UNCHANGED now, NEW k \in AlertKeys \cup {None}, AD!Fold(k)
    PROVE  AlertsInv'
<1>1. /\ k \in AlertKeys /\ bucket[k] # None
      /\ bucket' = [bucket EXCEPT ![k].count = @ + 1] /\ recent' = AD!Unexpired /\ log' = log
  BY DEF AD!Fold, AD!Folded, AD!Repeats
<1>2. bucket[k] \in Buckets /\ bucket[k].count \in Nat
  BY <1>1 DEF AlertsInv, AlertsTyped, Buckets
<1>3. [bucket[k] EXCEPT !.count = @ + 1] \in Buckets /\ [bucket[k] EXCEPT !.count = @ + 1].firstAt = bucket[k].firstAt
  BY <1>2 DEF Buckets
<1>4. bucket' = [bucket EXCEPT ![k] = [bucket[k] EXCEPT !.count = @ + 1]]
  BY <1>1
<1>5. bucket' \in [AlertKeys -> Buckets \cup {None}]
  BY <1>3, <1>4 DEF AlertsInv, AlertsTyped
<1>6. \A j \in AlertKeys :
         bucket[j] # None => bucket'[j] # None /\ bucket'[j].firstAt \in {bucket[j].firstAt, now}
  BY <1>3, <1>4, AlertLimits DEF AlertsInv, AlertsTyped
<1> QED BY <1>1, <1>5, <1>6, AlertsCounted

LEMMA AlertDropped ==
    ASSUME AlertsInv, alerts' = alerts + 1, UNCHANGED now, NEW k \in AlertKeys \cup {None}, AD!Drop(k)
    PROVE  AlertsInv'
<1>1. recent' = AD!Unexpired /\ log' = log /\ bucket' = IF k = None THEN bucket ELSE [bucket EXCEPT ![k] = AD!NewBucket]
  BY DEF AD!Drop, AD!Passed
<1>2. bucket' \in [AlertKeys -> Buckets \cup {None}]
  BY <1>1, BucketRenewed DEF AlertsInv, AlertsTyped
<1>3. \A j \in AlertKeys :
         bucket[j] # None => bucket'[j] # None /\ bucket'[j].firstAt \in {bucket[j].firstAt, now}
  BY <1>1, BucketRenewed DEF AlertsInv, AlertsTyped
<1> QED BY <1>1, <1>2, <1>3, AlertsCounted

\* Room is made for a critical alert at the cost of the oldest one counted.
LEMMA RoomMade ==
    ASSUME AlertsInv, NEW critical \in BOOLEAN, Cardinality(AD!Room(critical)) < Ceiling
    PROVE  /\ AD!Room(critical) \subseteq recent /\ IsFiniteSet(AD!Room(critical))
           /\ Cardinality(AD!Room(critical)) \in Nat
           /\ \A a \in log \ AD!Room(critical) :
                 \/ a.at <= now - AlertWindow
                 \/ /\ critical /\ Cardinality(AD!Room(critical)) = Ceiling - 1
                    /\ \A b \in AD!Room(critical) : a.n < b.n
<1> DEFINE u == AD!Unexpired
<1>1. /\ u \in SUBSET recent /\ IsFiniteSet(u) /\ Cardinality(u) \in Nat /\ Cardinality(u) <= Ceiling
      /\ \A a \in log \ u : a.at <= now - AlertWindow \/ (Cardinality(u) = Ceiling /\ \A b \in u : a.n < b.n)
  BY UnexpiredCounts
<1>2. AD!Room(critical) = IF critical /\ Cardinality(u) >= Ceiling THEN u \ {AD!Oldest(u)} ELSE u
  BY Counts DEF AD!Room
<1> HIDE DEF u
<1>3. CASE ~(critical /\ Cardinality(u) >= Ceiling)
  BY <1>1, <1>2, <1>3, AlertLimits
<1>4. CASE critical /\ Cardinality(u) >= Ceiling
  <2>1. u # {} /\ \A a \in u : a.n \in Nat /\ a \in log
    BY <1>1, <1>4, AlertLimits, FS_EmptySet DEF AlertsInv, AlertsTyped
  <2>2. \E a \in u : \A b \in u : a.n <= b.n
    BY <2>1, HasFirst
  <2> DEFINE o == AD!Oldest(u)
  <2>3. o \in u /\ \A b \in u : o.n <= b.n
    BY <2>2 DEF AD!Oldest
  <2>4. AD!Room(critical) = u \ {o}
    BY <1>2, <1>4
  <2> HIDE DEF o
  <2>5. IsFiniteSet(u \ {o}) /\ Cardinality(u \ {o}) = Cardinality(u) - 1
    BY <1>1, <2>3, OneLess
  <2>6. Cardinality(u \ {o}) = Ceiling - 1 /\ Cardinality(u \ {o}) \in Nat
    BY <1>1, <1>4, <2>5, AlertLimits, FS_CardinalityType
  <2>7. ASSUME NEW b \in u \ {o} PROVE o.n < b.n
    <3>1. b \in log /\ o \in log /\ b # o /\ o.n <= b.n /\ o.n \in Nat /\ b.n \in Nat
      BY <2>1, <2>3
    <3>2. o.n # b.n
      BY <3>1 DEF AlertsInv, AlertsTyped
    <3> QED BY <3>1, <3>2
  <2>8. \A a \in log \ (u \ {o}) : a = o \/ a \in log \ u
    OBVIOUS
  <2>9. ASSUME NEW a \in log \ (u \ {o})
        PROVE  a.at <= now - AlertWindow \/ \A b \in u \ {o} : a.n < b.n
    BY <1>1, <2>7, <2>8
  <2> QED BY <1>1, <1>4, <2>4, <2>5, <2>6, <2>9
<1> QED BY <1>3, <1>4

\* An alert let through finds the whole window counted, or is critical.
LEMMA AlertAdmitted ==
    ASSUME AlertsInv, alerts' = alerts + 1, UNCHANGED now, NEW k \in AlertKeys \cup {None}, NEW critical \in BOOLEAN,
           AD!Admit(k, critical)
    PROVE  AlertsInv'
<1> DEFINE this == [n |-> alerts + 1, key |-> k, critical |-> critical, at |-> now]
           room == AD!Room(critical)
<1>1. /\ ~AD!Folded(k, critical) /\ Cardinality(room) < Ceiling
      /\ recent' = room \cup {this} /\ log' = log \cup {this}
      /\ bucket' = IF k = None THEN bucket ELSE [bucket EXCEPT ![k] = AD!NewBucket]
  BY Counts DEF AD!Admit
<1>2. /\ room \subseteq recent /\ IsFiniteSet(room) /\ Cardinality(room) \in Nat
      /\ \A a \in log \ room :
            \/ a.at <= now - AlertWindow
            \/ critical /\ Cardinality(room) = Ceiling - 1 /\ \A b \in room : a.n < b.n
  BY <1>1, RoomMade
<1>3. /\ now \in Nat /\ alerts \in Nat /\ recent \subseteq log /\ IsFiniteSet(log)
      /\ \A a \in log : a.n \in Nat /\ a.at \in Nat /\ a.n <= alerts /\ a.at <= now
      /\ \A a, b \in log : (a.n <= b.n => a.at <= b.at) /\ (a.n = b.n => a = b)
  BY DEF AlertsInv, AlertsTyped
<1>4. this.n = alerts + 1 /\ this.key = k /\ this.critical = critical /\ this.at = now
  OBVIOUS
<1> HIDE DEF this, room
<1>5. this \notin log
  BY <1>3, <1>4
<1>6. /\ IsFiniteSet(room \cup {this}) /\ Cardinality(room \cup {this}) = Cardinality(room) + 1
      /\ IsFiniteSet(log \cup {this})
  BY <1>2, <1>3, <1>5, OneMore
<1>7. bucket' \in [AlertKeys -> Buckets \cup {None}]
  BY <1>1, BucketRenewed DEF AlertsInv, AlertsTyped
<1>8. AlertsTyped'
  <2>1. \A a \in log' : a.n \in Nat /\ a.at \in Nat /\ a.n <= alerts' /\ a.at <= now'
    BY <1>1, <1>3, <1>4
  <2>2. \A a, b \in log' : (a.n <= b.n => a.at <= b.at) /\ (a.n = b.n => a = b)
    BY <1>1, <1>3, <1>4
  <2> QED BY <1>1, <1>2, <1>3, <1>6, <1>7, <2>1, <2>2 DEF AlertsTyped
<1>9. PushedOut'
  <2>1. Cardinality(recent') <= Ceiling
    BY <1>1, <1>2, <1>6, AlertLimits
  <2>2. ASSUME NEW a \in log' \ recent', ~(a.at <= now' - AlertWindow)
        PROVE  Cardinality(recent') = Ceiling /\ \A b \in recent' : a.n < b.n
    <3>1. a \in log \ room /\ ~(a.at <= now - AlertWindow)
      BY <1>1, <2>2
    <3>2. Cardinality(room) = Ceiling - 1 /\ \A b \in room : a.n < b.n
      BY <1>2, <3>1
    <3>3. a.n < this.n
      BY <1>3, <1>4, <3>1
    <3> QED BY <1>1, <1>6, <3>2, <3>3, AlertLimits
  <2> QED BY <2>1, <2>2 DEF PushedOut
<1>10. ASSUME NEW m \in log', ~m.critical PROVE Cardinality(Before(m)') <= Ceiling
  <2>1. Before(m)' = {a \in log' : a.n <= m.n /\ a.at > m.at - AlertWindow}
    BY DEF Before
  <2>2. CASE m \in log
    <3>1. Before(m)' = Before(m)
      BY <1>1, <1>3, <1>4, <2>1, <2>2 DEF Before
    <3> QED BY <1>10, <2>2, <3>1 DEF AlertsInv, RoomFound
  <2>3. CASE m = this
    <3>1. ~critical
      BY <1>4, <1>10, <2>3
    <3>2. \A a \in log \ room : a.at <= now - AlertWindow
      BY <1>2, <3>1
    <3>3. Before(m)' \in SUBSET (room \cup {this})
      BY <1>1, <1>3, <1>4, <2>1, <2>3, <3>2, AlertLimits
    <3>4. Cardinality(room \cup {this}) <= Ceiling /\ Cardinality(room \cup {this}) \in Nat
      BY <1>1, <1>2, <1>6, AlertLimits
    <3>5. Cardinality(Before(m)') \in Nat /\ Cardinality(Before(m)') <= Cardinality(room \cup {this})
      BY <1>6, <3>3, PartCounts
    <3> QED BY <3>4, <3>5, AlertLimits
  <2> QED BY <1>1, <2>2, <2>3
<1>11. BucketsNew'
  <2> SUFFICES ASSUME NEW a \in log', a.key \in AlertKeys
               PROVE  bucket'[a.key] # None /\ bucket'[a.key].firstAt >= a.at
    BY DEF BucketsNew
  <2>1. CASE a.key = k
    <3>1. k \in AlertKeys /\ bucket'[k] = AD!NewBucket
      BY <1>1, <2>1, AlertLimits DEF AlertsInv, AlertsTyped
    <3>2. a.at <= now
      BY <1>1, <1>3, <1>4
    <3> QED BY <1>3, <2>1, <3>1, <3>2, BucketRenewed
  <2>2. CASE a.key # k
    <3>1. a \in log
      BY <1>1, <1>4, <2>2
    <3>2. bucket'[a.key] = bucket[a.key]
      BY <1>1, <2>2 DEF AlertsInv, AlertsTyped
    <3> QED BY <3>1, <3>2 DEF AlertsInv, BucketsNew
  <2> QED BY <2>1, <2>2
<1>12. AD!OnePerCoalesceWindow'
  <2> SUFFICES ASSUME NEW a \in log', NEW b \in log', a.n < b.n, a.key = b.key, a.key # None, ~a.critical, ~b.critical
               PROVE  b.at - a.at >= Coalesce
    BY DEF AD!OnePerCoalesceWindow
  <2>1. a \in log
    BY <1>1, <1>3, <1>4
  <2>2. CASE b \in log
    BY <2>1, <2>2 DEF AlertsInv, AD!OnePerCoalesceWindow
  <2>3. CASE b = this
    <3>1. k \in AlertKeys /\ a.key = k /\ ~critical
      BY <1>4, <2>3
    <3>2. bucket[k] # None /\ bucket[k].firstAt >= a.at
      BY <2>1, <3>1 DEF AlertsInv, BucketsNew
    <3>3. ~(now - bucket[k].firstAt < Coalesce)
      BY <1>1, <3>1, <3>2, AlertLimits DEF AD!Folded, AD!Repeats
    <3>4. bucket[k].firstAt \in Nat
      BY <3>1, <3>2 DEF AlertsInv, AlertsTyped, Buckets
    <3> QED BY <1>3, <1>4, <2>1, <2>3, <3>2, <3>3, <3>4, AlertLimits
  <2> QED BY <1>1, <2>2, <2>3
<1> QED BY <1>8, <1>9, <1>10, <1>11, <1>12 DEF AlertsInv, RoomFound

LEMMA AlertsStep ==
    ASSUME AlertsInv, AD!Next
    PROVE  AlertsInv'
<1>1. ASSUME AD!Publish PROVE AlertsInv'
  BY <1>1, AlertFolded, AlertDropped, AlertAdmitted DEF AD!Publish
<1>2. ASSUME UNCHANGED <<recent, bucket, log, alerts>>, now' \in Nat, now' >= now PROVE AlertsInv'
  <2>1. AlertsTyped'
    BY <1>2 DEF AlertsInv, AlertsTyped
  <2>2. PushedOut'
    BY <1>2, AlertLimits DEF AlertsInv, AlertsTyped, PushedOut
  <2>3. RoomFound' /\ BucketsNew' /\ AD!OnePerCoalesceWindow'
    BY <1>2 DEF AlertsInv, RoomFound, Before, BucketsNew, AD!OnePerCoalesceWindow
  <2> QED BY <2>1, <2>2, <2>3 DEF AlertsInv
<1>3. ASSUME AD!Answer PROVE AlertsInv'
  BY <1>2, <1>3 DEF AD!Answer, AD!limiter, AlertsInv, AlertsTyped
<1>4. ASSUME AD!Tick PROVE AlertsInv'
  BY <1>2, <1>4 DEF AD!Tick, AD!limiter, AlertsInv, AlertsTyped
<1> QED BY <1>1, <1>3, <1>4 DEF AD!Next

\* The last alert that is not critical in a window closes a window that found room.
LEMMA AlertsHeld ==
    ASSUME AlertsInv
    PROVE  AD!CeilingHeld /\ AD!OnePerCoalesceWindow
<1>1. ASSUME NEW t \in 0..now
      PROVE  AD!Cardinality({a \in log : AD!Within(a, t) /\ ~a.critical}) <= Ceiling
  <2> DEFINE S == {a \in log : AD!Within(a, t) /\ ~a.critical}
  <2>1. AD!Cardinality(S) = Cardinality(S)
    BY Counts
  <2>2. CASE S = {}
    <3>1. Cardinality(S) = 0
      BY <2>2, FS_EmptySet
    <3> QED BY <2>1, <3>1, AlertLimits
  <2>3. CASE S # {}
    <3>1. alerts \in Nat /\ \A a \in S : a.n \in Nat /\ a.n <= alerts
      BY DEF AlertsInv, AlertsTyped
    <3>2. \A a \in S : a \in log /\ a.at <= t /\ a.at > t - AlertWindow /\ ~a.critical
      BY DEF AD!Within
    <3> HIDE DEF S
    <3>3. PICK m \in S : \A b \in S : b.n <= m.n
      BY <2>3, <3>1, HasLast
    <3>4. t \in Int /\ \A a \in log : a.at \in Nat
      BY DEF AlertsInv, AlertsTyped
    <3>5. S \in SUBSET Before(m)
      BY <3>2, <3>3, <3>4, AlertLimits DEF Before
    <3>6. IsFiniteSet(Before(m))
      BY PartCounts DEF Before, AlertsInv, AlertsTyped
    <3>7. Cardinality(Before(m)) <= Ceiling
      BY <3>2, <3>3 DEF AlertsInv, RoomFound
    <3>8. Cardinality(S) \in Nat /\ Cardinality(Before(m)) \in Nat /\ Cardinality(S) <= Cardinality(Before(m))
      BY <3>5, <3>6, PartCounts
    <3> QED BY <2>1, <3>7, <3>8, AlertLimits DEF S
  <2> QED BY <2>2, <2>3
<1> QED BY <1>1 DEF AD!CeilingHeld, AlertsInv

-----------------------------------------------------------------------------
(* Backups.                                                                *)

\* How many finished dumps are newer than instant t.
MadeAfter(t) == Cardinality({u \in made : u > t})

BackupTyped ==
    /\ now \in Nat /\ stage \in BU!Stages /\ {ticks, alerts, skips, lost, unpruned} \subseteq Nat
    /\ made \subseteq Nat /\ IsFiniteSet(made) /\ \A t \in made : t <= now
    /\ IsFiniteSet(files) /\ expired \subseteq files
    /\ \A f \in files : f.at \in made /\ f.whole
    /\ \A f, g \in files : f.at = g.at => f = g

\* The run under way was started after every dump there is.
Running ==
    /\ stage \in {"preflight", "dump", "rename"} => at \in Nat /\ at <= now /\ \A t \in made : t < at
    /\ stage = "rename" => exit = "ok" /\ flush = "ok"

\* What is gone, and what the prune is about to unlink, has the retention depth before it.
Superseded ==
    /\ \A t \in made : (\E f \in files : f.at = t) \/ MadeAfter(t) >= Retention
    /\ \A f \in expired : MadeAfter(f.at) >= Retention

\* Every finished dump not yet pruned for is one more, and a prune that ends leaves the depth.
Bounded ==
    /\ Cardinality(files) <= Retention + unpruned
    /\ stage = "unlink" => Cardinality(files \ expired) <= Retention

BackupInv == BackupTyped /\ Running /\ Superseded /\ Bounded /\ BU!NoSilentFailure

LEMMA Depth == Retention \in Nat \ {0}
BY BackupAssumption DEF BU!ConstantsOK

LEMMA BackupInitial ==
    ASSUME BU!Init
    PROVE  BackupInv
<1>1. IsFiniteSet({}) /\ Cardinality({}) = 0 /\ BU!Cardinality({}) = 0
  BY FS_EmptySet, Counts
<1>2. /\ now = 0 /\ stage = "idle" /\ expired = {} /\ files = {} /\ made = {}
      /\ ticks = 0 /\ alerts = 0 /\ skips = 0 /\ lost = 0 /\ unpruned = 0
  BY DEF BU!Init
<1>3. BackupTyped
  BY <1>1, <1>2 DEF BackupTyped, BU!Stages
<1>4. Running /\ Superseded
  BY <1>2 DEF Running, Superseded
<1>5. Bounded
  BY <1>1, <1>2, Depth DEF Bounded
<1>6. BU!NoSilentFailure
  BY <1>1, <1>2 DEF BU!NoSilentFailure
<1> QED BY <1>3, <1>4, <1>5, <1>6 DEF BackupInv

\* A file with the retention depth of files before it has it of finished dumps.
LEMMA FilesWereMade ==
    ASSUME BackupTyped, NEW f \in files
    PROVE  /\ Cardinality({g \in files : g.at > f.at}) <= MadeAfter(f.at)
           /\ Cardinality({g \in files : g.at > f.at}) \in Nat /\ MadeAfter(f.at) \in Nat
<1> DEFINE S == {g \in files : g.at > f.at}
           T == {u \in made : u > f.at}
           h == [g \in S |-> g.at]
<1>1. IsFiniteSet(S) /\ IsFiniteSet(T) /\ Cardinality(S) \in Nat /\ Cardinality(T) \in Nat
  BY PartCounts DEF BackupTyped
<1>2. h \in Injection(S, T)
  <2>1. \A g \in S : g.at \in T
    BY DEF BackupTyped
  <2>2. \A a, b \in S : a.at = b.at => a = b
    BY DEF BackupTyped
  <2> HIDE DEF S, T
  <2>3. h \in [S -> T] /\ \A a, b \in S : h[a] = h[b] => a = b
    BY <2>1, <2>2
  <2> HIDE DEF h
  <2> QED BY <2>3 DEF Injection, IsInjective
<1> HIDE DEF S, T, h
<1>3. Cardinality(S) <= Cardinality(T)
  BY <1>1, <1>2, FS_Injection
<1> QED BY <1>1, <1>3 DEF S, T, MadeAfter

\* What is left of the list when the expired are gone is the retention depth.
LEMMA KeptFew ==
    ASSUME BackupTyped
    PROVE  Cardinality(files \ BU!Expired) <= Retention
<1> DEFINE K == files \ BU!Expired
<1>1. \A f \in K : f \in files /\ ~(Cardinality({g \in files : g.at > f.at}) >= Retention)
  BY Counts DEF BU!Expired, BU!Newer
<1>2. IsFiniteSet(K)
  BY PartCounts DEF BackupTyped
<1> HIDE DEF K
<1>3. CASE K = {}
  <2>1. Cardinality(K) = 0
    BY <1>3, FS_EmptySet
  <2> QED BY <2>1, Depth DEF K
<1>4. CASE K # {}
  <2>1. {f.at : f \in K} \in SUBSET Nat /\ {f.at : f \in K} # {}
    <3>1. \A f \in K : f.at \in Nat
      BY <1>1 DEF BackupTyped
    <3> QED BY <1>4, <3>1
  <2>2. PICK t \in {f.at : f \in K} : \A u \in {f.at : f \in K} : t <= u
    BY <2>1, HasLeast
  <2>3. PICK m \in K : m.at = t
    BY <2>2
  <2> DEFINE newer == {g \in files : g.at > m.at}
  <2>4. K \ {m} \in SUBSET newer
    <3> SUFFICES ASSUME NEW g \in K, g # m PROVE g \in files /\ g.at > m.at
      OBVIOUS
    <3>1. m.at <= g.at
      BY <2>2, <2>3
    <3>2. g \in files /\ m \in files /\ g.at \in Nat /\ m.at \in Nat
      BY <1>1 DEF BackupTyped
    <3>3. g.at # m.at
      BY <3>2 DEF BackupTyped
    <3> QED BY <3>1, <3>2, <3>3
  <2>5. IsFiniteSet(newer) /\ Cardinality(newer) \in Nat
    BY PartCounts DEF BackupTyped
  <2>6. ~(Cardinality(newer) >= Retention)
    BY <1>1
  <2> HIDE DEF newer
  <2>7. Cardinality(K \ {m}) = Cardinality(K) - 1 /\ Cardinality(K) \in Nat /\ IsFiniteSet(K \ {m})
    BY <1>2, OneLess
  <2>8. Cardinality(K \ {m}) <= Cardinality(newer)
    BY <2>4, <2>5, PartCounts
  <2> QED BY <2>5, <2>6, <2>7, <2>8, Depth DEF K
<1> QED BY <1>3, <1>4

\* The steps that leave the disk alone, but for a temporary name.
LEMMA DumpsKept ==
    ASSUME BackupInv, UNCHANGED <<files, made, unpruned>>, now' \in Nat, now' >= now,
           expired' \subseteq expired, stage' \in BU!Stages \ {"unlink"},
           {ticks, alerts, skips, lost}' \subseteq Nat, Running', BU!NoSilentFailure'
    PROVE  BackupInv'
<1>1. BackupTyped'
  BY DEF BackupInv, BackupTyped
<1>2. Superseded'
  BY DEF BackupInv, Superseded, MadeAfter
<1>3. Bounded'
  BY DEF BackupInv, Bounded
<1> QED BY <1>1, <1>2, <1>3 DEF BackupInv

LEMMA BackupTick ==
    ASSUME BackupInv, BU!Tick
    PROVE  BackupInv'
<1>1. /\ now' = now + 1 /\ ticks' = ticks + 1 /\ UNCHANGED <<exit, flush, expired, files, made, alerts, lost, unpruned>>
      /\ IF stage = "idle" THEN stage' = "preflight" /\ at' = now + 1 /\ skips' = skips
                           ELSE skips' = skips + 1 /\ stage' = stage /\ at' = at
  BY DEF BU!Tick, BU!disk
<1>2. /\ now \in Nat /\ stage \in BU!Stages /\ {ticks, alerts, skips, lost, unpruned} \subseteq Nat
      /\ made \subseteq Nat /\ \A t \in made : t <= now
  BY DEF BackupInv, BackupTyped
<1>3. Running'
  BY <1>1, <1>2 DEF BackupInv, Running
<1>4. BU!NoSilentFailure'
  <2>1. BU!Cardinality(made) \in Nat
    BY Counts, FS_CardinalityType DEF BackupInv, BackupTyped
  <2> QED BY <1>1, <1>2, <2>1 DEF BackupInv, BU!NoSilentFailure
<1>5. BackupTyped'
  BY <1>1, <1>2, <1>4 DEF BackupInv, BackupTyped, BU!Stages
<1>6. Superseded' /\ Bounded'
  BY <1>1 DEF BackupInv, Superseded, MadeAfter, Bounded
<1> QED BY <1>3, <1>4, <1>5, <1>6 DEF BackupInv

\* The run up to the rename, and what ends it.
LEMMA BackupRuns ==
    ASSUME BackupInv, BU!Preflight \/ BU!Spawn \/ BU!Dump \/ BU!Alert \/ BU!Crash
    PROVE  BackupInv'
<1>1. /\ now \in Nat /\ stage \in BU!Stages /\ {ticks, alerts, skips, lost, unpruned} \subseteq Nat
      /\ BU!Cardinality(made) \in Nat
  BY Counts, FS_CardinalityType DEF BackupInv, BackupTyped
<1>2. CASE BU!Preflight
  BY <1>1, <1>2, DumpsKept
     DEF BU!Preflight, BU!disk, BU!tally, BackupInv, Running, BU!NoSilentFailure, BU!Stages
<1>3. CASE BU!Spawn
  BY <1>1, <1>3, DumpsKept
     DEF BU!Spawn, BU!tally, BackupInv, Running, BU!NoSilentFailure, BU!Stages
<1>4. CASE BU!Dump
  <2>1. /\ stage = "dump" /\ stage' = BU!Settled(exit', flush')
        /\ UNCHANGED <<now, at, expired, files, made, ticks, alerts, skips, lost, unpruned>>
    BY <1>4 DEF BU!Dump, BU!tally
  <2>2. stage' \in {"rename", "alert", "dump"} /\ (stage' = "rename" => exit' = "ok" /\ flush' = "ok")
    BY <2>1 DEF BU!Settled
  <2>3. Running'
    BY <2>1, <2>2 DEF BackupInv, Running
  <2>4. BU!NoSilentFailure'
    BY <1>1, <2>1, <2>2 DEF BackupInv, BU!NoSilentFailure
  <2> QED BY <1>1, <2>1, <2>2, <2>3, <2>4, DumpsKept DEF BU!Stages
<1>5. CASE BU!Alert
  <2>1. /\ stage = "alert" /\ stage' = "idle" /\ alerts' = alerts + 1
        /\ UNCHANGED <<now, expired, files, made, ticks, skips, lost, unpruned>>
    BY <1>5 DEF BU!Alert, BU!Finished, BU!disk
  <2>2. Running' /\ BU!NoSilentFailure'
    BY <1>1, <2>1 DEF BackupInv, Running, BU!NoSilentFailure
  <2> QED BY <1>1, <2>1, <2>2, DumpsKept DEF BU!Stages
<1>6. CASE BU!Crash
  <2>1. /\ stage # "idle" /\ stage' = "idle" /\ expired' = {}
        /\ lost' = lost + (IF stage \in {"list", "unlink"} THEN 0 ELSE 1)
        /\ UNCHANGED <<now, files, made, ticks, alerts, skips, unpruned>>
    BY <1>6 DEF BU!Crash, BU!disk
  <2>2. Running' /\ BU!NoSilentFailure'
    BY <1>1, <2>1 DEF BackupInv, Running, BU!NoSilentFailure, BU!Stages
  <2> QED BY <1>1, <2>1, <2>2, DumpsKept DEF BU!Stages
<1> QED BY <1>2, <1>3, <1>4, <1>5, <1>6

\* The rename makes a dump of an instant that had none.
LEMMA BackupRenamed ==
    ASSUME BackupInv, BU!Rename
    PROVE  BackupInv'
<1> DEFINE f == [at |-> at, whole |-> exit = "ok" /\ flush = "ok"]
<1>1. /\ stage = "rename" /\ stage' = "list" /\ files' = files \cup {f} /\ made' = made \cup {at}
      /\ unpruned' = unpruned + 1 /\ UNCHANGED <<now, expired, ticks, alerts, skips, lost>>
  BY DEF BU!Rename, BU!tally
<1>2. /\ now \in Nat /\ made \subseteq Nat /\ IsFiniteSet(made) /\ IsFiniteSet(files) /\ unpruned \in Nat
      /\ {ticks, alerts, skips, lost} \subseteq Nat /\ \A t \in made : t <= now
      /\ expired \subseteq files /\ \A g \in files : g.at \in made /\ g.whole
      /\ \A g, h \in files : g.at = h.at => g = h
  BY DEF BackupInv, BackupTyped
<1>3. at \in Nat /\ at <= now /\ (\A t \in made : t < at) /\ f.at = at /\ f.whole
  BY <1>1 DEF BackupInv, Running
<1> HIDE DEF f
<1>4. at \notin made
  BY <1>2, <1>3
<1>5. f \notin files
  BY <1>2, <1>3, <1>4
<1>6. /\ IsFiniteSet(made') /\ Cardinality(made') = Cardinality(made) + 1 /\ Cardinality(made) \in Nat
      /\ IsFiniteSet(files') /\ Cardinality(files') = Cardinality(files) + 1 /\ Cardinality(files) \in Nat
  BY <1>1, <1>2, <1>4, <1>5, OneMore
<1>7. BackupTyped'
  <2>1. \A g, h \in files' : g.at = h.at => g = h
    BY <1>1, <1>2, <1>3, <1>4
  <2>2. \A g \in files' : g.at \in made' /\ g.whole
    BY <1>1, <1>2, <1>3
  <2>3. made' \subseteq Nat /\ \A t \in made' : t <= now'
    BY <1>1, <1>2, <1>3
  <2> QED BY <1>1, <1>2, <1>6, <2>1, <2>2, <2>3 DEF BackupTyped, BU!Stages
<1>8. \A t \in made : MadeAfter(t)' \in Nat /\ MadeAfter(t) \in Nat /\ MadeAfter(t)' >= MadeAfter(t)
  <2> SUFFICES ASSUME NEW t \in made
               PROVE  MadeAfter(t)' \in Nat /\ MadeAfter(t) \in Nat /\ MadeAfter(t)' >= MadeAfter(t)
    OBVIOUS
  <2>1. {u \in made : u > t} \in SUBSET {u \in made' : u > t}
    BY <1>1
  <2>2. IsFiniteSet({u \in made' : u > t})
    BY <1>6, PartCounts
  <2> QED BY <2>1, <2>2, PartCounts DEF MadeAfter
<1>9. Superseded'
  <2>1. \A t \in made' : (\E g \in files' : g.at = t) \/ MadeAfter(t)' >= Retention
    BY <1>1, <1>3, <1>8, Depth DEF BackupInv, Superseded
  <2>2. \A g \in expired' : MadeAfter(g.at)' >= Retention
    <3> SUFFICES ASSUME NEW g \in expired PROVE MadeAfter(g.at)' >= Retention
      BY <1>1
    <3>1. g.at \in made /\ MadeAfter(g.at) >= Retention
      BY <1>2 DEF BackupInv, Superseded
    <3> QED BY <1>8, <3>1, Depth
  <2> QED BY <2>1, <2>2 DEF Superseded
<1>10. Running' /\ Bounded'
  BY <1>1, <1>2, <1>6, Depth DEF BackupInv, Running, Bounded
<1>11. BU!NoSilentFailure'
  BY <1>1, <1>2, <1>6, Counts DEF BackupInv, BU!NoSilentFailure
<1> QED BY <1>7, <1>9, <1>10, <1>11 DEF BackupInv

LEMMA BackupListed ==
    ASSUME BackupInv, BU!List
    PROVE  BackupInv'
<1>1. /\ stage = "list" /\ stage' = "unlink" /\ expired' = BU!Expired
      /\ UNCHANGED <<now, files, made, ticks, alerts, skips, lost, unpruned>>
  BY DEF BU!List, BU!disk, BU!tally
<1>2. BackupTyped'
  BY <1>1 DEF BackupInv, BackupTyped, BU!Stages, BU!Expired
<1>3. Superseded'
  <2>1. ASSUME NEW f \in BU!Expired PROVE MadeAfter(f.at) >= Retention
    <3>1. f \in files /\ Cardinality({g \in files : g.at > f.at}) >= Retention
      BY Counts DEF BU!Expired, BU!Newer
    <3> QED BY <3>1, FilesWereMade, Depth DEF BackupInv
  <2> QED BY <1>1, <2>1 DEF BackupInv, Superseded, MadeAfter
<1>4. Bounded'
  BY <1>1, KeptFew DEF BackupInv, Bounded
<1>5. Running' /\ BU!NoSilentFailure'
  BY <1>1 DEF BackupInv, Running, BU!NoSilentFailure
<1> QED BY <1>2, <1>3, <1>4, <1>5 DEF BackupInv

LEMMA BackupUnlinked ==
    ASSUME BackupInv, BU!Unlink
    PROVE  BackupInv'
<1> DEFINE f == CHOOSE f \in expired : \A g \in expired : g.at <= f.at
<1>1. /\ stage = "unlink" /\ expired # {} /\ files' = files \ {f} /\ expired' = expired \ {f}
      /\ UNCHANGED <<now, stage, at, exit, flush, made, ticks, alerts, skips, lost, unpruned>>
  BY DEF BU!Unlink, BU!tally
<1>2. f \in expired
  <2>1. now \in Nat /\ {g.at : g \in expired} \in SUBSET Nat /\ {g.at : g \in expired} # {}
        /\ \A x \in {g.at : g \in expired} : x <= now
    BY <1>1 DEF BackupInv, BackupTyped
  <2>2. PICK t \in {g.at : g \in expired} : \A x \in {g.at : g \in expired} : x <= t
    BY <2>1, HasGreatest
  <2>3. \E g \in expired : \A h \in expired : h.at <= g.at
    BY <2>2
  <2> QED BY <2>3
<1> HIDE DEF f
<1>3. expired \subseteq files /\ IsFiniteSet(files) /\ f \in files
  BY <1>2 DEF BackupInv, BackupTyped
<1>4. IsFiniteSet(files') /\ Cardinality(files') = Cardinality(files) - 1 /\ Cardinality(files) \in Nat
  BY <1>1, <1>3, OneLess
<1>5. files' \ expired' = files \ expired
  BY <1>1, <1>2, <1>3
<1>6. BackupTyped'
  BY <1>1, <1>3, <1>4 DEF BackupInv, BackupTyped
<1>7. Superseded'
  <2>1. \A t : MadeAfter(t)' = MadeAfter(t)
    BY <1>1 DEF MadeAfter
  <2>2. MadeAfter(f.at) >= Retention
    BY <1>2 DEF BackupInv, Superseded
  <2>3. \A t \in made : (\E g \in files' : g.at = t) \/ MadeAfter(t) >= Retention
    BY <1>1, <2>2 DEF BackupInv, Superseded
  <2> QED BY <1>1, <2>1, <2>3 DEF BackupInv, Superseded
<1>8. Bounded'
  <2>1. unpruned \in Nat /\ Cardinality(files) <= Retention + unpruned
        /\ (stage = "unlink" => Cardinality(files \ expired) <= Retention)
    BY DEF BackupInv, BackupTyped, Bounded
  <2>2. Cardinality(files') <= Retention + unpruned
    BY <1>4, <2>1, Depth
  <2> QED BY <1>1, <1>5, <2>1, <2>2 DEF Bounded
<1>9. Running' /\ BU!NoSilentFailure'
  BY <1>1 DEF BackupInv, Running, BU!NoSilentFailure
<1> QED BY <1>6, <1>7, <1>8, <1>9 DEF BackupInv

LEMMA BackupPruned ==
    ASSUME BackupInv, BU!PruneEnds
    PROVE  BackupInv'
<1>1. /\ stage \in {"list", "unlink"} /\ stage' = "idle" /\ expired' = {}
      /\ (stage = "unlink" /\ expired = {} /\ unpruned' = 0) \/ unpruned' = unpruned
      /\ UNCHANGED <<now, files, made, ticks, alerts, skips, lost>>
  BY DEF BU!PruneEnds, BU!Pruned, BU!disk, BU!tally
<1>2. BackupTyped'
  BY <1>1 DEF BackupInv, BackupTyped, BU!Stages
<1>3. Bounded'
  <2>1. CASE unpruned' = unpruned
    BY <1>1, <2>1 DEF BackupInv, Bounded
  <2>2. CASE stage = "unlink" /\ expired = {} /\ unpruned' = 0
    <3>1. files \ expired = files
      BY <2>2
    <3>2. Cardinality(files) <= Retention
      BY <2>2, <3>1 DEF BackupInv, Bounded
    <3> QED BY <1>1, <2>2, <3>2, Depth DEF Bounded
  <2> QED BY <1>1, <2>1, <2>2
<1>4. Superseded' /\ Running'
  BY <1>1 DEF BackupInv, Superseded, MadeAfter, Running
<1>5. BU!NoSilentFailure'
  BY <1>1 DEF BackupInv, BU!NoSilentFailure
<1> QED BY <1>2, <1>3, <1>4, <1>5 DEF BackupInv

LEMMA BackupStep ==
    ASSUME BackupInv, BU!Next
    PROVE  BackupInv'
BY BackupTick, BackupRuns, BackupRenamed, BackupListed, BackupUnlinked, BackupPruned DEF BU!Next

LEMMA DumpsHeld ==
    ASSUME BackupInv
    PROVE  BU!NewestKept /\ BU!RetentionHeld /\ BU!NoSilentFailure
<1>1. ASSUME NEW t \in made, BU!Cardinality({u \in made : u > t}) < Retention PROVE \E f \in files : f.at = t
  <2>1. MadeAfter(t) \in Nat /\ MadeAfter(t) < Retention
    BY <1>1, Counts, PartCounts DEF MadeAfter, BackupInv, BackupTyped
  <2> QED BY <2>1, Depth DEF BackupInv, Superseded
<1>2. BU!NewestKept
  BY <1>1 DEF BU!NewestKept, BackupInv, BackupTyped
<1>3. BU!RetentionHeld
  BY Counts DEF BU!RetentionHeld, BackupInv, Bounded
<1> QED BY <1>2, <1>3 DEF BackupInv

-----------------------------------------------------------------------------
(* The shadow ledger.                                                      *)

ShadowPasses == [at : {"idle", "walk", "update", "evidence", "persist", "open"}, e : SH!Events \cup {None},
                 walk : SH!Events \cup {None}, open : BOOLEAN]

\* What the pass of w gated as open is written or about to be, and what it will open.
Gated(w) == pass[w].at \in {"persist", "open"} /\ pass[w].open
Opening(w) == pass[w].at = "open" /\ pass[w].open /\ pass[w].e \notin processed

ShadowTyped ==
    /\ sameBar \in [SH!Events -> SH!Exits]
    /\ rows \in [SH!Recorded -> SH!Exits \cup {"skip", "unresolved", None}]
    /\ trades \in [SH!Recorded -> SH!Exits \cup {None}]
    /\ pass \in [Workers -> ShadowPasses]
    /\ fed \subseteq SH!Events /\ pending \in SH!Events \cup {None} /\ upgraded \subseteq SH!Events
    /\ halted \in Int /\ halted >= -1 /\ wasHalted \in Int /\ last \in SH!Recorded /\ crashes \in Nat
    /\ overlapped \in BOOLEAN

\* The row of an older release stays as it is; its position is held until it is closed.
LegacyRow ==
    /\ rows[0] \in {"unresolved", None} /\ held \in {0, None}
    /\ rows[0] = None => held = None /\ trades[0] = None
    /\ rows[0] = "unresolved" => held = 0 \/ trades[0] # None
    /\ \A e \in SH!Events : rows[e] # "unresolved"

PassesApart ==
    /\ \A w \in Workers : pass[w].at # "idle" => pass[w].e \in fed
    /\ \A v, w \in Workers : pass[v].at # "idle" /\ pass[w].at # "idle" /\ pass[v].e = pass[w].e => v = w

\* An event is processed once its row is there, but for the one pass between the two.
RowsKnown ==
    /\ SH!TradesHaveRows
    /\ \A e \in SH!Events \ fed : rows[e] # None => e \in processed
    /\ \A w \in Workers : pass[w].at \notin {"idle", "open"} /\ rows[pass[w].e] # None => pass[w].e \in processed
    /\ \A e \in SH!Events : e \in processed => rows[e] # None
    /\ \A e \in SH!Events : e \in processed /\ rows[e] \in SH!Exits => trades[e] # None
    /\ \A e \in SH!Events : rows[e] \in SH!Exits /\ e \notin processed => \E w \in Workers : Opening(w) /\ pass[w].e = e
    /\ \A w \in Workers : Opening(w) => rows[pass[w].e] \in SH!Exits

ForcedRow(e) == e \in SH!Events /\ sameBar[e] = "force_close" /\ rows[e] \in SH!Exits

WalksForced ==
    /\ pending # None => ForcedRow(pending)
    /\ \A w \in Workers : pass[w].at \in {"walk", "update"} => ForcedRow(pass[w].walk)
    /\ \A e \in upgraded : ForcedRow(e) /\ rows[e] # "force_close"

\* What counts against a day's cap or will: its rows that open, and what passes gated.
RowsOn(day) == {e \in SH!Recorded : SH!DayOf(e) = day /\ rows[e] \in SH!Exits \cup {"unresolved"}}
GatedOn(day) == {e \in SH!Events : SH!DayOf(e) = day /\ \E w \in Workers : Gated(w) /\ pass[w].e = e}

CapHeldBack ==
    \A day \in Nat : Cardinality(RowsOn(day) \cup GatedOn(day)) <= MaxTrades + Cardinality(Workers) - 1

\* The ledger of trades t as it was up to event e, and e the trade that armed the halt.
Prefix(t, e) == [f \in SH!Recorded |-> IF f <= e THEN t[f] ELSE None]
ArmedBy(t, e) == t[e] # None /\ SH!LossStreak(SH!DayOf(e), Prefix(t, e)) >= HaltAfter

Steady == ~overlapped /\ upgraded = {} /\ rows[0] = None

\* While Steady, the ledger is the replay of the rows, but for what the one pass is about to open.
HaltKept == Steady =>
    /\ \A v, w \in Workers : pass[v].at # "idle" /\ pass[w].at # "idle" => v = w
    /\ \A e \in SH!Events : trades[e] # None => trades[e] = rows[e]
    /\ \A w \in Workers : Gated(w) => SH!DayOf(pass[w].e) > halted
    /\ \A w \in Workers : Opening(w) => rows[pass[w].e] = sameBar[pass[w].e]
    /\ halted = -1 \/ \E e \in SH!Recorded : ArmedBy(SH!Replayed(rows), e) /\ SH!DayOf(e) = halted
    /\ crashes > 0 => wasHalted <= halted

ShadowInv == ShadowTyped /\ LegacyRow /\ PassesApart /\ RowsKnown /\ WalksForced /\ CapHeldBack /\ HaltKept

LEMMA ShadowCounts == \A S : SH!Cardinality(S) = Cardinality(S)
BY DEF SH!IsFiniteSet, IsFiniteSet, SH!Cardinality, Cardinality

LEMMA ShadowLimits ==
    /\ MaxEvent \in Nat /\ PerDay \in Nat \ {0} /\ MaxTrades \in Nat \ {0}
    /\ IsFiniteSet(Workers) /\ Cardinality(Workers) \in Nat \ {0}
    /\ None \notin Int /\ None \notin {"stop_loss", "take_profit", "force_close", "skip", "unresolved"}
<1>1. IsFiniteSet(Workers) /\ Workers # {}
  BY ShadowAssumption DEF SH!ConstantsOK, SH!IsFiniteSet, IsFiniteSet
<1>2. Cardinality(Workers) \in Nat /\ Cardinality(Workers) # 0
  BY <1>1, FS_CardinalityType, FS_EmptySet
<1> QED BY <1>1, <1>2, ShadowAssumption DEF SH!ConstantsOK

LEMMA ShadowEvents ==
    /\ SH!Recorded \subseteq Nat /\ IsFiniteSet(SH!Recorded) /\ 0 \in SH!Recorded
    /\ SH!Recorded = SH!Events \cup {0} /\ 0 \notin SH!Events /\ None \notin SH!Recorded
    /\ SH!Exits = {"stop_loss", "take_profit", "force_close"} /\ None \notin SH!Exits
    /\ \A e \in SH!Recorded : e <= MaxEvent
<1>1. IsFiniteSet(0..MaxEvent)
  BY ShadowLimits, FS_Interval
<1> QED BY <1>1, ShadowLimits DEF SH!Recorded, SH!Events, SH!Exits

LEMMA ShadowDays ==
    \A e, f \in SH!Recorded : SH!DayOf(e) \in Nat /\ (e <= f => SH!DayOf(e) <= SH!DayOf(f))
<1>1. \A x \in Nat : x \div PerDay \in Nat
  BY ShadowLimits
<1>2. ASSUME NEW x \in Nat, NEW y \in Nat, x <= y PROVE x \div PerDay <= y \div PerDay
  BY <1>2, ShadowLimits
<1>3. \A e \in SH!Recorded : e \in Nat /\ (e # 0 => e - 1 \in Nat)
  BY ShadowEvents
<1> QED BY <1>1, <1>2, <1>3 DEF SH!DayOf

\* Days that saw the same trades have the same streak.
LEMMA SameStreak ==
    ASSUME NEW t, NEW u, NEW day, \A f \in SH!Recorded : SH!DayOf(f) = day => t[f] = u[f]
    PROVE  SH!LossStreak(day, t) = SH!LossStreak(day, u)
<1>1. SH!OpenedOn(day, t) = SH!OpenedOn(day, u)
  BY DEF SH!OpenedOn
<1>2. \A f \in SH!OpenedOn(day, u) : t[f] = u[f]
  BY DEF SH!OpenedOn
<1>3. {e \in SH!OpenedOn(day, t) : t[e] # "force_close"} = {e \in SH!OpenedOn(day, u) : u[e] # "force_close"}
  BY <1>1, <1>2
<1> DEFINE C == {e \in SH!OpenedOn(day, u) : u[e] # "force_close"}
<1>4. {e \in C : t[e] = "take_profit"} = {e \in C : u[e] = "take_profit"}
  BY <1>2
<1> HIDE DEF C
<1> QED BY <1>3, <1>4 DEF SH!LossStreak, C

LEMMA RearmedHalt ==
    ASSUME NEW t
    PROVE  /\ SH!ReplayHalt(t) = -1 \/ \E m \in SH!Recorded : ArmedBy(t, m) /\ SH!ReplayHalt(t) = SH!DayOf(m)
           /\ \A e \in SH!Recorded : ArmedBy(t, e) => SH!DayOf(e) <= SH!ReplayHalt(t)
<1> DEFINE A == {e \in SH!Recorded : ArmedBy(t, e)}
<1>1. SH!ReplayHalt(t) = IF A = {} THEN -1 ELSE SH!DayOf(SH!Max(A))
  BY DEF SH!ReplayHalt, ArmedBy, Prefix
<1>2. CASE A = {}
  BY <1>1, <1>2
<1>3. CASE A # {}
  <2>1. A \in SUBSET Nat /\ \A e \in A : e <= MaxEvent
    BY ShadowEvents
  <2>2. \E m \in A : \A x \in A : x <= m
    BY <1>3, <2>1, ShadowLimits, HasGreatest
  <2>3. \E m \in A : \A x \in A : m >= x
    BY <2>1, <2>2
  <2>4. SH!Max(A) \in A /\ \A x \in A : SH!Max(A) >= x
    BY <2>3, Zenon DEF SH!Max
  <2> DEFINE m == SH!Max(A)
  <2>5. m \in A /\ \A x \in A : x <= m
    BY <2>1, <2>4
  <2> HIDE DEF m
  <2>6. SH!ReplayHalt(t) = SH!DayOf(m)
    BY <1>1, <1>3 DEF m
  <2> QED BY <2>5, <2>6, ShadowDays
<1> QED BY <1>2, <1>3

\* A day whose streak is as long as the halt allows was armed by its last trade.
LEMMA ArmedByLast ==
    ASSUME NEW t, NEW e \in SH!Recorded, t[e] # None, SH!LossStreak(SH!DayOf(e), t) >= HaltAfter
    PROVE  \E m \in SH!Recorded : ArmedBy(t, m) /\ SH!DayOf(m) = SH!DayOf(e)
<1> DEFINE O == {f \in SH!Recorded : t[f] # None /\ SH!DayOf(f) = SH!DayOf(e)}
<1>1. O \in SUBSET Nat /\ O # {} /\ \A f \in O : f <= MaxEvent
  BY ShadowEvents
<1>2. PICK m \in O : \A f \in O : f <= m
  BY <1>1, ShadowLimits, HasGreatest
<1>3. \A f \in SH!Recorded : SH!DayOf(f) = SH!DayOf(e) => Prefix(t, m)[f] = t[f]
  BY <1>2 DEF Prefix
<1>4. SH!LossStreak(SH!DayOf(e), Prefix(t, m)) = SH!LossStreak(SH!DayOf(e), t)
  BY <1>3, SameStreak
<1> QED BY <1>2, <1>4 DEF ArmedBy

LEMMA CapStays ==
    ASSUME CapHeldBack,
           \A day \in Nat : (RowsOn(day) \cup GatedOn(day))' \subseteq RowsOn(day) \cup GatedOn(day)
    PROVE  CapHeldBack'
<1> SUFFICES ASSUME NEW day \in Nat
             PROVE  Cardinality((RowsOn(day) \cup GatedOn(day))') <= MaxTrades + Cardinality(Workers) - 1
  BY DEF CapHeldBack
<1>1. RowsOn(day) \cup GatedOn(day) \subseteq SH!Recorded
  BY ShadowEvents DEF RowsOn, GatedOn
<1>2. IsFiniteSet(RowsOn(day) \cup GatedOn(day))
  BY <1>1, ShadowEvents, FS_Subset
<1>3. /\ Cardinality((RowsOn(day) \cup GatedOn(day))') \in Nat /\ Cardinality(RowsOn(day) \cup GatedOn(day)) \in Nat
      /\ Cardinality((RowsOn(day) \cup GatedOn(day))') <= Cardinality(RowsOn(day) \cup GatedOn(day))
  BY <1>2, PartCounts
<1> QED BY <1>3, ShadowLimits DEF CapHeldBack

LEMMA ShadowQuiet ==
    ASSUME ShadowInv, UNCHANGED SH!vars
    PROVE  ShadowInv'
<1>1. UNCHANGED <<sameBar, rows, trades, held, processed, halted, pending, pass, fed, last, overlapped, upgraded,
                  wasHalted, crashes>>
  BY DEF SH!vars
<1>2. CapHeldBack'
  BY <1>1, CapStays DEF ShadowInv, RowsOn, GatedOn, Gated
<1>3. ShadowTyped' /\ LegacyRow' /\ PassesApart'
  BY <1>1 DEF ShadowInv, ShadowTyped, LegacyRow, PassesApart
<1>4. RowsKnown' /\ WalksForced'
  BY <1>1 DEF ShadowInv, RowsKnown, WalksForced, Opening, ForcedRow, SH!TradesHaveRows
<1>5. HaltKept'
  BY <1>1 DEF ShadowInv, HaltKept, Steady, Gated, Opening
<1> QED BY <1>2, <1>3, <1>4, <1>5 DEF ShadowInv

LEMMA ShadowInitial ==
    ASSUME SH!Init
    PROVE  ShadowInv
<1>1. /\ sameBar \in [SH!Events -> SH!Exits] /\ trades = [e \in SH!Recorded |-> None] /\ halted = -1 /\ pending = None
      /\ pass = [w \in Workers |-> SH!Idle] /\ fed = {} /\ last = 0 /\ overlapped = FALSE /\ upgraded = {}
      /\ wasHalted = -1 /\ crashes = 0
  BY DEF SH!Init
<1>2. PICK legacy \in {"unresolved", None} :
        /\ rows = [e \in SH!Recorded |-> IF e = 0 THEN legacy ELSE None]
        /\ held = (IF legacy = None THEN None ELSE 0) /\ processed = {e \in {0} : legacy # None}
  BY DEF SH!Init
<1>3. SH!Idle \in ShadowPasses /\ SH!Idle.at = "idle"
  BY DEF SH!Idle, ShadowPasses
<1>4. ShadowTyped
  <2>1. rows \in [SH!Recorded -> SH!Exits \cup {"skip", "unresolved", None}]
    BY <1>2
  <2>2. trades \in [SH!Recorded -> SH!Exits \cup {None}] /\ pass \in [Workers -> ShadowPasses]
    BY <1>1, <1>3
  <2>3. halted \in Int /\ halted >= -1 /\ wasHalted \in Int /\ last \in SH!Recorded /\ crashes \in Nat
    BY <1>1, ShadowEvents
  <2>4. overlapped \in BOOLEAN
    BY <1>1
  <2>5. fed \subseteq SH!Events /\ pending \in SH!Events \cup {None} /\ upgraded \subseteq SH!Events
    BY <1>1
  <2> QED BY <1>1, <2>1, <2>2, <2>3, <2>4, <2>5, Zenon DEF ShadowTyped
<1>5. \A w \in Workers : pass[w].at = "idle"
  BY <1>1, <1>3
<1>6. LegacyRow /\ PassesApart
  BY <1>1, <1>2, <1>5, ShadowEvents, ShadowLimits DEF LegacyRow, PassesApart
<1>7. \A e \in SH!Events : rows[e] = None /\ trades[e] = None /\ e \notin processed
  BY <1>1, <1>2, ShadowEvents
<1>8. RowsKnown
  BY <1>5, <1>7, ShadowEvents DEF RowsKnown, Opening, SH!TradesHaveRows
<1>9. WalksForced
  BY <1>1, <1>5 DEF WalksForced
<1>10. CapHeldBack
  <2> SUFFICES ASSUME NEW day \in Nat
               PROVE  Cardinality(RowsOn(day) \cup GatedOn(day)) <= MaxTrades + Cardinality(Workers) - 1
    BY DEF CapHeldBack
  <2>1. RowsOn(day) \cup GatedOn(day) \subseteq {0}
    BY <1>5, <1>7, ShadowEvents, ShadowLimits DEF RowsOn, GatedOn, Gated
  <2>2. IsFiniteSet({0}) /\ Cardinality({0}) = 1
    BY FS_Singleton
  <2>3. Cardinality(RowsOn(day) \cup GatedOn(day)) \in Nat /\ Cardinality(RowsOn(day) \cup GatedOn(day)) <= 1
    BY <2>1, <2>2, PartCounts
  <2> QED BY <2>3, ShadowLimits
<1>11. HaltKept
  BY <1>1, <1>5, <1>7 DEF HaltKept, Gated, Opening
<1> QED BY <1>4, <1>6, <1>8, <1>9, <1>10, <1>11 DEF ShadowInv

\* A restart: what the ledger forgets, the rows give back.
LEMMA ShadowCrash ==
    ASSUME ShadowInv, SH!Crash
    PROVE  ShadowInv'
<1> DEFINE t == SH!Replayed(rows)
           open == IF rows[0] = "unresolved" THEN 0 ELSE None
<1>1. /\ trades' = [t EXCEPT ![0] = IF SH!Stale(open) THEN "force_close" ELSE @]
      /\ held' = IF SH!Stale(open) THEN None ELSE open
      /\ halted' = SH!ReplayHalt(t) /\ processed' = SH!Seed(rows) /\ pending' = None
      /\ pass' = [w \in Workers |-> SH!Idle] /\ fed' = {} /\ crashes' = crashes + 1 /\ wasHalted' = halted
      /\ UNCHANGED <<sameBar, rows, last, overlapped, upgraded>>
  BY DEF SH!Crash, SH!Boot
<1>2. SH!Idle \in ShadowPasses /\ SH!Idle.at = "idle"
  BY DEF SH!Idle, ShadowPasses
<1>3. \A w \in Workers : pass'[w].at = "idle"
  BY <1>1, <1>2
<1>4. t = [e \in SH!Recorded |-> IF rows[e] \in SH!Exits THEN rows[e] ELSE None]
  BY DEF SH!Replayed
<1>5. ~SH!Stale(None)
  BY DEF SH!Stale
<1>6. /\ trades' \in [SH!Recorded -> SH!Exits \cup {None}]
      /\ \A e \in SH!Events : trades'[e] = IF rows[e] \in SH!Exits THEN rows[e] ELSE None
      /\ trades'[0] = IF SH!Stale(open) THEN "force_close" ELSE IF rows[0] \in SH!Exits THEN rows[0] ELSE None
  BY <1>1, <1>4, ShadowEvents
<1>7. /\ halted' = -1 \/ \E m \in SH!Recorded : ArmedBy(t, m) /\ halted' = SH!DayOf(m)
      /\ \A e \in SH!Recorded : ArmedBy(t, e) => SH!DayOf(e) <= halted'
  BY <1>1, RearmedHalt
<1>8. halted' \in Int /\ halted' >= -1
  BY <1>7, ShadowDays
<1>9. processed' = {e \in SH!Recorded : rows[e] # None}
  BY <1>1 DEF SH!Seed
<1> HIDE DEF t
<1>10. ShadowTyped'
  BY <1>1, <1>2, <1>6, <1>8 DEF ShadowInv, ShadowTyped
<1>11. LegacyRow'
  BY <1>1, <1>5, <1>6, ShadowEvents DEF ShadowInv, LegacyRow
<1>12. PassesApart'
  BY <1>3 DEF PassesApart
<1>13. RowsKnown'
  BY <1>1, <1>3, <1>6, <1>9, ShadowEvents DEF RowsKnown, Opening, SH!TradesHaveRows
<1>14. WalksForced'
  BY <1>1, <1>3 DEF ShadowInv, WalksForced, ForcedRow
<1>15. CapHeldBack'
  BY <1>1, <1>3, CapStays DEF ShadowInv, RowsOn, GatedOn, Gated
<1>16. HaltKept'
  <2> SUFFICES ASSUME Steady' PROVE HaltKept'
    BY DEF HaltKept
  <2>1. Steady /\ SH!Replayed(rows)' = t
    BY <1>1 DEF Steady, t
  <2>2. \A e \in SH!Events : trades'[e] # None => trades'[e] = rows'[e]
    BY <1>1, <1>6
  <2>3. halted' = -1 \/ \E e \in SH!Recorded : ArmedBy(t, e) /\ SH!DayOf(e) = halted'
    BY <1>7
  <2>4. halted = -1 \/ \E e \in SH!Recorded : ArmedBy(t, e) /\ SH!DayOf(e) = halted
    BY <2>1 DEF ShadowInv, HaltKept, t
  <2>5. wasHalted' <= halted'
    BY <1>1, <1>7, <1>8, <2>4
  <2>6. \A w \in Workers : ~Gated(w)' /\ ~Opening(w)'
    BY <1>3 DEF Gated, Opening
  <2>7. \A v, w \in Workers : ~(pass'[v].at # "idle")
    BY <1>3
  <2> QED BY <2>1, <2>2, <2>3, <2>5, <2>6, <2>7 DEF HaltKept, ArmedBy
<1> QED BY <1>10, <1>11, <1>12, <1>13, <1>14, <1>15, <1>16 DEF ShadowInv

\* A pass that changes only its stage, and neither gates nor writes.
LEMMA PassMoves ==
    ASSUME ShadowInv, NEW w \in Workers, NEW a \in {"update", "evidence", "idle"},
           pass[w].at \in {"walk", "update", "persist"}, pass[w].at = "update" => a = "evidence",
           pass[w].at = "persist" => a = "idle",
           NEW p \in ShadowPasses, p.at = a, a # "idle" => p.e = pass[w].e /\ p.walk = pass[w].walk,
           pass' = [pass EXCEPT ![w] = p],
           UNCHANGED <<sameBar, rows, trades, held, processed, halted, pending, fed, last, overlapped, upgraded,
                       wasHalted, crashes>>
    PROVE  ShadowInv'
<1>1. /\ pass \in [Workers -> ShadowPasses] /\ pass'[w] = p /\ \A v \in Workers : v # w => pass'[v] = pass[v]
      /\ pass' \in [Workers -> ShadowPasses]
  BY DEF ShadowInv, ShadowTyped
<1>2. /\ \A v \in Workers : Gated(v)' => v # w /\ Gated(v)
      /\ \A v \in Workers : Opening(v)' => v # w /\ Opening(v)
      /\ \A v \in Workers : Opening(v) => v # w /\ Opening(v)'
  BY <1>1 DEF Gated, Opening
<1>3. ShadowTyped' /\ LegacyRow'
  BY <1>1 DEF ShadowInv, ShadowTyped, LegacyRow
<1>4. PassesApart'
  BY <1>1 DEF ShadowInv, PassesApart
<1>5. RowsKnown'
  <2>1. SH!TradesHaveRows'
    BY DEF ShadowInv, RowsKnown, SH!TradesHaveRows
  <2>2. \A v \in Workers : pass'[v].at \notin {"idle", "open"} /\ rows'[pass'[v].e] # None => pass'[v].e \in processed'
    BY <1>1 DEF ShadowInv, RowsKnown
  <2>3. \A e \in SH!Events : rows[e] \in SH!Exits /\ e \notin processed => \E v \in Workers : Opening(v)' /\ pass'[v].e = e
    BY <1>1, <1>2 DEF ShadowInv, RowsKnown
  <2>4. \A v \in Workers : Opening(v)' => rows'[pass'[v].e] \in SH!Exits
    BY <1>1, <1>2 DEF ShadowInv, RowsKnown
  <2> QED BY <2>1, <2>2, <2>3, <2>4 DEF ShadowInv, RowsKnown
<1>6. WalksForced'
  BY <1>1 DEF ShadowInv, WalksForced, ForcedRow
<1>7. CapHeldBack'
  BY <1>1, <1>2, CapStays DEF ShadowInv, RowsOn, GatedOn
<1>8. HaltKept'
  <2> SUFFICES ASSUME Steady' PROVE HaltKept'
    BY DEF HaltKept
  <2>1. Steady
    BY DEF Steady
  <2>2. \A u, v \in Workers : pass'[u].at # "idle" /\ pass'[v].at # "idle" => u = v
    BY <1>1, <2>1 DEF ShadowInv, HaltKept
  <2>3. \A v \in Workers : Gated(v)' => SH!DayOf(pass'[v].e) > halted'
    BY <1>1, <1>2, <2>1 DEF ShadowInv, HaltKept
  <2>4. \A v \in Workers : Opening(v)' => rows'[pass'[v].e] = sameBar'[pass'[v].e]
    BY <1>1, <1>2, <2>1 DEF ShadowInv, HaltKept
  <2> QED BY <2>1, <2>2, <2>3, <2>4 DEF ShadowInv, HaltKept
<1> QED BY <1>3, <1>4, <1>5, <1>6, <1>7, <1>8 DEF ShadowInv

LEMMA ShadowWalk ==
    ASSUME ShadowInv, NEW w \in Workers, SH!WalkNextBarExit(w)
    PROVE  ShadowInv'
<1>1. PICK found \in BOOLEAN : pass' = [pass EXCEPT ![w].at = IF found THEN "update" ELSE "evidence"]
  BY DEF SH!WalkNextBarExit
<1>2. PICK a \in {"update", "evidence"} : pass' = [pass EXCEPT ![w].at = a]
  BY <1>1
<1>3. PICK p : p = [pass[w] EXCEPT !.at = a]
  OBVIOUS
<1>4. pass[w] \in ShadowPasses
  BY DEF ShadowInv, ShadowTyped
<1>5. p \in ShadowPasses /\ p.at = a /\ p.e = pass[w].e /\ p.walk = pass[w].walk
  BY <1>3, <1>4 DEF ShadowPasses
<1>6. pass' = [pass EXCEPT ![w] = p]
  BY <1>2, <1>3
<1>7. pass[w].at = "walk" /\ UNCHANGED <<sameBar, rows, trades, held, processed, halted, pending, fed, last,
                                         overlapped, upgraded, wasHalted, crashes>>
  BY DEF SH!WalkNextBarExit, SH!ledger
<1> QED BY <1>5, <1>6, <1>7, PassMoves

\* A delivered event, with the walk that is due by then.
LEMMA ShadowDelivers ==
    ASSUME ShadowInv, NEW w \in Workers, NEW e \in SH!Events, SH!RunShadows(w, e)
    PROVE  ShadowInv'
<1>1. PICK p : p = [SH!Idle EXCEPT !.at = IF SH!WalkDue(e) THEN "walk" ELSE "evidence", !.e = e,
                                   !.walk = IF SH!WalkDue(e) THEN pending ELSE None]
  OBVIOUS
<1>2. /\ p \in ShadowPasses /\ p.e = e /\ p.at \in {"walk", "evidence"} /\ pass[w].at = "idle"
      /\ p.at = "walk" => p.walk = pending /\ pending # None
  <2>1. SH!Idle \in ShadowPasses /\ SH!Idle.at = "idle"
    BY DEF SH!Idle, ShadowPasses
  <2>2. pass[w].at = "idle" /\ pending \in SH!Events \cup {None}
    BY <2>1 DEF SH!RunShadows, ShadowInv, ShadowTyped
  <2>3. ASSUME NEW a \in {"walk", "evidence"}, NEW y \in SH!Events \cup {None},
               p = [SH!Idle EXCEPT !.at = a, !.e = e, !.walk = y]
        PROVE  p \in ShadowPasses /\ p.e = e /\ p.at = a /\ p.walk = y
    BY <2>1, <2>3 DEF ShadowPasses
  <2>4. CASE SH!WalkDue(e)
    <3>1. pending # None /\ p = [SH!Idle EXCEPT !.at = "walk", !.e = e, !.walk = pending]
      BY <1>1, <2>4 DEF SH!WalkDue
    <3> QED BY <2>2, <2>3, <3>1
  <2>5. CASE ~SH!WalkDue(e)
    <3>1. p = [SH!Idle EXCEPT !.at = "evidence", !.e = e, !.walk = None]
      BY <1>1, <2>5
    <3>2. p \in ShadowPasses /\ p.e = e /\ p.at = "evidence"
      BY <2>3, <3>1
    <3> QED BY <2>2, <3>2
  <2> QED BY <2>4, <2>5
<1>3. /\ pass' = [pass EXCEPT ![w] = p] /\ fed' = fed \cup {e} /\ e \notin fed
       /\ last' = SH!Max({last, e}) /\ overlapped' = (overlapped \/ SH!Busy # {})
       /\ UNCHANGED <<sameBar, rows, trades, held, processed, halted, pending, upgraded, wasHalted, crashes>>
  BY <1>1 DEF SH!RunShadows, SH!Deliverable, SH!ledger
<1>4. /\ pass \in [Workers -> ShadowPasses] /\ pass'[w] = p /\ \A v \in Workers : v # w => pass'[v] = pass[v]
      /\ pass' \in [Workers -> ShadowPasses]
  BY <1>3, <1>2 DEF ShadowInv, ShadowTyped
<1>5. /\ \A v \in Workers : Gated(v)' => v # w /\ Gated(v)
      /\ \A v \in Workers : Opening(v)' => v # w /\ Opening(v)
      /\ \A v \in Workers : Opening(v) => v # w /\ Opening(v)'
  BY <1>3, <1>2, <1>4 DEF Gated, Opening
<1>6. last' \in SH!Recorded
  <2>1. \E m \in {last, e} : \A x \in {last, e} : m >= x
    BY ShadowEvents DEF ShadowInv, ShadowTyped
  <2>2. SH!Max({last, e}) \in {last, e}
    BY <2>1, Zenon DEF SH!Max
  <2> QED BY <1>3, <2>2, ShadowEvents DEF ShadowInv, ShadowTyped
<1>7. ShadowTyped'
  <2>1. overlapped' \in BOOLEAN
    BY <1>3
  <2> QED BY <1>3, <1>4, <1>6, <2>1 DEF ShadowInv, ShadowTyped
<1>8. LegacyRow'
  BY <1>3 DEF ShadowInv, LegacyRow
<1>9. PassesApart'
  BY <1>3, <1>2, <1>4 DEF ShadowInv, PassesApart
<1>10. RowsKnown'
  <2>1. SH!TradesHaveRows'
    BY <1>3 DEF ShadowInv, RowsKnown, SH!TradesHaveRows
  <2>2. \A v \in Workers : pass'[v].at \notin {"idle", "open"} /\ rows'[pass'[v].e] # None => pass'[v].e \in processed'
    BY <1>3, <1>2, <1>4 DEF ShadowInv, RowsKnown
  <2>3. \A f \in SH!Events : rows[f] \in SH!Exits /\ f \notin processed => \E v \in Workers : Opening(v)' /\ pass'[v].e = f
    BY <1>4, <1>5 DEF ShadowInv, RowsKnown
  <2>4. \A v \in Workers : Opening(v)' => rows'[pass'[v].e] \in SH!Exits
    BY <1>3, <1>4, <1>5 DEF ShadowInv, RowsKnown
  <2> QED BY <1>3, <2>1, <2>2, <2>3, <2>4 DEF ShadowInv, RowsKnown
<1>11. WalksForced'
  BY <1>3, <1>2, <1>4 DEF ShadowInv, WalksForced, ForcedRow
<1>12. CapHeldBack'
  BY <1>3, <1>4, <1>5, CapStays DEF ShadowInv, RowsOn, GatedOn
<1>13. HaltKept'
  <2> SUFFICES ASSUME Steady' PROVE HaltKept'
    BY DEF HaltKept
  <2>1. Steady /\ SH!Busy = {}
    BY <1>3 DEF Steady
  <2>2. \A v \in Workers : v # w => pass'[v].at = "idle"
    BY <1>4, <2>1 DEF SH!Busy
  <2>3. \A v \in Workers : ~Gated(v)' /\ ~Opening(v)'
    BY <1>5, <2>2, <1>4 DEF Gated, Opening
  <2> QED BY <1>3, <2>1, <2>2, <2>3 DEF ShadowInv, HaltKept
<1> QED BY <1>7, <1>8, <1>9, <1>10, <1>11, <1>12, <1>13 DEF ShadowInv

\* The walk's exit goes to the row it was started for.
LEMMA ShadowUpdate ==
    ASSUME ShadowInv, NEW w \in Workers, SH!UpdateSimulatedFill(w)
    PROVE  ShadowInv'
<1> DEFINE e == pass[w].walk
<1>1. PICK p : p = [pass[w] EXCEPT !.at = "evidence"]
  OBVIOUS
<1>2. pass[w] \in ShadowPasses /\ pass[w].at = "update"
  BY DEF ShadowInv, ShadowTyped, SH!UpdateSimulatedFill
<1>3. p \in ShadowPasses /\ p.at = "evidence" /\ p.e = pass[w].e /\ p.walk = pass[w].walk
  BY <1>1, <1>2 DEF ShadowPasses
<1>4. pass' = [pass EXCEPT ![w] = p]
  BY <1>1 DEF SH!UpdateSimulatedFill
<1>5. UNCHANGED <<sameBar, trades, held, processed, halted, fed, last, overlapped, wasHalted, crashes>>
  BY DEF SH!UpdateSimulatedFill, SH!ledger
<1>6. CASE UNCHANGED <<rows, pending, upgraded>>
  BY <1>2, <1>3, <1>4, <1>5, <1>6, PassMoves
<1>7. CASE \E x \in SH!Exits \ {"force_close"} : rows' = [rows EXCEPT ![e] = IF @ = None THEN @ ELSE x]
           /\ pending' = None /\ upgraded' = upgraded \cup {e}
  <2>1. PICK x \in SH!Exits \ {"force_close"} : rows' = [rows EXCEPT ![e] = IF @ = None THEN @ ELSE x]
    BY <1>7
  <2>2. ForcedRow(e)
    BY <1>2 DEF ShadowInv, WalksForced
  <2>3. /\ rows \in [SH!Recorded -> SH!Exits \cup {"skip", "unresolved", None}] /\ e \in SH!Events
        /\ rows' = [rows EXCEPT ![e] = x] /\ rows[e] \in SH!Exits /\ sameBar[e] = "force_close"
    BY <2>1, <2>2, ShadowEvents DEF ShadowInv, ShadowTyped, ForcedRow
  <2> HIDE DEF e
  <2>4. /\ rows' \in [SH!Recorded -> SH!Exits \cup {"skip", "unresolved", None}]
        /\ rows'[e] = x /\ \A f \in SH!Recorded : f # e => rows'[f] = rows[f]
    BY <2>3, ShadowEvents
  <2>5. /\ \A f \in SH!Recorded : rows'[f] = None <=> rows[f] = None
        /\ \A f \in SH!Recorded : rows'[f] \in SH!Exits <=> rows[f] \in SH!Exits
        /\ \A f \in SH!Recorded : rows'[f] = "unresolved" <=> rows[f] = "unresolved"
    BY <2>3, <2>4, ShadowEvents
  <2>6. /\ pass \in [Workers -> ShadowPasses] /\ pass'[w] = p /\ \A v \in Workers : v # w => pass'[v] = pass[v]
        /\ pass' \in [Workers -> ShadowPasses]
    BY <1>3, <1>4 DEF ShadowInv, ShadowTyped
  <2>7. /\ \A v \in Workers : Gated(v)' => v # w /\ Gated(v)
        /\ \A v \in Workers : Opening(v)' => v # w /\ Opening(v)
        /\ \A v \in Workers : Opening(v) => v # w /\ Opening(v)'
    BY <1>2, <1>3, <1>5, <2>6 DEF Gated, Opening
  <2>8. \A v \in Workers : pass[v].at # "idle" => pass[v].e \in SH!Recorded
    BY ShadowEvents DEF ShadowInv, ShadowTyped, PassesApart
  <2>9. ShadowTyped'
    BY <1>5, <1>7, <2>3, <2>4, <2>6 DEF ShadowInv, ShadowTyped
  <2>10. LegacyRow'
    BY <1>5, <2>3, <2>4, <2>5, ShadowEvents DEF ShadowInv, LegacyRow
  <2>11. PassesApart'
    BY <1>2, <1>3, <1>5, <2>6 DEF ShadowInv, PassesApart
  <2>12. RowsKnown'
    <3>1. SH!TradesHaveRows'
      BY <1>5, <2>5, ShadowEvents DEF ShadowInv, RowsKnown, SH!TradesHaveRows
    <3>2. \A v \in Workers : pass'[v].at \notin {"idle", "open"} /\ rows'[pass'[v].e] # None => pass'[v].e \in processed'
      BY <1>2, <1>3, <1>5, <2>5, <2>6, <2>8 DEF ShadowInv, RowsKnown
    <3>3. \A f \in SH!Events : rows'[f] \in SH!Exits /\ f \notin processed => \E v \in Workers : Opening(v)' /\ pass'[v].e = f
      BY <2>5, <2>6, <2>7, ShadowEvents DEF ShadowInv, RowsKnown
    <3>4. \A v \in Workers : Opening(v)' => rows'[pass'[v].e] \in SH!Exits
      <4> SUFFICES ASSUME NEW v \in Workers, Opening(v)' PROVE rows'[pass'[v].e] \in SH!Exits
        OBVIOUS
      <4>1. Opening(v) /\ pass'[v].e = pass[v].e
        BY <2>6, <2>7
      <4>2. rows[pass[v].e] \in SH!Exits /\ pass[v].e \in SH!Recorded
        BY <2>8, <4>1 DEF ShadowInv, RowsKnown, Opening
      <4> QED BY <2>5, <4>1, <4>2
    <3> QED BY <1>5, <2>5, <3>1, <3>2, <3>3, <3>4, ShadowEvents DEF ShadowInv, RowsKnown
  <2>13. WalksForced'
    <3>1. \A f : ForcedRow(f) => ForcedRow(f)'
      BY <1>5, <2>5, ShadowEvents DEF ForcedRow
    <3>2. pending' = None /\ upgraded' = upgraded \cup {e}
      BY <1>7
    <3>3. ASSUME NEW v \in Workers, NEW f, f = pass'[v].walk, pass'[v].at \in {"walk", "update"} PROVE ForcedRow(f)'
      <4>1. pass'[v] = pass[v] /\ v # w
        BY <1>3, <2>6, <3>3
      <4>2. ForcedRow(f)
        BY <3>3, <4>1 DEF ShadowInv, WalksForced
      <4> QED BY <3>1, <4>2
    <3>4. \A f \in upgraded' : ForcedRow(f)' /\ rows'[f] # "force_close"
      <4> SUFFICES ASSUME NEW f \in upgraded' PROVE ForcedRow(f)' /\ rows'[f] # "force_close"
        OBVIOUS
      <4>1. f = e \/ f \in upgraded
        BY <3>2
      <4>2. ForcedRow(f) /\ (f # e => rows[f] # "force_close") /\ f \in SH!Recorded
        BY <2>2, <4>1, ShadowEvents DEF ShadowInv, WalksForced, ForcedRow
      <4> QED BY <2>4, <3>1, <4>2
    <3>5. \A v \in Workers : (pass[v].at \in {"walk", "update"} => ForcedRow(pass[v].walk))'
      BY <3>3 DEF ForcedRow
    <3> QED BY <3>2, <3>4, <3>5 DEF WalksForced
  <2>14. CapHeldBack'
    <3>1. \A day \in Nat : RowsOn(day)' = RowsOn(day)
      BY <2>5 DEF RowsOn
    <3>2. \A day \in Nat : GatedOn(day)' \subseteq GatedOn(day)
      BY <2>6, <2>7 DEF GatedOn
    <3> QED BY <3>1, <3>2, CapStays DEF ShadowInv
  <2>15. HaltKept'
    BY <1>7 DEF HaltKept, Steady
  <2> QED BY <2>9, <2>10, <2>11, <2>12, <2>13, <2>14, <2>15 DEF ShadowInv
<1> QED BY <1>6, <1>7 DEF SH!UpdateSimulatedFill, SH!WalkedRow

\* The gate leaves room for the passes in flight: each of them can add one trade of the day.
LEMMA GateLeavesRoom ==
    ASSUME NEW day \in Nat, NEW T, IsFiniteSet(T), Cardinality(T) < MaxTrades,
           NEW W, W = {pass[v].e : v \in Workers}, NEW S, S \subseteq T \cup W
    PROVE  Cardinality(S) <= MaxTrades + Cardinality(Workers) - 1
<1> DEFINE f == [v \in Workers |-> pass[v].e]
<1>1. f \in Surjection(Workers, W)
  BY DEF Surjection
<1>2. IsFiniteSet(W) /\ Cardinality(W) <= Cardinality(Workers)
  BY <1>1, ShadowLimits, FS_Surjection
<1>3. IsFiniteSet(T \cup W) /\ Cardinality(T \cup W) = Cardinality(T) + Cardinality(W) - Cardinality(T \cap W)
  BY <1>2, FS_Union
<1>4. IsFiniteSet(T \cap W)
  BY FS_Subset
<1>5. Cardinality(T) \in Nat /\ Cardinality(W) \in Nat /\ Cardinality(T \cap W) \in Nat
  BY <1>2, <1>4, FS_CardinalityType
<1>6. Cardinality(S) \in Nat /\ Cardinality(S) <= Cardinality(T \cup W)
  BY <1>3, PartCounts
<1> QED BY <1>2, <1>3, <1>5, <1>6, ShadowLimits

LEMMA ShadowRuns ==
    ASSUME ShadowInv, NEW w \in Workers, NEW signal \in {"skip", "same", "reverse"},
           NEW outcome \in SH!Exits \ {"force_close"}, SH!RunOneShadow(w, signal, outcome)
    PROVE  ShadowInv'
<1> DEFINE e == pass[w].e
           day == SH!DayOf(e)
           reverse == signal = "reverse" /\ held # None
           gate == signal # "skip" /\ SH!EvaluateGates(day, trades', held', halted')
<1>1. PICK p : p = [pass[w] EXCEPT !.at = "persist", !.open = gate]
  OBVIOUS
<1>2. /\ pass[w].at = "evidence"
      /\ trades' = (IF reverse THEN SH!Booked(trades, held, outcome) ELSE trades)
      /\ held' = (IF reverse THEN None ELSE held)
      /\ halted' = (IF reverse THEN SH!HaltAfterClose(day, trades') ELSE halted)
      /\ pass' = [pass EXCEPT ![w].at = "persist", ![w].open = gate]
      /\ UNCHANGED <<sameBar, rows, processed, pending, fed, last, overlapped, upgraded, wasHalted, crashes>>
  BY DEF SH!RunOneShadow
<1>3. gate \in BOOLEAN
  BY DEF SH!EvaluateGates
<1> HIDE DEF gate
<1>4. p \in ShadowPasses /\ p.at = "persist" /\ p.open = gate /\ p.e = e
  <2>1. pass[w] \in ShadowPasses
    BY DEF ShadowInv, ShadowTyped
  <2> QED BY <1>1, <1>3, <2>1 DEF ShadowPasses
<1>5. /\ pass \in [Workers -> ShadowPasses] /\ pass'[w] = p /\ \A v \in Workers : v # w => pass'[v] = pass[v]
      /\ pass' \in [Workers -> ShadowPasses]
  BY <1>1, <1>2, <1>4 DEF ShadowInv, ShadowTyped
<1>6. e \in SH!Events /\ e \in fed /\ day \in Nat
  BY <1>2, ShadowEvents, ShadowDays DEF ShadowInv, ShadowTyped, PassesApart
<1> HIDE DEF e
<1>7. /\ \A v \in Workers : v # w => (Gated(v)' <=> Gated(v))
      /\ Gated(w)' <=> gate
      /\ \A v \in Workers : Opening(v)' => v # w /\ Opening(v)
      /\ \A v \in Workers : Opening(v) => v # w /\ Opening(v)'
  BY <1>2, <1>4, <1>5, Zenon DEF Gated, Opening
<1>8. /\ trades' \in [SH!Recorded -> SH!Exits \cup {None}] /\ \A f \in SH!Events : trades'[f] = trades[f]
      /\ held' \in {0, None}
      /\ reverse => held = 0 /\ held' = None /\ trades'[0] = outcome
      /\ ~reverse => trades'[0] = trades[0]
  <2>1. held \in {0, None} /\ trades \in [SH!Recorded -> SH!Exits \cup {None}]
    BY DEF ShadowInv, ShadowTyped, LegacyRow
  <2>2. CASE reverse
    <3>1. held = 0 /\ held' = None /\ trades' = [trades EXCEPT ![0] = outcome]
      BY <1>2, <2>1, <2>2 DEF SH!Booked
    <3>2. outcome \in SH!Exits
      OBVIOUS
    <3> QED BY <2>1, <2>2, <3>1, <3>2, ShadowEvents
  <2>3. CASE ~reverse
    BY <1>2, <2>1, <2>3
  <2> QED BY <2>2, <2>3
<1>9. halted' = halted \/ (reverse /\ halted' = day)
  BY <1>2 DEF SH!HaltAfterClose
<1>10. ShadowTyped'
  <2>1. halted' \in Int /\ halted' >= -1
    BY <1>6, <1>9 DEF ShadowInv, ShadowTyped
  <2> HIDE DEF reverse
  <2> QED BY <1>2, <1>5, <1>8, <2>1 DEF ShadowInv, ShadowTyped
<1>11. LegacyRow'
  <2>1. outcome # None
    BY ShadowEvents
  <2>2. CASE reverse
    BY <1>2, <1>8, <2>1, <2>2, ShadowLimits, ShadowEvents DEF ShadowInv, LegacyRow
  <2>3. CASE ~reverse
    BY <1>2, <1>8, <2>3, ShadowEvents DEF ShadowInv, LegacyRow
  <2> QED BY <2>2, <2>3
<1>12. PassesApart'
  BY <1>2, <1>4, <1>5 DEF ShadowInv, PassesApart, e
<1>13. RowsKnown'
  <2>1. SH!TradesHaveRows'
    BY <1>2, <1>8 DEF ShadowInv, RowsKnown, SH!TradesHaveRows
  <2>2. \A v \in Workers : pass'[v].at \notin {"idle", "open"} /\ rows'[pass'[v].e] # None => pass'[v].e \in processed'
    BY <1>2, <1>4, <1>5 DEF ShadowInv, RowsKnown, e
  <2>3. \A f \in SH!Events : rows[f] \in SH!Exits /\ f \notin processed => \E v \in Workers : Opening(v)' /\ pass'[v].e = f
    BY <1>5, <1>7 DEF ShadowInv, RowsKnown
  <2>4. \A v \in Workers : Opening(v)' => rows'[pass'[v].e] \in SH!Exits
    BY <1>2, <1>5, <1>7 DEF ShadowInv, RowsKnown
  <2> HIDE DEF reverse
  <2> QED BY <1>2, <1>8, <2>1, <2>2, <2>3, <2>4 DEF ShadowInv, RowsKnown
<1>14. WalksForced'
  <2>1. \A v \in Workers : pass'[v].at \in {"walk", "update"} => pass'[v] = pass[v]
    BY <1>4, <1>5
  <2> QED BY <1>2, <2>1 DEF ShadowInv, WalksForced, ForcedRow
<1>15. CapHeldBack'
  <2>1. CASE ~gate
    <3>1. \A v \in Workers : Gated(v)' => v # w /\ Gated(v)
      BY <1>7, <2>1
    <3>2. \A d \in Nat : RowsOn(d)' = RowsOn(d)
      BY <1>2 DEF RowsOn
    <3>3. \A d \in Nat : GatedOn(d)' \subseteq GatedOn(d)
      BY <1>5, <3>1 DEF GatedOn
    <3> QED BY <3>2, <3>3, CapStays DEF ShadowInv
  <2>2. CASE gate
    <3> SUFFICES ASSUME NEW d \in Nat
                 PROVE  Cardinality((RowsOn(d) \cup GatedOn(d))') <= MaxTrades + Cardinality(Workers) - 1
      BY DEF CapHeldBack
    <3> DEFINE T == SH!OpenedOn(day, trades')
               W == {pass[v].e : v \in Workers}
    <3>1. CASE d # day
      <4>1. RowsOn(d)' = RowsOn(d)
        BY <1>2 DEF RowsOn
      <4>2. GatedOn(d)' \subseteq GatedOn(d)
        BY <1>4, <1>5, <1>7, <3>1 DEF GatedOn
      <4>3. IsFiniteSet(RowsOn(d) \cup GatedOn(d))
        <5>1. RowsOn(d) \cup GatedOn(d) \subseteq SH!Recorded
          BY ShadowEvents DEF RowsOn, GatedOn
        <5> QED BY <5>1, ShadowEvents, FS_Subset
      <4>4. Cardinality((RowsOn(d) \cup GatedOn(d))') \in Nat /\ Cardinality(RowsOn(d) \cup GatedOn(d)) \in Nat
            /\ Cardinality((RowsOn(d) \cup GatedOn(d))') <= Cardinality(RowsOn(d) \cup GatedOn(d))
        BY <4>1, <4>2, <4>3, PartCounts
      <4>5. Cardinality(RowsOn(d) \cup GatedOn(d)) <= MaxTrades + Cardinality(Workers) - 1
        BY DEF ShadowInv, CapHeldBack
      <4> QED BY <4>4, <4>5, ShadowLimits
    <3>2. CASE d = day
      <4>1. /\ held' = None
            /\ SH!Cardinality(T) + SH!Cardinality({f \in {held'} \ {None} : SH!DayOf(f) = day}) < MaxTrades
        BY <2>2 DEF SH!EvaluateGates, gate
      <4>2. {f \in {held'} \ {None} : SH!DayOf(f) = day} = {}
        BY <4>1
      <4>3. T \subseteq SH!Recorded
        BY DEF SH!OpenedOn
      <4>4. IsFiniteSet(T) /\ Cardinality(T) \in Nat
        BY <4>3, ShadowEvents, FS_Subset, FS_CardinalityType
      <4>5. Cardinality(T) < MaxTrades
        <5>1. SH!Cardinality({f \in {held'} \ {None} : SH!DayOf(f) = day}) = 0
          BY <4>2, ShadowCounts, FS_EmptySet
        <5>2. SH!Cardinality(T) = Cardinality(T)
          BY ShadowCounts
        <5> QED BY <4>1, <4>4, <5>1, <5>2, ShadowLimits
      <4>6. GatedOn(d)' \subseteq W
        <5>1. \A v \in Workers : pass'[v].e = pass[v].e
          BY <1>4, <1>5 DEF e
        <5> QED BY <5>1 DEF GatedOn
      <4>7. RowsOn(d)' \subseteq T \cup W
        <5> SUFFICES ASSUME NEW f \in SH!Recorded, SH!DayOf(f) = day, rows[f] \in SH!Exits \cup {"unresolved"}, f \notin W
                     PROVE  f \in T
          BY <1>2, <3>2 DEF RowsOn
        <5>1. CASE f = 0
          <6>1. rows[0] = "unresolved"
            BY <5>1, ShadowLimits, ShadowEvents DEF ShadowInv, LegacyRow
          <6>2. trades'[0] # None
            BY <1>11, <4>1, <6>1, <1>2, ShadowLimits DEF LegacyRow
          <6> QED BY <5>1, <6>2 DEF SH!OpenedOn
        <5>2. CASE f # 0
          <6>1. f \in SH!Events /\ rows[f] \in SH!Exits
            BY <5>2, ShadowEvents DEF ShadowInv, LegacyRow
          <6>2. f \in processed
            BY <6>1 DEF ShadowInv, RowsKnown
          <6>3. trades'[f] # None
            BY <1>8, <6>1, <6>2 DEF ShadowInv, RowsKnown
          <6> QED BY <6>3 DEF SH!OpenedOn
        <5> QED BY <5>1, <5>2
      <4> HIDE DEF T, W
      <4>8. (RowsOn(d) \cup GatedOn(d))' \subseteq T \cup W
        BY <4>6, <4>7
      <4> QED BY <1>6, <4>4, <4>5, <4>8, GateLeavesRoom DEF W
    <3> QED BY <3>1, <3>2
  <2> QED BY <2>1, <2>2
<1>16. HaltKept'
  <2> SUFFICES ASSUME Steady' PROVE HaltKept'
    BY DEF HaltKept
  <2>1. Steady /\ ~reverse
    BY <1>2 DEF Steady, ShadowInv, LegacyRow
  <2>2. trades' = trades /\ halted' = halted
    BY <1>2, <2>1
  <2>3. \A u, v \in Workers : pass'[u].at # "idle" /\ pass'[v].at # "idle" => u = v
    BY <1>2, <1>5, <2>1 DEF ShadowInv, HaltKept
  <2>4. gate => day > halted
    BY <2>2 DEF gate, SH!EvaluateGates
  <2>5. \A v \in Workers : Gated(v)' => SH!DayOf(pass'[v].e) > halted'
    BY <1>4, <1>5, <1>7, <2>1, <2>2, <2>4 DEF ShadowInv, HaltKept
  <2>6. \A v \in Workers : Opening(v)' => rows'[pass'[v].e] = sameBar'[pass'[v].e]
    BY <1>2, <1>5, <1>7, <2>1 DEF ShadowInv, HaltKept
  <2> QED BY <1>2, <2>1, <2>2, <2>3, <2>5, <2>6 DEF ShadowInv, HaltKept
<1> QED BY <1>10, <1>11, <1>12, <1>13, <1>14, <1>15, <1>16 DEF ShadowInv

\* The first row of an event stays; a gated one says how its trade will end.
LEMMA ShadowPersists ==
    ASSUME ShadowInv, NEW w \in Workers, SH!PersistShadowDecision(w)
    PROVE  ShadowInv'
<1> DEFINE e == pass[w].e
           new == IF pass[w].open THEN sameBar[e] ELSE "skip"
<1>1. /\ pass[w].at = "persist" /\ pass[w] \in ShadowPasses
      /\ UNCHANGED <<sameBar, trades, held, processed, halted, pending, fed, last, overlapped, upgraded, wasHalted, crashes>>
  BY DEF SH!PersistShadowDecision, SH!ledger, ShadowInv, ShadowTyped
<1>2. CASE pass' = [pass EXCEPT ![w] = SH!Idle] /\ UNCHANGED rows
  <2>1. PICK p : p = SH!Idle
    OBVIOUS
  <2>2. p \in ShadowPasses /\ p.at = "idle"
    BY <2>1 DEF SH!Idle, ShadowPasses
  <2> QED BY <1>1, <1>2, <2>1, <2>2, PassMoves
<1>3. CASE rows' = [rows EXCEPT ![e] = SH!InsertOnce(@, new)] /\ pass' = [pass EXCEPT ![w].at = "open"]
  <2>1. PICK p : p = [pass[w] EXCEPT !.at = "open"]
    OBVIOUS
  <2>2. p \in ShadowPasses /\ p.at = "open" /\ p.e = e /\ (p.open <=> pass[w].open)
    BY <1>1, <2>1, Zenon DEF ShadowPasses
  <2>3. /\ pass \in [Workers -> ShadowPasses] /\ pass'[w] = p /\ \A v \in Workers : v # w => pass'[v] = pass[v]
        /\ pass' \in [Workers -> ShadowPasses]
    BY <1>3, <2>1, <2>2 DEF ShadowInv, ShadowTyped
  <2>4. e \in SH!Events /\ e \in fed /\ e \in SH!Recorded
    BY <1>1, ShadowEvents DEF ShadowInv, ShadowTyped, PassesApart
  <2>5. new \in SH!Exits \cup {"skip"} /\ (pass[w].open => new = sameBar[e] /\ new \in SH!Exits) /\ (~pass[w].open => new = "skip")
    BY <2>4 DEF ShadowInv, ShadowTyped
  <2> HIDE DEF new
  <2>6. rows \in [SH!Recorded -> SH!Exits \cup {"skip", "unresolved", None}]
    BY DEF ShadowInv, ShadowTyped
  <2>7. /\ rows' \in [SH!Recorded -> SH!Exits \cup {"skip", "unresolved", None}]
        /\ \A f \in SH!Recorded : f # e => rows'[f] = rows[f]
        /\ rows'[e] = IF rows[e] # None THEN rows[e] ELSE new
    BY <1>3, <2>4, <2>5, <2>6 DEF SH!InsertOnce
  <2> HIDE DEF e
  <2>8. new # None /\ new # "unresolved" /\ rows'[e] # None
    BY <2>5, <2>7, ShadowLimits, ShadowEvents
  <2>9. \A f \in SH!Recorded : (rows[f] # None => rows'[f] = rows[f]) /\ (rows'[f] # rows[f] => f = e /\ rows'[f] = new)
    BY <2>7
  <2>10. rows[e] # None => e \in processed
    BY <1>1 DEF ShadowInv, RowsKnown, e
  <2>11. /\ \A v \in Workers : Gated(v)' <=> Gated(v)
         /\ \A v \in Workers : v # w => (Opening(v)' <=> Opening(v))
         /\ Opening(w)' => e \notin processed /\ pass[w].open
         /\ pass[w].open /\ e \notin processed => Opening(w)'
         /\ ~Opening(w)
    BY <1>1, <2>2, <2>3, Zenon DEF Gated, Opening
  <2>12. ShadowTyped'
    BY <1>1, <2>3, <2>7 DEF ShadowInv, ShadowTyped
  <2>13. LegacyRow'
    BY <1>1, <2>4, <2>8, <2>9, ShadowEvents DEF ShadowInv, LegacyRow
  <2>14. PassesApart'
    BY <1>1, <2>2, <2>3 DEF ShadowInv, PassesApart, e
  <2>15. RowsKnown'
    <3>1. SH!TradesHaveRows'
      BY <1>1, <2>9, ShadowEvents DEF ShadowInv, RowsKnown, SH!TradesHaveRows
    <3>2. \A f \in SH!Events \ fed : rows'[f] # None => f \in processed
      BY <2>4, <2>9, ShadowEvents DEF ShadowInv, RowsKnown
    <3>3. ASSUME NEW v \in Workers, pass'[v].at \notin {"idle", "open"}, rows'[pass'[v].e] # None PROVE pass'[v].e \in processed
      <4>1. v # w /\ pass'[v] = pass[v]
        BY <2>2, <2>3, <3>3
      <4>2. pass[v].e # e /\ pass[v].e \in SH!Recorded
        BY <1>1, <3>3, <4>1, ShadowEvents DEF ShadowInv, PassesApart, ShadowTyped, e
      <4>3. rows[pass[v].e] # None
        BY <2>7, <3>3, <4>1, <4>2
      <4> QED BY <3>3, <4>1, <4>3 DEF ShadowInv, RowsKnown
    <3>4. \A f \in SH!Events : f \in processed => rows'[f] # None
      BY <2>9, ShadowEvents DEF ShadowInv, RowsKnown
    <3>5. \A f \in SH!Events : f \in processed /\ rows'[f] \in SH!Exits => trades[f] # None
      BY <2>9, ShadowEvents DEF ShadowInv, RowsKnown
    <3>6. ASSUME NEW f \in SH!Events, rows'[f] \in SH!Exits, f \notin processed
          PROVE  \E v \in Workers : Opening(v)' /\ pass'[v].e = f
      <4>1. CASE f = e
        <5>1. rows'[e] = new
          BY <2>7, <2>10, <3>6, <4>1
        <5>2. pass[w].open
          BY <2>5, <3>6, <4>1, <5>1, ShadowEvents
        <5> QED BY <2>2, <2>3, <2>11, <3>6, <4>1, <5>2
      <4>2. CASE f # e
        <5>1. rows[f] \in SH!Exits
          BY <2>7, <3>6, <4>2, ShadowEvents
        <5>2. PICK v \in Workers : Opening(v) /\ pass[v].e = f
          BY <3>6, <5>1 DEF ShadowInv, RowsKnown
        <5>3. v # w
          BY <2>11, <5>2
        <5> QED BY <2>3, <2>11, <5>2, <5>3
      <4> QED BY <4>1, <4>2
    <3>7. ASSUME NEW v \in Workers, Opening(v)' PROVE rows'[pass'[v].e] \in SH!Exits
      <4>1. CASE v = w
        <5>1. rows[e] = None /\ pass[w].open
          BY <2>10, <2>11, <3>7, <4>1
        <5> QED BY <2>2, <2>3, <2>5, <2>7, <4>1, <5>1
      <4>2. CASE v # w
        <5>1. Opening(v) /\ pass'[v].e = pass[v].e
          BY <2>3, <2>11, <3>7, <4>2
        <5>2. rows[pass[v].e] \in SH!Exits /\ pass[v].e \in SH!Recorded
          BY <5>1, ShadowEvents DEF ShadowInv, RowsKnown, Opening, ShadowTyped, PassesApart
        <5> QED BY <2>9, <5>1, <5>2, ShadowEvents
      <4> QED BY <4>1, <4>2
    <3> QED BY <1>1, <3>1, <3>2, <3>3, <3>4, <3>5, <3>6, <3>7 DEF RowsKnown
  <2>16. WalksForced'
    <3>1. \A f : ForcedRow(f) => ForcedRow(f)' /\ rows'[f] = rows[f]
      BY <1>1, <2>9, ShadowEvents DEF ForcedRow
    <3>2. pending' = pending /\ upgraded' = upgraded
      BY <1>1
    <3>3. ASSUME NEW v \in Workers, NEW f, f = pass'[v].walk, pass'[v].at \in {"walk", "update"} PROVE ForcedRow(f)'
      <4>1. pass'[v] = pass[v] /\ v # w
        BY <2>2, <2>3, <3>3
      <4>2. ForcedRow(f)
        BY <3>3, <4>1 DEF ShadowInv, WalksForced
      <4> QED BY <3>1, <4>2
    <3>4. \A v \in Workers : (pass[v].at \in {"walk", "update"} => ForcedRow(pass[v].walk))'
      BY <3>3 DEF ForcedRow
    <3>5. \A f \in upgraded : ForcedRow(f)' /\ rows'[f] # "force_close"
      BY <3>1 DEF ShadowInv, WalksForced
    <3>6. pending # None => ForcedRow(pending)
      BY DEF ShadowInv, WalksForced
    <3>7. (pending # None => ForcedRow(pending))'
      BY <1>1, <3>1, <3>2, <3>6 DEF ForcedRow
    <3> QED BY <3>2, <3>4, <3>5, <3>7 DEF WalksForced
  <2>17. CapHeldBack'
    <3> SUFFICES ASSUME NEW d \in Nat PROVE (RowsOn(d) \cup GatedOn(d))' \subseteq RowsOn(d) \cup GatedOn(d)
      BY CapStays DEF ShadowInv
    <3>1. GatedOn(d)' = GatedOn(d)
      <4>1. \A v \in Workers : pass'[v].e = pass[v].e
        BY <2>2, <2>3 DEF e
      <4> QED BY <2>11, <4>1 DEF GatedOn
    <3>2. ASSUME NEW f \in RowsOn(d)', f \notin RowsOn(d) PROVE f \in GatedOn(d)
      <4>1. f = e /\ rows'[f] = new /\ SH!DayOf(e) = d /\ new \in SH!Exits
        BY <2>8, <2>9, <3>2 DEF RowsOn
      <4>2. pass[w].open
        BY <2>5, <4>1, ShadowEvents
      <4> QED BY <1>1, <2>4, <4>1, <4>2 DEF GatedOn, Gated, e
    <3> QED BY <3>1, <3>2
  <2>18. HaltKept'
    <3> SUFFICES ASSUME Steady' PROVE HaltKept'
      BY DEF HaltKept
    <3>1. Steady
      BY <1>1, <2>4, <2>7, ShadowEvents DEF Steady
    <3>2. \A u, v \in Workers : pass'[u].at # "idle" /\ pass'[v].at # "idle" => u = v
      BY <1>1, <2>3, <3>1 DEF ShadowInv, HaltKept
    <3>3. \A f \in SH!Events : trades'[f] # None => trades'[f] = rows'[f]
      BY <1>1, <2>9, <3>1, ShadowEvents DEF ShadowInv, HaltKept, RowsKnown, SH!TradesHaveRows
    <3>4. \A v \in Workers : pass'[v].e = pass[v].e
      BY <2>2, <2>3 DEF e
    <3>5. \A v \in Workers : Gated(v)' => SH!DayOf(pass'[v].e) > halted'
      BY <1>1, <2>11, <3>1, <3>4 DEF ShadowInv, HaltKept
    <3>6. ASSUME NEW v \in Workers, Opening(v)' PROVE rows'[pass'[v].e] = sameBar'[pass'[v].e]
      <4>1. CASE v = w
        <5>1. rows[e] = None /\ pass[w].open
          BY <2>10, <2>11, <3>6, <4>1
        <5>2. rows'[e] = sameBar[e] /\ pass'[v].e = e
          BY <2>2, <2>3, <2>5, <2>7, <4>1, <5>1
        <5> QED BY <1>1, <5>2
      <4>2. CASE v # w
        <5>1. Opening(v) /\ pass'[v].e = pass[v].e
          BY <2>3, <2>11, <3>6, <4>2
        <5>2. rows[pass[v].e] \in SH!Exits /\ pass[v].e \in SH!Recorded /\ rows[pass[v].e] = sameBar[pass[v].e]
          BY <3>1, <5>1, ShadowEvents DEF ShadowInv, RowsKnown, Opening, ShadowTyped, PassesApart, HaltKept
        <5> QED BY <1>1, <2>9, <5>1, <5>2, ShadowEvents
      <4> QED BY <4>1, <4>2
    <3>7. halted = -1 \/ \E m \in SH!Recorded : ArmedBy(SH!Replayed(rows'), m) /\ SH!DayOf(m) = halted
      <4> SUFFICES ASSUME halted # -1
                   PROVE  \E m \in SH!Recorded : ArmedBy(SH!Replayed(rows'), m) /\ SH!DayOf(m) = halted
        OBVIOUS
      <4>1. PICK m \in SH!Recorded : ArmedBy(SH!Replayed(rows), m) /\ SH!DayOf(m) = halted
        BY <3>1 DEF ShadowInv, HaltKept
      <4>2. ASSUME NEW f \in SH!Recorded, SH!DayOf(f) = halted PROVE SH!Replayed(rows')[f] = SH!Replayed(rows)[f]
        <5>1. CASE rows'[f] = rows[f]
          BY <5>1 DEF SH!Replayed
        <5>2. CASE rows'[f] # rows[f]
          <6>1. f = e /\ rows'[f] = new /\ rows[f] = None
            BY <2>9, <5>2
          <6>2. ~pass[w].open
            <7>1. Gated(w) => SH!DayOf(e) > halted
              BY <3>1 DEF ShadowInv, HaltKept, e
            <7>2. halted \in Int
              BY DEF ShadowInv, ShadowTyped
            <7> QED BY <1>1, <4>2, <6>1, <7>1, <7>2 DEF Gated
          <6>3. new \notin SH!Exits /\ None \notin SH!Exits
            BY <2>5, <6>2, ShadowEvents
          <6> QED BY <6>1, <6>3 DEF SH!Replayed
        <5> QED BY <5>1, <5>2
      <4>3. \A f \in SH!Recorded : SH!DayOf(f) = halted => Prefix(SH!Replayed(rows'), m)[f] = Prefix(SH!Replayed(rows), m)[f]
        BY <4>2 DEF Prefix
      <4>4. SH!LossStreak(halted, Prefix(SH!Replayed(rows'), m)) = SH!LossStreak(halted, Prefix(SH!Replayed(rows), m))
        BY <4>3, SameStreak
      <4> QED BY <4>1, <4>2, <4>4 DEF ArmedBy
    <3> QED BY <1>1, <3>1, <3>2, <3>3, <3>5, <3>6, <3>7 DEF ShadowInv, HaltKept, ArmedBy
  <2> QED BY <2>12, <2>13, <2>14, <2>15, <2>16, <2>17, <2>18 DEF ShadowInv
<1> QED BY <1>2, <1>3 DEF SH!PersistShadowDecision

\* The ledger opens and closes the trade its row told of, unless the event was processed before.
LEMMA ShadowOpens ==
    ASSUME ShadowInv, NEW w \in Workers, SH!TryOpen(w)
    PROVE  ShadowInv'
<1> DEFINE e == pass[w].e
           t == SH!Booked(trades, e, sameBar[e])
           opens == pass[w].open /\ ~SH!Duplicate(e)
<1>1. PICK p : p = SH!Idle
  OBVIOUS
<1>2. p \in ShadowPasses /\ p.at = "idle"
  BY <1>1 DEF SH!Idle, ShadowPasses
<1>3. /\ pass[w].at = "open" /\ pass[w] \in ShadowPasses /\ pass' = [pass EXCEPT ![w] = p]
      /\ UNCHANGED <<sameBar, rows, held, fed, last, overlapped, upgraded, wasHalted, crashes>>
  BY <1>1 DEF SH!TryOpen, ShadowInv, ShadowTyped
<1>4. IF opens THEN /\ trades' = t /\ processed' = processed \cup {e} /\ halted' = SH!HaltAfterClose(SH!DayOf(e), t)
                    /\ pending' = IF sameBar[e] = "force_close" THEN e ELSE None
      ELSE UNCHANGED <<trades, processed, halted, pending>>
  BY DEF SH!TryOpen
<1>5. opens <=> Opening(w)
  BY <1>3 DEF Opening, SH!Duplicate
<1> HIDE DEF opens
<1>6. /\ pass \in [Workers -> ShadowPasses] /\ pass'[w] = p /\ \A v \in Workers : v # w => pass'[v] = pass[v]
      /\ pass' \in [Workers -> ShadowPasses]
  BY <1>2, <1>3 DEF ShadowInv, ShadowTyped
<1>7. e \in SH!Events /\ e \in fed /\ e \in SH!Recorded
  BY <1>3, ShadowEvents DEF ShadowInv, ShadowTyped, PassesApart
<1>8. \A v \in Workers : v # w /\ pass[v].at # "idle" => pass[v].e # e
  BY <1>3 DEF ShadowInv, PassesApart
<1> HIDE DEF e
<1>9. sameBar[e] \in SH!Exits /\ sameBar[e] # None
  BY <1>7, ShadowEvents DEF ShadowInv, ShadowTyped
<1>10. /\ trades' \in [SH!Recorded -> SH!Exits \cup {None}]
       /\ opens => trades'[e] = sameBar[e]
       /\ \A f \in SH!Recorded : f # e \/ ~opens => trades'[f] = trades[f]
       /\ \A f \in SH!Recorded : trades[f] # None => trades'[f] # None
  <2>1. trades \in [SH!Recorded -> SH!Exits \cup {None}]
    BY DEF ShadowInv, ShadowTyped
  <2>2. CASE opens
    <3>1. trades' = [trades EXCEPT ![e] = sameBar[e]]
      BY <1>4, <2>2 DEF SH!Booked
    <3> QED BY <1>7, <1>9, <2>1, <2>2, <3>1
  <2>3. CASE ~opens
    BY <1>4, <2>1, <2>3
  <2> QED BY <2>2, <2>3
<1>11. processed' = IF opens THEN processed \cup {e} ELSE processed
  BY <1>4
<1>12. /\ \A v \in Workers : Gated(v)' => v # w /\ Gated(v)
       /\ \A v \in Workers : Opening(v)' => v # w /\ Opening(v)
       /\ \A v \in Workers : v # w /\ Opening(v) => Opening(v)'
  BY <1>2, <1>6, <1>8, <1>11 DEF Gated, Opening
<1>13. opens => e \notin processed /\ rows[e] \in SH!Exits
  BY <1>5 DEF ShadowInv, RowsKnown, Opening, e
<1>14. halted' = halted \/ (opens /\ halted' = SH!DayOf(e) /\ SH!LossStreak(SH!DayOf(e), t) >= HaltAfter)
  BY <1>4 DEF SH!HaltAfterClose
<1>15. ShadowTyped'
  <2>1. halted' \in Int /\ halted' >= -1
    BY <1>7, <1>14, ShadowDays DEF ShadowInv, ShadowTyped
  <2>2. pending' \in SH!Events \cup {None}
    BY <1>4, <1>7 DEF ShadowInv, ShadowTyped
  <2> QED BY <1>3, <1>6, <1>10, <2>1, <2>2 DEF ShadowInv, ShadowTyped
<1>16. LegacyRow'
  <2>1. trades'[0] = trades[0]
    BY <1>7, <1>10, ShadowEvents
  <2> QED BY <1>3, <2>1 DEF ShadowInv, LegacyRow
<1>17. PassesApart'
  BY <1>2, <1>3, <1>6 DEF ShadowInv, PassesApart
<1>18. RowsKnown'
  <2>1. SH!TradesHaveRows'
    BY <1>3, <1>10, <1>13, ShadowEvents DEF ShadowInv, RowsKnown, SH!TradesHaveRows
  <2>2. \A f \in SH!Events \ fed : rows[f] # None => f \in processed'
    BY <1>11 DEF ShadowInv, RowsKnown
  <2>3. \A v \in Workers : pass'[v].at \notin {"idle", "open"} /\ rows'[pass'[v].e] # None => pass'[v].e \in processed'
    BY <1>2, <1>3, <1>6, <1>11 DEF ShadowInv, RowsKnown
  <2>4. \A f \in SH!Events : f \in processed' => rows[f] # None
    BY <1>11, <1>13, ShadowEvents DEF ShadowInv, RowsKnown
  <2>5. \A f \in SH!Events : f \in processed' /\ rows[f] \in SH!Exits => trades'[f] # None
    BY <1>9, <1>10, <1>11, ShadowEvents DEF ShadowInv, RowsKnown
  <2>6. ASSUME NEW f \in SH!Events, rows[f] \in SH!Exits, f \notin processed'
        PROVE  \E v \in Workers : Opening(v)' /\ pass'[v].e = f
    <3>1. PICK v \in Workers : Opening(v) /\ pass[v].e = f
      BY <1>11, <2>6 DEF ShadowInv, RowsKnown
    <3>2. v # w
      BY <1>5, <1>11, <2>6, <3>1 DEF e
    <3> QED BY <1>6, <1>12, <3>1, <3>2
  <2>7. \A v \in Workers : Opening(v)' => rows'[pass'[v].e] \in SH!Exits
    BY <1>3, <1>6, <1>12 DEF ShadowInv, RowsKnown
  <2> QED BY <1>3, <2>1, <2>2, <2>3, <2>4, <2>5, <2>6, <2>7 DEF RowsKnown
<1>19. WalksForced'
  <2>1. \A f : ForcedRow(f)' <=> ForcedRow(f)
    BY <1>3 DEF ForcedRow
  <2>2. \A v \in Workers : pass'[v].at \in {"walk", "update"} => pass'[v] = pass[v]
    BY <1>2, <1>6
  <2>3. \A v \in Workers : (pass[v].at \in {"walk", "update"} => ForcedRow(pass[v].walk))'
    BY <1>3, <2>2 DEF ShadowInv, WalksForced, ForcedRow
  <2>4. \A f \in upgraded : ForcedRow(f)' /\ rows'[f] # "force_close"
    BY <1>3, <2>1 DEF ShadowInv, WalksForced
  <2>5. pending' = pending \/ pending' = None \/ (pending' = e /\ ForcedRow(e))
    BY <1>4, <1>7, <1>13 DEF ForcedRow
  <2>6. (pending # None => ForcedRow(pending))'
    BY <1>3, <2>5 DEF ShadowInv, WalksForced, ForcedRow
  <2> QED BY <1>3, <2>3, <2>4, <2>6 DEF WalksForced
<1>20. CapHeldBack'
  <2>1. \A day \in Nat : RowsOn(day)' = RowsOn(day)
    BY <1>3 DEF RowsOn
  <2>2. \A day \in Nat : GatedOn(day)' \subseteq GatedOn(day)
    BY <1>6, <1>12 DEF GatedOn
  <2> QED BY <2>1, <2>2, CapStays DEF ShadowInv
<1>21. HaltKept'
  <2> SUFFICES ASSUME Steady' PROVE HaltKept'
    BY DEF HaltKept
  <2>1. Steady
    BY <1>3 DEF Steady
  <2>2. \A v \in Workers : pass'[v].at = "idle"
    BY <1>2, <1>3, <1>6, <2>1 DEF ShadowInv, HaltKept
  <2>3. opens => sameBar[e] = rows[e] /\ SH!DayOf(e) > halted
    BY <1>3, <1>5, <2>1 DEF ShadowInv, HaltKept, Gated, Opening, e
  <2>4. \A f \in SH!Events : trades'[f] # None => trades'[f] = rows'[f]
    BY <1>3, <1>10, <2>1, <2>3, ShadowEvents DEF ShadowInv, HaltKept
  <2>5. \A v \in Workers : ~Gated(v)' /\ ~Opening(v)'
    BY <2>2 DEF Gated, Opening
  <2>6. \A f \in SH!Recorded : trades'[f] = SH!Replayed(rows)[f]
    <3>1. trades'[0] = None /\ rows[0] = None
      BY <1>7, <1>10, <2>1, ShadowEvents DEF Steady, ShadowInv, LegacyRow
    <3>2. ASSUME NEW f \in SH!Events PROVE trades'[f] = IF rows[f] \in SH!Exits THEN rows[f] ELSE None
      <4>1. CASE trades'[f] # None
        BY <1>3, <1>18, <2>4, <4>1 DEF RowsKnown, SH!TradesHaveRows
      <4>2. CASE trades'[f] = None
        <5>1. ~(rows[f] \in SH!Exits)
          BY <1>3, <1>18, <2>5, <4>2 DEF RowsKnown
        <5> QED BY <4>2, <5>1
      <4> QED BY <4>1, <4>2
    <3> QED BY <3>1, <3>2, ShadowEvents DEF SH!Replayed
  <2>7. halted' = -1 \/ \E m \in SH!Recorded : ArmedBy(SH!Replayed(rows), m) /\ SH!DayOf(m) = halted'
    <3>1. CASE halted' = halted
      BY <2>1, <3>1 DEF ShadowInv, HaltKept
    <3>2. CASE opens /\ halted' = SH!DayOf(e) /\ SH!LossStreak(SH!DayOf(e), t) >= HaltAfter
      <4>1. trades' = t
        BY <1>4, <3>2
      <4>2. SH!LossStreak(SH!DayOf(e), t) = SH!LossStreak(SH!DayOf(e), SH!Replayed(rows))
        <5>1. \A f \in SH!Recorded : SH!DayOf(f) = SH!DayOf(e) => t[f] = SH!Replayed(rows)[f]
          BY <2>6, <4>1
        <5> QED BY <5>1, SameStreak
      <4>3. SH!Replayed(rows)[e] # None
        BY <1>7, <1>9, <1>10, <2>6, <3>2
      <4> QED BY <1>7, <3>2, <4>2, <4>3, ArmedByLast
    <3> QED BY <1>14, <3>1, <3>2
  <2>8. crashes' > 0 => wasHalted' <= halted'
    <3>1. halted \in Int /\ wasHalted \in Int /\ SH!DayOf(e) \in Int
      BY <1>7, ShadowDays DEF ShadowInv, ShadowTyped
    <3>2. halted <= halted'
      BY <1>14, <2>3, <3>1
    <3>3. crashes > 0 => wasHalted <= halted
      BY <2>1 DEF ShadowInv, HaltKept
    <3>4. halted' \in Int
      BY <1>14, <3>1
    <3> QED BY <1>3, <3>1, <3>2, <3>3, <3>4
  <2>9. SH!Replayed(rows)' = SH!Replayed(rows)
    BY <1>3
  <2> QED BY <1>3, <2>2, <2>4, <2>5, <2>7, <2>8, <2>9 DEF HaltKept, ArmedBy
<1> QED BY <1>15, <1>16, <1>17, <1>18, <1>19, <1>20, <1>21 DEF ShadowInv

LEMMA ShadowStep ==
    ASSUME ShadowInv, SH!Next
    PROVE  ShadowInv'
BY ShadowCrash, ShadowDelivers, ShadowWalk, ShadowUpdate, ShadowRuns, ShadowPersists, ShadowOpens DEF SH!Next

LEMMA ShadowBounds ==
    ASSUME ShadowInv
    PROVE  SH!TradesHaveRows /\ SH!UpgradesOnlyForced /\ SH!CapOvershootBounded /\ SH!HaltSurvivesRestart
<1>1. SH!UpgradesOnlyForced
  BY DEF ShadowInv, WalksForced, ForcedRow, SH!UpgradesOnlyForced
<1>2. SH!CapOvershootBounded
  <2> SUFFICES ASSUME NEW e \in SH!Events
               PROVE  Cardinality(SH!OpenedOn(SH!DayOf(e), trades)) <= MaxTrades + Cardinality(Workers) - 1
    BY ShadowCounts DEF SH!CapOvershootBounded
  <2> DEFINE day == SH!DayOf(e)
  <2>1. day \in Nat
    BY ShadowEvents, ShadowDays
  <2>2. SH!OpenedOn(day, trades) \subseteq RowsOn(day) \cup GatedOn(day)
    BY ShadowEvents DEF SH!OpenedOn, RowsOn, ShadowInv, LegacyRow, RowsKnown, SH!TradesHaveRows
  <2>3. RowsOn(day) \cup GatedOn(day) \subseteq SH!Recorded
    BY ShadowEvents DEF RowsOn, GatedOn
  <2>4. IsFiniteSet(RowsOn(day) \cup GatedOn(day))
    BY <2>3, ShadowEvents, FS_Subset
  <2>5. /\ Cardinality(SH!OpenedOn(day, trades)) <= Cardinality(RowsOn(day) \cup GatedOn(day))
        /\ Cardinality(SH!OpenedOn(day, trades)) \in Nat /\ Cardinality(RowsOn(day) \cup GatedOn(day)) \in Nat
    BY <2>2, <2>4, PartCounts
  <2>6. Cardinality(RowsOn(day) \cup GatedOn(day)) <= MaxTrades + Cardinality(Workers) - 1
    BY <2>1 DEF ShadowInv, CapHeldBack
  <2> HIDE DEF day
  <2>7. Cardinality(SH!OpenedOn(day, trades)) <= MaxTrades + Cardinality(Workers) - 1
    BY <2>5, <2>6, ShadowLimits
  <2> QED BY <2>7 DEF day
<1>3. SH!HaltSurvivesRestart
  BY DEF ShadowInv, HaltKept, Steady, SH!HaltSurvivesRestart
<1> QED BY <1>1, <1>2, <1>3 DEF ShadowInv, RowsKnown

\* Behind ShadowSound, for every length of the tape, day, cap, threshold and number of passes: an
\* event is processed once its row is there, but for the one pass between the two; what the passes
\* in flight gated counts against the day beside its rows; and as long as passes do not overlap the
\* ledger is the replay of the rows, but for what the one pass is about to open
\* (ShadowStrategyOrchestratorService, VirtualPositionLedgerService).
THEOREM ShadowIsSound == Spec => []ShadowSound
<1> DEFINE I == part = "shadow" => ShadowInv
<1>1. Init => I
  BY ShadowInitial DEF Init
<1>2. I /\ [Next]_vars => I'
  <2> SUFFICES ASSUME I, [Next]_vars, part' = "shadow" PROVE ShadowInv'
    OBVIOUS
  <2>1. CASE Next
    BY <2>1, ShadowStep DEF Next
  <2>2. CASE UNCHANGED vars
    <3>1. part = "shadow" /\ UNCHANGED SH!vars
      BY <2>2 DEF vars
    <3> QED BY <3>1, ShadowQuiet
  <2> QED BY <2>1, <2>2
<1>3. I => ShadowSound
  BY ShadowBounds DEF ShadowSound
<1> QED BY <1>1, <1>2, <1>3, PTL DEF Spec

-----------------------------------------------------------------------------
(* Folds and sequences of finite sets.                                     *)

\* Induction over the naturals, for a set of numbers.
LEMMA SetInduction ==
    ASSUME NEW P, 0 \in P, \A n \in Nat : n \in P => n + 1 \in P
    PROVE  \A n \in Nat : n \in P
<1> SUFFICES ASSUME Nat \ P # {} PROVE FALSE
  OBVIOUS
<1>1. PICK m \in Nat \ P : \A y \in Nat \ P : m <= y
  BY HasLeast
<1>2. m # 0 /\ m - 1 \in Nat /\ (m - 1) + 1 = m /\ ~(m <= m - 1)
  OBVIOUS
<1>3. m - 1 \in P
  BY <1>1, <1>2
<1> QED BY <1>1, <1>2, <1>3

AnyOf(S) == CHOOSE x \in S : TRUE

\* What is true of the empty set, and of a set whenever it is of all but one of its members, is
\* true of every finite set.
LEMMA SetGrows ==
    ASSUME NEW S, IsFiniteSet(S), NEW P, {} \in P,
           \A s \in SUBSET S : s # {} /\ s \ {AnyOf(s)} \in P => s \in P
    PROVE  \A s \in SUBSET S : s \in P
<1> DEFINE Q == {n \in Nat : \A s \in SUBSET S : Cardinality(s) = n => s \in P}
<1>1. \A s \in SUBSET S : IsFiniteSet(s) /\ Cardinality(s) \in Nat
  BY FS_Subset, FS_CardinalityType
<1>2. 0 \in Q
  <2>1. \A s \in SUBSET S : Cardinality(s) = 0 => s = {}
    BY <1>1, FS_EmptySet
  <2> QED BY <2>1
<1>3. ASSUME NEW n \in Nat, n \in Q PROVE n + 1 \in Q
  <2> SUFFICES ASSUME NEW s \in SUBSET S, Cardinality(s) = n + 1 PROVE s \in P
    OBVIOUS
  <2>1. s # {}
    BY FS_EmptySet
  <2>2. AnyOf(s) \in s
    BY <2>1 DEF AnyOf
  <2>3. Cardinality(s \ {AnyOf(s)}) = n
    BY <1>1, <2>2, OneLess
  <2> QED BY <1>3, <2>1, <2>3
<1> HIDE DEF Q
<1>4. \A n \in Nat : n \in Q
  BY <1>2, <1>3, SetInduction
<1> QED BY <1>1, <1>4 DEF Q

\* A finite set as a sequence without repetition.
LEMMA AsSequence ==
    ASSUME NEW S, IsFiniteSet(S)
    PROVE  /\ Cardinality(S) \in Nat
           /\ \E f \in [1..Cardinality(S) -> S] : (\A a, b \in 1..Cardinality(S) : f[a] = f[b] => a = b)
                                                  /\ (\A x \in S : \E c \in 1..Cardinality(S) : f[c] = x)
<1>1. PICK f : f \in Bijection(1..Cardinality(S), S)
  BY FS_CardinalityType DEF ExistsBijection
<1>2. /\ f \in [1..Cardinality(S) -> S] /\ \A a, b \in 1..Cardinality(S) : f[a] = f[b] => a = b
      /\ \A x \in S : \E a \in 1..Cardinality(S) : f[a] = x
  BY <1>1 DEF Bijection, Injection, Surjection, IsInjective, Range
<1> QED BY <1>2, FS_CardinalityType

\* The image of a finite set is no larger.
LEMMA ImageFinite ==
    ASSUME NEW S, IsFiniteSet(S), NEW f, DOMAIN f = S, f = [x \in S |-> f[x]]
    PROVE  LET T == {f[x] : x \in S} IN IsFiniteSet(T) /\ Cardinality(T) <= Cardinality(S)
<1> DEFINE T == {f[x] : x \in S}
<1>1. f \in [S -> T]
  OBVIOUS
<1>2. f \in Surjection(S, T)
  BY <1>1 DEF Surjection
<1> QED BY <1>2, FS_Surjection

-----------------------------------------------------------------------------
(* The replay.                                                             *)

LEMMA ReplayCounts == \A S : RP!Cardinality(S) = Cardinality(S)
BY DEF RP!IsFiniteSet, IsFiniteSet, RP!Cardinality, Cardinality

Slot(p) == <<p.sym, p.bar>>

\* Releasing positions one after the other releases their slots.
LEMMA AllReleased ==
    ASSUME NEW S, IsFiniteSet(S), NEW ids
    PROVE  RP!ReleasedAll(ids, S) = ids \ {Slot(p) : p \in S}
<1> DEFINE Step(f, s) == IF s = {} THEN ids ELSE f[s \ {AnyOf(s)}] \ {Slot(AnyOf(s))}
           Folds(f) == f = [s \in SUBSET S |-> Step(f, s)]
           left == [s \in SUBSET S |-> ids \ {Slot(p) : p \in s}]
           chosen == CHOOSE f : Folds(f)
<1>1. RP!ReleasedAll(ids, S) = chosen[S]
  BY DEF RP!ReleasedAll, RP!FoldSet, RP!MapThenFoldSet, RP!Released, AnyOf, Slot
<1>2. Folds(left)
  <2>1. ASSUME NEW s \in SUBSET S PROVE left[s] = Step(left, s)
    <3>1. CASE s = {}
      BY <3>1
    <3>2. CASE s # {}
      <4>1. AnyOf(s) \in s
        BY <3>2 DEF AnyOf
      <4> QED BY <3>2, <4>1
    <3> QED BY <3>1, <3>2
  <2> QED BY <2>1
<1>3. Folds(chosen)
  <2> HIDE DEF Folds
  <2> QED BY <1>2
<1> HIDE DEF chosen
<1>4. \A s \in SUBSET S : chosen[s] = Step(chosen, s)
  BY <1>3
<1> DEFINE P == {s \in SUBSET S : chosen[s] = ids \ {Slot(p) : p \in s}}
<1>5. {} \in P
  BY <1>4
<1>6. ASSUME NEW s \in SUBSET S, s # {}, s \ {AnyOf(s)} \in P PROVE s \in P
  <2>1. AnyOf(s) \in s
    BY <1>6 DEF AnyOf
  <2>2. chosen[s] = (ids \ {Slot(p) : p \in s \ {AnyOf(s)}}) \ {Slot(AnyOf(s))}
    BY <1>4, <1>6
  <2>3. {Slot(p) : p \in s} = {Slot(p) : p \in s \ {AnyOf(s)}} \cup {Slot(AnyOf(s))}
    BY <2>1
  <2> QED BY <2>2, <2>3
<1> HIDE DEF P
<1>7. S \in P
  BY <1>5, <1>6, SetGrows
<1> QED BY <1>1, <1>7 DEF P

\* Funding times as they are booked: each once.
LEMMA SettledOnce ==
    ASSUME NEW S \in SUBSET Nat, IsFiniteSet(S)
    PROVE  LET q == RP!SetToSeq(S)
           IN  /\ q \in Seq(S) /\ \A i, j \in 1..Len(q) : q[i] = q[j] => i = j
<1> DEFINE n == Cardinality(S)
           q == RP!SetToSeq(S)
<1>1. n \in Nat /\ \E f \in [1..n -> S] : \A a, b \in 1..n : f[a] = f[b] => a = b
  BY AsSequence
<1> HIDE DEF n
<1>2. q = CHOOSE f \in [1..n -> S] : RP!IsInjective(f)
  BY ReplayCounts DEF RP!SetToSeq, n
<1>3. \E f \in [1..n -> S] : RP!IsInjective(f)
  BY <1>1 DEF RP!IsInjective
<1> HIDE DEF q
<1>4. q \in [1..n -> S] /\ RP!IsInjective(q)
  BY <1>2, <1>3
<1>5. q \in Seq(S) /\ Len(q) = n
  BY <1>1, <1>4
<1>6. \A i, j \in 1..Len(q) : q[i] = q[j] => i = j
  BY <1>4, <1>5 DEF RP!IsInjective
<1> QED BY <1>5, <1>6 DEF q

Positions == [sym : RP!Range(Symbols), bar : Nat, opened : Nat, stopAt : Nat, funding : Seq(Nat)]

\* The replay has passed the bar of this position or trade.
Passed(p) ==
    \E j \in 1..Len(Symbols) :
        p.sym = Symbols[j] /\ (j < cursor[1] \/ (j = cursor[1] /\ p.bar \in Nat /\ p.bar < cursor[2]))

\* Its funding is booked once, and not before it was opened.
Settled(p) ==
    /\ p.opened \in Nat /\ p.funding \in Seq(Nat)
    /\ \A i, j \in 1..Len(p.funding) : p.funding[i] = p.funding[j] => i = j
    /\ \A i \in 1..Len(p.funding) : p.funding[i] >= p.opened

ReplayTyped ==
    /\ cursor = None => cell = None /\ book = {} /\ trades = {} /\ reserved = {} /\ opened = {}
    /\ cursor # None => cursor \in (Nat \ {0}) \X Nat
    /\ cell # None => cursor # None /\ cell \in Nat \X Nat
    /\ cell = None => book = {}
    /\ book \subseteq Positions /\ IsFiniteSet(book) /\ IsFiniteSet(trades) /\ funded \subseteq Nat

SlotsKept ==
    /\ reserved = {Slot(p) : p \in book} /\ Cardinality(reserved) <= Slots
    /\ \A p, q \in book : p.sym = q.sym => p = q

FillsTold ==
    /\ opened = {Slot(p) : p \in book} \cup {Slot(tr) : tr \in trades}
    /\ \A tr, other \in trades : Slot(tr) = Slot(other) => tr = other
    /\ \A p \in book, tr \in trades : Slot(p) # Slot(tr)
    /\ \A p \in book \cup trades : Passed(p)

FundingTold ==
    /\ \A p \in book \cup trades : Settled(p)
    /\ \A p \in book : cursor[1] <= Len(Symbols) /\ p.sym = Symbols[cursor[1]] =>
          \A i \in 1..Len(p.funding) : p.funding[i] \in funded

\* The strengthening of the replay's part of ReplaySound.
ReplayInv == ReplayTyped /\ SlotsKept /\ FillsTold /\ FundingTold

LEMMA ReplayLimits ==
    /\ Symbols \in Seq(RP!Range(Symbols)) /\ Len(Symbols) \in Nat
    /\ \A i, j \in 1..Len(Symbols) : Symbols[i] = Symbols[j] => i = j
    /\ \A i \in 1..Len(Symbols) : Symbols[i] \in RP!Range(Symbols)
    /\ Slots \in Nat \ {0} /\ Hold \in Nat /\ Fundings \subseteq Nat /\ None \notin Nat \X Nat
<1>1. Symbols \in Seq(RP!Range(Symbols)) /\ RP!IsInjective(Symbols)
  BY ReplayAssumption DEF RP!ConstantsOK
<1>2. DOMAIN Symbols = 1..Len(Symbols) /\ Len(Symbols) \in Nat /\ \A i \in 1..Len(Symbols) : Symbols[i] \in RP!Range(Symbols)
  BY <1>1
<1> QED BY <1>1, <1>2, ReplayAssumption DEF RP!ConstantsOK, RP!IsInjective

LEMMA CellsTyped == RP!Cells \subseteq Nat \X Nat
<1>1. /\ RangeBars \in Nat /\ TrainBars \in Nat /\ ValidationBars \in Nat /\ OosBars \in Nat /\ StepBars \in Nat
  BY ReplayAssumption DEF RP!ConstantsOK
<1>2. ASSUME NEW k \in 0..RangeBars, NEW mode, NEW w \in RP!Windows PROVE RP!BuildFold(k, mode)[w] \in Nat \X Nat
  <2> DEFINE f == RP!BuildFold(k, mode)
             from == IF mode = "expanding" THEN 0 ELSE k * StepBars
             to == IF mode = "expanding" THEN TrainBars + k * StepBars ELSE from + TrainBars
  <2>1. k * StepBars \in Nat
    BY <1>1
  <2>2. from \in Nat /\ to \in Nat
    BY <1>1, <2>1
  <2> HIDE DEF from, to
  <2>3. to + ValidationBars \in Nat /\ to + ValidationBars + OosBars \in Nat
    BY <1>1, <2>2
  <2>4. f = [train |-> <<from, to>>, validation |-> <<to, to + ValidationBars>>,
             oos |-> <<to + ValidationBars, to + ValidationBars + OosBars>>]
    BY DEF RP!BuildFold, from, to
  <2>5. f["train"] \in Nat \X Nat /\ f["validation"] \in Nat \X Nat /\ f["oos"] \in Nat \X Nat
    BY <2>2, <2>3, <2>4
  <2> HIDE DEF f
  <2>6. w = "train" \/ w = "validation" \/ w = "oos"
    BY DEF RP!Windows
  <2>7. f[w] \in Nat \X Nat
    BY <2>5, <2>6
  <2> QED BY <2>7 DEF f
<1>3. ASSUME NEW c \in RP!Cells PROVE \E k \in 0..RangeBars, mode \in {"expanding", "rolling"}, w \in RP!Windows :
                                         c = RP!BuildFold(k, mode)[w]
  BY DEF RP!Cells, RP!Plan
<1> QED BY <1>2, <1>3

LEMMA ReplayInitial ==
    ASSUME RP!Init
    PROVE  ReplayInv
<1>1. /\ cell = None /\ cursor = None /\ funded = {} /\ book = {} /\ reserved = {} /\ trades = {} /\ opened = {}
  BY DEF RP!Init
<1>2. Cardinality({}) = 0 /\ IsFiniteSet({})
  BY FS_EmptySet
<1>3. ReplayTyped
  BY <1>1, <1>2 DEF ReplayTyped
<1>4. SlotsKept
  BY <1>1, <1>2, ReplayLimits DEF SlotsKept
<1>5. FillsTold /\ FundingTold
  BY <1>1 DEF FillsTold, FundingTold
<1> QED BY <1>3, <1>4, <1>5 DEF ReplayInv

LEMMA ReplayQuiet ==
    ASSUME ReplayInv, UNCHANGED RP!vars
    PROVE  ReplayInv'
<1>1. UNCHANGED <<cell, cursor, funded, book, reserved, trades, opened>>
  BY DEF RP!vars
<1>2. ReplayTyped' /\ SlotsKept'
  BY <1>1 DEF ReplayInv, ReplayTyped, SlotsKept
<1>3. FillsTold' /\ FundingTold'
  BY <1>1 DEF ReplayInv, FillsTold, FundingTold, Passed
<1> QED BY <1>2, <1>3 DEF ReplayInv

LEMMA ReplayRecords ==
    ASSUME ReplayInv, NEW c \in RP!Cells, NEW bars, RP!RecordEventTape(bars, c)
    PROVE  ReplayInv'
<1>1. cell' = c /\ cursor' = <<1, c[1]>> /\ cursor = None /\ UNCHANGED <<funded, book, reserved, trades, opened>>
  BY DEF RP!RecordEventTape
<1>2. c \in Nat \X Nat /\ c # None
  BY CellsTyped, ReplayLimits
<1>3. cursor' \in (Nat \ {0}) \X Nat /\ cursor' # None
  <2>1. c[1] \in Nat
    BY <1>2
  <2>2. <<1, c[1]>> \in (Nat \ {0}) \X Nat /\ <<1, c[1]>> \in Nat \X Nat
    BY <2>1
  <2> QED BY <1>1, <2>2, ReplayLimits
<1>4. book = {} /\ trades = {} /\ reserved = {} /\ opened = {}
  BY <1>1 DEF ReplayInv, ReplayTyped
<1>5. ReplayTyped'
  BY <1>1, <1>2, <1>3, <1>4 DEF ReplayInv, ReplayTyped
<1>6. SlotsKept'
  BY <1>1 DEF ReplayInv, SlotsKept
<1>7. FillsTold' /\ FundingTold'
  BY <1>1, <1>4 DEF FillsTold, FundingTold
<1> QED BY <1>5, <1>6, <1>7 DEF ReplayInv

-----------------------------------------------------------------------------
(* One bar.                                                                *)

\* The positions a bar starts with are those of the book, their funding settled up to it.
Paid == RP!ApplyFunding(cursor[2], book)

\* The entries of two sequences put together.
LEMMA Appended ==
    ASSUME NEW a \in Seq(Nat), NEW b \in Seq(Nat), NEW c, c = a \o b
    PROVE  /\ Len(c) = Len(a) + Len(b) /\ Len(a) \in Nat /\ Len(b) \in Nat
           /\ \A i \in 1..Len(a) : c[i] = a[i]
           /\ \A i \in 1..Len(c) : i > Len(a) => i - Len(a) \in 1..Len(b) /\ c[i] = b[i - Len(a)]
OBVIOUS

\* A position or trade that stands for another one in the reservation ledger and in time.
SameFill(p, q) == p.sym = q.sym /\ p.bar = q.bar /\ p.opened = q.opened

LEMMA DueLater ==
    ASSUME cursor[2] \in Nat
    PROVE  RP!Due(cursor[2]) \subseteq Nat \ funded /\ IsFiniteSet(RP!Due(cursor[2]))
<1>1. RP!Due(cursor[2]) \subseteq Nat \ funded /\ RP!Due(cursor[2]) \subseteq 0..(cursor[2] + 1)
  <2>1. Fundings \subseteq Nat
    BY ReplayLimits
  <2>2. \A ts \in RP!Due(cursor[2]) : ts \in Fundings /\ ts \notin funded /\ ts <= cursor[2] + 1
    BY DEF RP!Due
  <2> SUFFICES ASSUME NEW ts \in RP!Due(cursor[2]) PROVE ts \in Nat /\ ts \notin funded /\ ts \in 0..(cursor[2] + 1)
    OBVIOUS
  <2>3. ts \in Nat /\ ts \notin funded /\ ts <= cursor[2] + 1
    BY <2>1, <2>2
  <2> QED BY <2>3
<1>2. IsFiniteSet(0..(cursor[2] + 1))
  BY FS_Interval
<1> QED BY <1>1, <1>2, FS_Subset

LEMMA PaidOne ==
    ASSUME ReplayInv, cell # None, NEW p \in book,
           NEW r, r = [p EXCEPT !.funding = @ \o RP!SetToSeq({ts \in RP!Due(cursor[2]) : ts >= p.opened})],
           cursor[2] \in Nat, p.sym = RP!Symbol, cursor[1] \in 1..Len(Symbols)
    PROVE  /\ r \in Positions /\ SameFill(r, p) /\ Settled(r)
           /\ \A i \in 1..Len(r.funding) : r.funding[i] \in funded \cup RP!Due(cursor[2])
<1> DEFINE S == {ts \in RP!Due(cursor[2]) : ts >= p.opened}
           q == RP!SetToSeq(S)
<1>1. S \in SUBSET Nat /\ IsFiniteSet(S) /\ S \cap funded = {} /\ S \subseteq RP!Due(cursor[2]) /\ \A ts \in S : ts >= p.opened
  <2>1. S \subseteq RP!Due(cursor[2]) /\ \A ts \in S : ts >= p.opened
    OBVIOUS
  <2> HIDE DEF S
  <2> QED BY <2>1, FS_Subset, DueLater
<1>2. q \in Seq(S) /\ \A i, j \in 1..Len(q) : q[i] = q[j] => i = j
  BY <1>1, SettledOnce
<1>3. p \in Positions /\ Settled(p) /\ \A i \in 1..Len(p.funding) : p.funding[i] \in funded
  BY DEF ReplayInv, ReplayTyped, FundingTold, RP!Symbol
<1> HIDE DEF q, S
<1>4. r = [p EXCEPT !.funding = p.funding \o q]
  BY DEF q, S
<1>5. p.funding \in Seq(Nat) /\ q \in Seq(Nat)
  BY <1>1, <1>2, <1>3 DEF Positions
<1>6. r.funding = p.funding \o q /\ r.funding \in Seq(Nat) /\ r \in Positions /\ SameFill(r, p)
  <2>1. PICK a \in Seq(Nat), b \in Seq(Nat) : a = p.funding /\ b = q
    BY <1>5
  <2> DEFINE c == a \o b
  <2>4. c \in Seq(Nat)
    BY <2>1
  <2> HIDE DEF c
  <2>2. r = [p EXCEPT !.funding = c]
    BY <1>4, <2>1 DEF c
  <2>3. r.funding = c /\ r \in Positions /\ SameFill(r, p)
    BY <1>3, <2>2, <2>4 DEF Positions, SameFill
  <2> QED BY <2>1, <2>3, <2>4 DEF c
<1>7. /\ Len(r.funding) = Len(p.funding) + Len(q) /\ Len(p.funding) \in Nat /\ Len(q) \in Nat
      /\ \A i \in 1..Len(p.funding) : r.funding[i] = p.funding[i]
      /\ \A i \in 1..Len(r.funding) : i > Len(p.funding) => i - Len(p.funding) \in 1..Len(q) /\ r.funding[i] = q[i - Len(p.funding)]
  <2>1. PICK a \in Seq(Nat), b \in Seq(Nat) : a = p.funding /\ b = q
    BY <1>5
  <2>2. PICK c : c = r.funding
    OBVIOUS
  <2>3. c = a \o b
    BY <1>6, <2>1, <2>2
  <2>4. /\ Len(c) = Len(a) + Len(b) /\ Len(a) \in Nat /\ Len(b) \in Nat
        /\ \A i \in 1..Len(a) : c[i] = a[i]
        /\ \A i \in 1..Len(c) : i > Len(a) => i - Len(a) \in 1..Len(b) /\ c[i] = b[i - Len(a)]
    BY <2>3, Appended
  <2> QED BY <2>1, <2>2, <2>4
<1>8. \A i \in 1..Len(q) : q[i] \in S
  BY <1>2
<1>9. \A i \in 1..Len(r.funding) :
         \/ i \in 1..Len(p.funding) /\ r.funding[i] = p.funding[i] /\ r.funding[i] \in funded
         \/ i - Len(p.funding) \in 1..Len(q) /\ r.funding[i] = q[i - Len(p.funding)] /\ r.funding[i] \in S
  <2> SUFFICES ASSUME NEW i \in 1..Len(r.funding)
               PROVE  \/ i \in 1..Len(p.funding) /\ r.funding[i] = p.funding[i] /\ r.funding[i] \in funded
                      \/ i - Len(p.funding) \in 1..Len(q) /\ r.funding[i] = q[i - Len(p.funding)] /\ r.funding[i] \in S
    OBVIOUS
  <2>1. CASE i > Len(p.funding)
    BY <1>7, <1>8, <2>1
  <2>2. CASE ~(i > Len(p.funding))
    BY <1>3, <1>7, <2>2
  <2> QED BY <2>1, <2>2
<1>10. ASSUME NEW i \in 1..Len(r.funding), NEW j \in 1..Len(r.funding), r.funding[i] = r.funding[j] PROVE i = j
  <2>1. CASE r.funding[i] \in funded
    <3>1. i \in 1..Len(p.funding) /\ j \in 1..Len(p.funding) /\ p.funding[i] = p.funding[j]
      BY <1>1, <1>9, <1>10, <2>1
    <3> QED BY <1>3, <3>1 DEF Settled
  <2>2. CASE r.funding[i] \notin funded
    <3>1. i - Len(p.funding) = j - Len(p.funding)
      BY <1>2, <1>9, <1>10, <2>2
    <3> QED BY <1>7, <3>1
  <2> QED BY <2>1, <2>2
<1>11. \A i \in 1..Len(r.funding) : r.funding[i] >= r.opened
  BY <1>1, <1>3, <1>6, <1>9 DEF Settled, SameFill
<1>12. Settled(r)
  BY <1>3, <1>6, <1>10, <1>11 DEF Settled, SameFill
<1> QED BY <1>1, <1>6, <1>9, <1>12

LEMMA PaidUp ==
    ASSUME ReplayInv, cell # None, cursor[2] \in Nat, cursor[1] \in 1..Len(Symbols)
    PROVE  /\ Paid \subseteq Positions /\ IsFiniteSet(Paid)
           /\ \A r \in Paid : \E p \in book : SameFill(r, p)
           /\ \A p \in book : \E r \in Paid : SameFill(r, p)
           /\ \A r, q \in Paid : r.sym = q.sym => r = q
           /\ \A r \in Paid : Settled(r)
           /\ \A r \in Paid : r.sym = RP!Symbol =>
                 \A i \in 1..Len(r.funding) : r.funding[i] \in funded \cup RP!Due(cursor[2])
<1> DEFINE pay(p) == IF p.sym = RP!Symbol
                     THEN [p EXCEPT !.funding = @ \o RP!SetToSeq({ts \in RP!Due(cursor[2]) : ts >= p.opened})] ELSE p
<1>1. Paid = {pay(p) : p \in book}
  BY DEF Paid, RP!ApplyFunding
<1>2. ASSUME NEW p \in book
      PROVE  /\ pay(p) \in Positions /\ SameFill(pay(p), p) /\ Settled(pay(p))
             /\ pay(p).sym = RP!Symbol =>
                  \A i \in 1..Len(pay(p).funding) : pay(p).funding[i] \in funded \cup RP!Due(cursor[2])
  <2>1. CASE p.sym = RP!Symbol
    BY <2>1, PaidOne
  <2>2. CASE p.sym # RP!Symbol
    BY <2>2 DEF ReplayInv, ReplayTyped, FundingTold, SameFill
  <2> QED BY <2>1, <2>2
<1> HIDE DEF pay
<1>3. IsFiniteSet(Paid)
  <2>1. IsFiniteSet(book)
    BY DEF ReplayInv, ReplayTyped
  <2>2. PICK f : f = [p \in book |-> pay(p)]
    OBVIOUS
  <2>3. Paid = {f[p] : p \in book} /\ DOMAIN f = book /\ f = [p \in book |-> f[p]]
    BY <1>1, <2>2
  <2> QED BY <2>1, <2>3, ImageFinite
<1>4. \A r, q \in Paid : r.sym = q.sym => r = q
  <2> SUFFICES ASSUME NEW p \in book, NEW o \in book, pay(p).sym = pay(o).sym PROVE pay(p) = pay(o)
    BY <1>1
  <2>1. p.sym = o.sym
    BY <1>2 DEF SameFill
  <2> QED BY <2>1 DEF ReplayInv, SlotsKept
<1> QED BY <1>1, <1>2, <1>3, <1>4

\* No position or trade of the cell has the slot of an event the replay has not passed yet.
LEMMA NotYet ==
    ASSUME ReplayInv, cursor[1] \in 1..Len(Symbols), cursor[2] \in Nat, NEW p, Passed(p)
    PROVE  /\ p.sym = RP!Symbol => p.bar \in Nat /\ p.bar < cursor[2]
           /\ \A i \in 1..Len(Symbols) : i > cursor[1] => p.sym # Symbols[i]
<1>1. PICK j \in 1..Len(Symbols) :
         p.sym = Symbols[j] /\ (j < cursor[1] \/ (j = cursor[1] /\ p.bar \in Nat /\ p.bar < cursor[2]))
  BY DEF Passed
<1>2. p.sym = Symbols[cursor[1]] => j = cursor[1]
  BY <1>1, ReplayLimits
<1>3. ASSUME NEW i \in 1..Len(Symbols), i > cursor[1] PROVE p.sym # Symbols[i]
  <2>1. i # j
    BY <1>1, <1>3, ReplayLimits
  <2> QED BY <1>1, <2>1, ReplayLimits
<1> QED BY <1>1, <1>2, <1>3 DEF RP!Symbol

\* What a bar leaves on the book, and what it turns into trades.
Leaving(hit) == RP!Exits(RP!Symbol, cursor[2], hit, Paid)
Closing(hit) == RP!ClosedTrades(Leaving(hit), cursor[2], hit)

LEMMA LeavingAre ==
    ASSUME NEW hit
    PROVE  /\ Leaving(hit) \subseteq {p \in Paid : p.sym = RP!Symbol}
           /\ \A tr \in Closing(hit) : \E p \in Leaving(hit) : SameFill(tr, p) /\ tr.funding = p.funding
           /\ \A p \in Leaving(hit) : \E tr \in Closing(hit) : SameFill(tr, p)
           /\ (\A p, q \in Leaving(hit) : p = q) => \A tr, other \in Closing(hit) : tr = other
<1> DEFINE x(p) == RP!Exit(p, cursor[2], hit)
<1>1. Leaving(hit) \subseteq {p \in Paid : p.sym = RP!Symbol}
  BY DEF Leaving, RP!Exits, RP!OpenOf
<1>2. Closing(hit) = {RP!Trade(p, x(p), "close") : p \in Leaving(hit)}
  BY DEF Closing, RP!ClosedTrades
<1>3. \A p \in Leaving(hit) : SameFill(RP!Trade(p, x(p), "close"), p) /\ RP!Trade(p, x(p), "close").funding = p.funding
  BY DEF RP!Trade, SameFill
<1> HIDE DEF x
<1> QED BY <1>1, <1>2, <1>3

LEMMA BarTrades ==
    ASSUME ReplayInv, cell # None, cursor[1] \in 1..Len(Symbols), cursor[2] \in Nat, NEW hit \in BOOLEAN
    PROVE  LET kept == Paid \ Leaving(hit)
               settled == trades \cup Closing(hit)
           IN  /\ IsFiniteSet(settled)
               /\ {Slot(p) : p \in book} = {Slot(p) : p \in kept} \cup {Slot(tr) : tr \in Closing(hit)}
               /\ {Slot(p) : p \in kept} = {Slot(p) : p \in book} \ {Slot(p) : p \in Leaving(hit)}
               /\ opened = {Slot(p) : p \in kept} \cup {Slot(tr) : tr \in settled}
               /\ \A tr, other \in settled : Slot(tr) = Slot(other) => tr = other
               /\ \A p \in kept, tr \in settled : Slot(p) # Slot(tr)
               /\ \A p \in kept \cup settled : Passed(p) /\ Settled(p)
<1> DEFINE kept == Paid \ Leaving(hit)
           settled == trades \cup Closing(hit)
<1>1. /\ Paid \subseteq Positions /\ IsFiniteSet(Paid)
      /\ \A r \in Paid : \E p \in book : SameFill(r, p)
      /\ \A p \in book : \E r \in Paid : SameFill(r, p)
      /\ \A r, q \in Paid : r.sym = q.sym => r = q
      /\ \A r \in Paid : Settled(r)
  BY PaidUp
<1>2. /\ Leaving(hit) \subseteq {p \in Paid : p.sym = RP!Symbol}
      /\ \A tr \in Closing(hit) : \E p \in Leaving(hit) : SameFill(tr, p) /\ tr.funding = p.funding
      /\ \A p \in Leaving(hit) : \E tr \in Closing(hit) : SameFill(tr, p)
      /\ \A tr, other \in Closing(hit) : tr = other
  <2>1. \A p, q \in Leaving(hit) : p = q
    BY <1>1, LeavingAre
  <2> QED BY <2>1, LeavingAre
<1>3. /\ opened = {Slot(p) : p \in book} \cup {Slot(tr) : tr \in trades}
      /\ \A tr, other \in trades : Slot(tr) = Slot(other) => tr = other
      /\ \A p \in book, tr \in trades : Slot(p) # Slot(tr)
      /\ \A p \in book \cup trades : Passed(p) /\ Settled(p)
      /\ IsFiniteSet(trades)
  BY DEF ReplayInv, FillsTold, FundingTold, ReplayTyped
<1>4. \A p, q : SameFill(p, q) => Slot(p) = Slot(q) /\ (Passed(q) => Passed(p))
               /\ (p.funding = q.funding /\ Settled(q) => Settled(p)) /\ p.sym = q.sym
  <2>1. ASSUME NEW p, NEW q, SameFill(p, q) PROVE Slot(p) = Slot(q) /\ p.sym = q.sym
    BY <2>1 DEF SameFill, Slot
  <2>2. ASSUME NEW p, NEW q, SameFill(p, q), Passed(q) PROVE Passed(p)
    BY <2>2 DEF SameFill, Passed
  <2>3. ASSUME NEW p, NEW q, SameFill(p, q), p.funding = q.funding, Settled(q) PROVE Settled(p)
    BY <2>3 DEF SameFill, Settled
  <2> QED BY <2>1, <2>2, <2>3
<1>5. \A r, q \in Paid : Slot(r) = Slot(q) => r = q
  BY <1>1 DEF Slot
<1>6. {Slot(p) : p \in book} = {Slot(p) : p \in Paid}
  BY <1>1, <1>4
<1>7. {Slot(tr) : tr \in Closing(hit)} = {Slot(p) : p \in Leaving(hit)}
  BY <1>2, <1>4
<1>8. Leaving(hit) \subseteq Paid
  BY <1>2
<1>9. {Slot(p) : p \in kept} = {Slot(p) : p \in book} \ {Slot(p) : p \in Leaving(hit)}
  BY <1>5, <1>6, <1>8
<1>10. {Slot(p) : p \in book} = {Slot(p) : p \in kept} \cup {Slot(tr) : tr \in Closing(hit)}
  BY <1>6, <1>7, <1>8
<1>11. opened = {Slot(p) : p \in kept} \cup {Slot(tr) : tr \in settled}
  BY <1>3, <1>10
<1>12. \A tr \in Closing(hit) : \E p \in book : Slot(tr) = Slot(p)
  <2> SUFFICES ASSUME NEW tr \in Closing(hit) PROVE \E p \in book : Slot(tr) = Slot(p)
    OBVIOUS
  <2>1. PICK p \in Leaving(hit) : Slot(tr) = Slot(p)
    BY <1>2, <1>4
  <2>2. PICK q \in book : Slot(p) = Slot(q)
    BY <1>6, <1>8
  <2> QED BY <2>1, <2>2
<1>13. \A tr, other \in settled : Slot(tr) = Slot(other) => tr = other
  BY <1>2, <1>3, <1>12
<1>14. \A p \in kept, tr \in settled : Slot(p) # Slot(tr)
  <2> SUFFICES ASSUME NEW p \in kept, NEW tr \in settled, Slot(p) = Slot(tr) PROVE FALSE
    OBVIOUS
  <2>1. CASE tr \in trades
    BY <1>3, <1>6, <2>1
  <2>2. CASE tr \in Closing(hit)
    <3>1. PICK q \in Leaving(hit) : Slot(tr) = Slot(q)
      BY <1>7, <2>2
    <3> QED BY <1>5, <1>8, <3>1
  <2> QED BY <2>1, <2>2
<1>15. \A p \in Paid : Passed(p) /\ Settled(p)
  BY <1>1, <1>3, <1>4
<1>16. \A tr \in Closing(hit) : Passed(tr) /\ Settled(tr)
  BY <1>2, <1>4, <1>8, <1>15
<1>17. \A p \in kept \cup settled : Passed(p) /\ Settled(p)
  BY <1>3, <1>15, <1>16
<1>18. IsFiniteSet(settled)
  <2>1. CASE Closing(hit) = {}
    BY <1>3, <2>1
  <2>2. CASE Closing(hit) # {}
    <3>1. PICK tr : tr \in Closing(hit)
      BY <2>2
    <3>2. Closing(hit) = {tr}
      BY <1>2, <3>1
    <3>3. IsFiniteSet(Closing(hit))
      BY <3>2, FS_Singleton
    <3> QED BY <1>3, <3>3, FS_Union
  <2> QED BY <2>1, <2>2
<1> HIDE DEF kept, settled
<1> QED BY <1>9, <1>10, <1>11, <1>13, <1>14, <1>17, <1>18 DEF kept, settled

LEMMA ReplayBar ==
    ASSUME ReplayInv, NEW hit \in BOOLEAN, NEW fate, RP!ProcessBar(hit, fate)
    PROVE  ReplayInv'
<1> DEFINE t == cursor[2]
           s == RP!Symbol
           kept == Paid \ Leaving(hit)
           settled == trades \cup Closing(hit)
           freed == RP!ReleasedAll(reserved, Leaving(hit))
           new == RP!Opened(s, t)
           added == IF fate = "filled" THEN {new} ELSE {}
<1>1. cell # None /\ cell \in Nat \X Nat /\ cursor # None /\ cursor \in (Nat \ {0}) \X Nat /\ cursor[1] <= Len(Symbols)
  BY DEF RP!ProcessBar, ReplayInv, ReplayTyped
<1>2. cursor[1] \in 1..Len(Symbols) /\ t \in Nat /\ s = Symbols[cursor[1]] /\ s \in RP!Range(Symbols)
  BY <1>1, ReplayLimits DEF RP!Symbol
<1>3. /\ RP!Offer(s, t, fate, kept, freed) /\ trades' = settled /\ book' = kept \cup added
      /\ reserved' = freed \cup {Slot(p) : p \in added}
      /\ opened' = opened \cup {Slot(p) : p \in added} /\ RP!Advance(t) /\ cell' = cell
  <2>5. Slot(new) = <<s, t>>
    BY DEF Slot, RP!Opened
  <2>2. /\ RP!Offer(s, t, fate, kept, freed) /\ trades' = settled
        /\ book' = IF fate = "filled" THEN kept \cup {new} ELSE kept
        /\ reserved' = IF fate = "filled" THEN freed \cup {<<s, t>>} ELSE freed
        /\ opened' = IF fate = "filled" THEN opened \cup {<<s, t>>} ELSE opened
        /\ RP!Advance(t) /\ cell' = cell
    BY DEF RP!ProcessBar, Leaving, Closing, Paid
  <2> HIDE DEF new, kept, settled, freed, s, t
  <2>1. added = {new} => {Slot(p) : p \in added} = {<<s, t>>}
    BY <2>5
  <2>3. CASE fate = "filled"
    BY <2>1, <2>2, <2>3
  <2>4. CASE fate # "filled"
    BY <2>2, <2>4
  <2> QED BY <2>3, <2>4
<1>4. /\ IsFiniteSet(settled)
      /\ {Slot(p) : p \in kept} = {Slot(p) : p \in book} \ {Slot(p) : p \in Leaving(hit)}
      /\ opened = {Slot(p) : p \in kept} \cup {Slot(tr) : tr \in settled}
      /\ \A tr, other \in settled : Slot(tr) = Slot(other) => tr = other
      /\ \A p \in kept, tr \in settled : Slot(p) # Slot(tr)
      /\ \A p \in kept \cup settled : Passed(p) /\ Settled(p)
  BY <1>1, <1>2, BarTrades
<1>5. /\ Paid \subseteq Positions /\ IsFiniteSet(Paid) /\ \A r, q \in Paid : r.sym = q.sym => r = q
      /\ \A r \in Paid : r.sym = s => \A i \in 1..Len(r.funding) : r.funding[i] \in funded \cup RP!Due(t)
  BY <1>1, <1>2, PaidUp
<1>6. Leaving(hit) \subseteq Paid
  BY LeavingAre
<1>7. freed = {Slot(p) : p \in kept} /\ IsFiniteSet(kept)
  <2>1. IsFiniteSet(Leaving(hit)) /\ IsFiniteSet(kept)
    BY <1>5, <1>6, FS_Subset
  <2>2. freed = reserved \ {Slot(p) : p \in Leaving(hit)}
    BY <2>1, AllReleased
  <2> QED BY <1>4, <2>1, <2>2 DEF ReplayInv, SlotsKept
<1>8. fate = "filled" => (\A p \in kept : p.sym # s) /\ Cardinality(freed) < Slots
  <2>1. fate = "filled" => RP!Intended(s, t, kept) /\ RP!SlotFree(freed)
    BY <1>3 DEF RP!Offer
  <2> HIDE DEF kept, freed, s, t
  <2> QED BY <2>1, ReplayCounts DEF RP!Intended, RP!SlotFree, RP!OpenOf
<1>9. /\ new \in Positions /\ new.sym = s /\ new.bar = t /\ new.opened = t + 1 /\ new.funding = <<>> /\ Slot(new) = <<s, t>>
  BY <1>2, ReplayLimits DEF RP!Opened, Positions, Slot
<1>10. \A p \in kept \cup settled : (p.sym = s => p.bar \in Nat /\ p.bar < t) /\ \A i \in 1..Len(Symbols) : i > cursor[1] => p.sym # Symbols[i]
  BY <1>2, <1>4, NotYet
<1>11. /\ \/ cursor' = <<cursor[1], t + 1>> /\ funded' = funded \cup RP!Due(t)
          \/ cursor' = <<cursor[1] + 1, cell[1]>> /\ funded' = {}
       /\ cell[1] \in Nat
  BY <1>1, <1>3 DEF RP!Advance
<1> HIDE DEF s, t, kept, settled, freed, new
<1>12. cursor' \in (Nat \ {0}) \X Nat /\ cursor' # None /\ funded' \subseteq Nat
  <2>1. RP!Due(t) \subseteq Nat /\ funded \subseteq Nat
    BY <1>2, DueLater DEF t, ReplayInv, ReplayTyped
  <2>2. <<cursor[1], t + 1>> \in (Nat \ {0}) \X Nat /\ <<cursor[1] + 1, cell[1]>> \in (Nat \ {0}) \X Nat
    BY <1>1, <1>2, <1>11
  <2>3. cursor' \in (Nat \ {0}) \X Nat /\ funded' \subseteq Nat
    BY <1>11, <2>1, <2>2
  <2>4. (Nat \ {0}) \X Nat \subseteq Nat \X Nat
    OBVIOUS
  <2> QED BY <2>3, <2>4, ReplayLimits
<1>13. ReplayTyped'
  <2>1. IsFiniteSet(kept \cup added)
    BY <1>7, FS_AddElement
  <2>2. kept \cup added \subseteq Positions
    BY <1>5, <1>9 DEF kept
  <2> QED BY <1>1, <1>3, <1>4, <1>12, <2>1, <2>2 DEF ReplayTyped
<1>14. SlotsKept'
  <2>1. reserved' = {Slot(p) : p \in book'}
    BY <1>3, <1>7
  <2>2. \A p, q \in book' : p.sym = q.sym => p = q
    BY <1>3, <1>5, <1>8, <1>9 DEF kept
  <2>3. Cardinality(reserved') <= Slots
    <3>1. IsFiniteSet(reserved) /\ freed \subseteq reserved /\ Cardinality(reserved) <= Slots
      <4>1. PICK f : f = [p \in book |-> Slot(p)]
        OBVIOUS
      <4>2. reserved = {f[p] : p \in book}
        BY <4>1 DEF ReplayInv, SlotsKept
      <4>3. IsFiniteSet(reserved)
        BY <4>1, <4>2, ImageFinite DEF ReplayInv, ReplayTyped
      <4> QED BY <1>4, <1>7, <4>3 DEF ReplayInv, SlotsKept
    <3>2. IsFiniteSet(freed) /\ Cardinality(freed) <= Slots /\ Cardinality(freed) \in Nat
      <4>1. IsFiniteSet(freed) /\ Cardinality(freed) <= Cardinality(reserved) /\ Cardinality(freed) \in Nat /\ Cardinality(reserved) \in Nat
        BY <3>1, FS_Subset, FS_CardinalityType
      <4> QED BY <3>1, <4>1, ReplayLimits
    <3>3. CASE fate = "filled"
      <4>1. reserved' = freed \cup {<<s, t>>}
        BY <1>3, <1>9, <3>3
      <4>2. Cardinality(freed \cup {<<s, t>>}) <= Cardinality(freed) + 1
        <5>1. CASE <<s, t>> \in freed
          BY <3>2, <5>1, FS_AddElement
        <5>2. CASE <<s, t>> \notin freed
          BY <3>2, <5>2, FS_AddElement
        <5> QED BY <5>1, <5>2
      <4>3. Cardinality(freed \cup {<<s, t>>}) \in Nat
        BY <3>2, FS_AddElement, FS_CardinalityType
      <4> QED BY <1>8, <3>2, <3>3, <4>1, <4>2, <4>3, ReplayLimits
    <3>4. CASE fate # "filled"
      <4>1. reserved' = freed
        BY <1>3, <3>4
      <4> QED BY <3>2, <4>1
    <3> QED BY <3>3, <3>4
  <2> QED BY <2>1, <2>2, <2>3 DEF SlotsKept
<1>15. \A p \in book' \cup trades' : Passed(p)' /\ Settled(p)
  <2>1. ASSUME NEW p \in kept \cup settled PROVE Passed(p)' /\ Settled(p)
    <3>1. PICK j \in 1..Len(Symbols) :
             p.sym = Symbols[j] /\ (j < cursor[1] \/ (j = cursor[1] /\ p.bar \in Nat /\ p.bar < t))
      BY <1>4 DEF Passed, t
    <3>2. j < cursor'[1] \/ (j = cursor'[1] /\ p.bar \in Nat /\ p.bar < cursor'[2])
      <4>1. CASE cursor' = <<cursor[1], t + 1>>
        BY <1>2, <3>1, <4>1
      <4>2. CASE cursor' = <<cursor[1] + 1, cell[1]>>
        BY <1>2, <3>1, <4>2
      <4> QED BY <1>11, <4>1, <4>2
    <3> QED BY <1>4, <3>1, <3>2 DEF Passed
  <2>2. ASSUME NEW n, n = new PROVE Passed(n)' /\ Settled(n)
    <3>1. cursor[1] < cursor'[1] \/ (cursor[1] = cursor'[1] /\ t < cursor'[2])
      <4>1. CASE cursor' = <<cursor[1], t + 1>>
        BY <1>2, <4>1
      <4>2. CASE cursor' = <<cursor[1] + 1, cell[1]>>
        BY <1>2, <4>2
      <4> QED BY <1>11, <4>1, <4>2
    <3>2. n.sym = Symbols[cursor[1]] /\ n.bar = t /\ t \in Nat /\ n.opened \in Nat /\ n.funding = <<>>
      BY <1>2, <1>9, <2>2
    <3>3. Passed(n)'
      BY <1>2, <3>1, <3>2 DEF Passed
    <3> QED BY <3>2, <3>3 DEF Settled
  <2>3. \A p \in added : p = new
    OBVIOUS
  <2> QED BY <1>3, <2>1, <2>2, <2>3
<1>16. FillsTold'
  <2>1. opened' = {Slot(p) : p \in book'} \cup {Slot(tr) : tr \in trades'}
    BY <1>3, <1>4
  <2>2. \A tr, other \in trades' : Slot(tr) = Slot(other) => tr = other
    BY <1>3, <1>4
  <2>3. \A p \in book', tr \in trades' : Slot(p) # Slot(tr)
    <3> SUFFICES ASSUME NEW p \in book', NEW tr \in trades', Slot(p) = Slot(tr) PROVE FALSE
      OBVIOUS
    <3>1. CASE p \in kept
      BY <1>3, <1>4, <3>1
    <3>2. CASE p = new
      <4>1. tr.sym = s /\ tr.bar = t /\ tr \in settled
        BY <1>3, <1>9, <3>2 DEF Slot
      <4> QED BY <1>2, <1>10, <4>1
    <3> QED BY <1>3, <3>1, <3>2
  <2> QED BY <1>15, <2>1, <2>2, <2>3 DEF FillsTold
<1>17. FundingTold'
  <2> SUFFICES ASSUME NEW p \in book', cursor'[1] <= Len(Symbols), p.sym = Symbols[cursor'[1]]
               PROVE  \A i \in 1..Len(p.funding) : p.funding[i] \in funded'
    BY <1>15 DEF FundingTold
  <2>1. CASE p = new
    BY <1>9, <2>1
  <2>2. CASE p \in kept /\ cursor' = <<cursor[1], t + 1>> /\ funded' = funded \cup RP!Due(t)
    BY <1>2, <1>5, <2>2 DEF kept
  <2>3. CASE p \in kept /\ cursor' = <<cursor[1] + 1, cell[1]>>
    BY <1>2, <1>10, <2>3, ReplayLimits
  <2> QED BY <1>3, <1>11, <2>1, <2>2, <2>3
<1> QED BY <1>13, <1>14, <1>16, <1>17 DEF ReplayInv

\* A cell ends with its survivors force-closed.
LEMMA ReplayFinishes ==
    ASSUME ReplayInv, RP!FinishCell
    PROVE  ReplayInv'
<1> DEFINE x == [reason |-> "force_close", at |-> cell[2]]
           close(p) == RP!Trade(p, x, "force-close")
           forced == {close(p) : p \in book}
<1>1. /\ trades' = trades \cup forced /\ book' = {} /\ reserved' = RP!ReleasedAll(reserved, book) /\ cell' = None
      /\ cursor' = cursor /\ funded' = funded /\ opened' = opened /\ cell # None
  BY DEF RP!FinishCell, RP!ForceCloseOpenPositions, RP!Survivors
<1>2. cursor # None /\ cursor \in (Nat \ {0}) \X Nat /\ IsFiniteSet(book) /\ IsFiniteSet(trades) /\ funded \subseteq Nat
  BY <1>1 DEF ReplayInv, ReplayTyped
<1>3. \A p \in book : SameFill(close(p), p) /\ close(p).funding = p.funding /\ Slot(close(p)) = Slot(p)
  BY DEF SameFill, RP!Trade, Slot
<1>4. IsFiniteSet(forced)
  <2> HIDE DEF close
  <2>1. PICK f : f = [p \in book |-> close(p)]
    OBVIOUS
  <2>2. forced = {f[p] : p \in book} /\ DOMAIN f = book /\ f = [p \in book |-> f[p]]
    BY <2>1
  <2> HIDE DEF forced
  <2> QED BY <1>2, <2>2, ImageFinite
<1> HIDE DEF close, x
<1>5. /\ opened = {Slot(p) : p \in book} \cup {Slot(tr) : tr \in trades}
      /\ \A tr, other \in trades : Slot(tr) = Slot(other) => tr = other
      /\ \A p \in book, tr \in trades : Slot(p) # Slot(tr)
      /\ \A p, q \in book : p.sym = q.sym => p = q
      /\ \A p \in book \cup trades : Passed(p) /\ Settled(p)
  BY DEF ReplayInv, FillsTold, FundingTold, SlotsKept
<1>6. reserved' = {}
  BY <1>1, <1>2, AllReleased DEF ReplayInv, SlotsKept
<1>7. ReplayTyped'
  <2>1. IsFiniteSet(trades')
    BY <1>1, <1>2, <1>4, FS_Union
  <2> QED BY <1>1, <1>2, <2>1, FS_EmptySet DEF ReplayTyped
<1>8. SlotsKept'
  BY <1>1, <1>6, FS_EmptySet, ReplayLimits DEF SlotsKept
<1>9. {Slot(p) : p \in book} = {Slot(tr) : tr \in forced}
  BY <1>3
<1>10. opened' = {Slot(tr) : tr \in trades'}
  BY <1>1, <1>5, <1>9
<1>11. \A p, q \in book : Slot(p) = Slot(q) => p = q
  BY <1>5 DEF Slot
<1>12. \A tr, other \in trades' : Slot(tr) = Slot(other) => tr = other
  <2>1. \A tr, other \in forced : Slot(tr) = Slot(other) => tr = other
    BY <1>3, <1>11
  <2>2. ASSUME NEW tr \in forced, NEW other \in trades PROVE Slot(tr) # Slot(other)
    BY <1>3, <1>5, <2>2
  <2> QED BY <1>1, <1>5, <2>1, <2>2
<1>13. \A tr \in trades' : Passed(tr)' /\ Settled(tr)
  <2>1. ASSUME NEW tr, Passed(tr) PROVE Passed(tr)'
    BY <1>1, <2>1 DEF Passed
  <2>2. ASSUME NEW p \in book PROVE Passed(close(p)) /\ Settled(close(p))
    BY <1>3, <1>5 DEF Passed, Settled, SameFill
  <2> QED BY <1>1, <1>5, <2>1, <2>2
<1>14. FillsTold' /\ FundingTold'
  BY <1>1, <1>10, <1>12, <1>13 DEF FillsTold, FundingTold
<1> QED BY <1>7, <1>8, <1>14 DEF ReplayInv

LEMMA ReplayStep ==
    ASSUME ReplayInv, RP!Next
    PROVE  ReplayInv'
BY ReplayRecords, ReplayBar, ReplayFinishes DEF RP!Next

LEMMA ReplayBounds ==
    ASSUME ReplayInv
    PROVE  RP!SlotsMatchBook /\ RP!FlatAtTheEnd /\ RP!FundingOnce
<1>1. RP!SlotsMatchBook
  BY ReplayCounts DEF RP!SlotsMatchBook, ReplayInv, SlotsKept, Slot
<1>2. RP!FlatAtTheEnd
  <2> SUFFICES ASSUME cursor # None, cell = None
               PROVE  book = {} /\ {<<tr.sym, tr.bar>> : tr \in trades} = opened /\ Cardinality(trades) = Cardinality(opened)
    BY ReplayCounts DEF RP!FlatAtTheEnd
  <2>1. book = {} /\ IsFiniteSet(trades) /\ opened = {Slot(tr) : tr \in trades}
        /\ \A tr, other \in trades : Slot(tr) = Slot(other) => tr = other
    BY DEF ReplayInv, ReplayTyped, FillsTold
  <2>2. PICK f : f = [tr \in trades |-> Slot(tr)]
    OBVIOUS
  <2>3. f \in [trades -> opened] /\ opened = {f[tr] : tr \in trades} /\ \A tr, other \in trades : f[tr] = f[other] => tr = other
    BY <2>1, <2>2
  <2>4. f \in Bijection(trades, opened)
    BY <2>3 DEF Bijection, Injection, Surjection, IsInjective
  <2>5. Cardinality(trades) = Cardinality(opened)
    BY <2>1, <2>4, FS_Bijection DEF ExistsBijection
  <2> QED BY <2>1, <2>5 DEF Slot
<1>3. RP!FundingOnce
  <2> SUFFICES ASSUME NEW p \in book \cup trades
               PROVE  RP!IsInjective(p.funding) /\ \A i \in DOMAIN p.funding : p.funding[i] >= p.opened
    BY DEF RP!FundingOnce
  <2>1. Settled(p)
    BY DEF ReplayInv, FundingTold
  <2>2. DOMAIN p.funding = 1..Len(p.funding)
    BY <2>1 DEF Settled
  <2> QED BY <2>1, <2>2 DEF Settled, RP!IsInjective
<1> QED BY <1>1, <1>2, <1>3

\* Behind ReplaySound, for every range, split policy, universe, funding calendar and slot limit:
\* the slots held in the reservation ledger are those of the book, one position a symbol; the fills
\* told are those of the book and of the trades, and all of them lie behind the replay's cursor, so
\* that no bar is told twice; and the funding a position of the walked symbol was charged is the
\* funding its cursor has passed (BacktestRunnerService.processBar, applyFundingForBar).
THEOREM ReplayIsSound == Spec => []ReplaySound
<1> DEFINE I == part = "replay" => ReplayInv
<1>1. Init => I
  BY ReplayInitial DEF Init
<1>2. I /\ [Next]_vars => I'
  <2> SUFFICES ASSUME I, [Next]_vars, part' = "replay" PROVE ReplayInv'
    OBVIOUS
  <2>1. CASE Next
    BY <2>1, ReplayStep DEF Next
  <2>2. CASE UNCHANGED vars
    <3>1. part = "replay" /\ UNCHANGED RP!vars
      BY <2>2 DEF vars
    <3> QED BY <3>1, ReplayQuiet
  <2> QED BY <2>1, <2>2
<1>3. I => ReplaySound
  BY ReplayBounds DEF ReplaySound
<1> QED BY <1>1, <1>2, <1>3, PTL DEF Spec

-----------------------------------------------------------------------------
(* The pages.                                                              *)

LEMMA PagesCounts == \A S : PG!Cardinality(S) = Cardinality(S)
BY DEF PG!IsFiniteSet, IsFiniteSet, PG!Cardinality, Cardinality

\* Rows as a query finds them: each with a time and an id of its own.
Listable(S) ==
    /\ IsFiniteSet(S) /\ \A r \in S : r.ts \in Nat /\ r.id \in Nat
    /\ \A r, q \in S : r.id = q.id => r = q

\* Rows that come before one in the list are fewer than those before a later one.
LEMMA Places ==
    ASSUME NEW S, Listable(S), NEW place, place = [r \in S |-> Cardinality({q \in S : PG!Before(q, r)}) + 1]
    PROVE  /\ place \in [S -> 1..Cardinality(S)]
           /\ \A a, b \in S : PG!Before(a, b) => place[a] < place[b]
           /\ \A a, b \in S : place[a] = place[b] => a = b
<1> DEFINE pred(r) == {q \in S : PG!Before(q, r)}
<1>1. \A r \in S : IsFiniteSet(pred(r)) /\ pred(r) \subseteq S \ {r}
  BY FS_Subset DEF Listable, PG!Before
<1>2. ASSUME NEW r \in S PROVE Cardinality(pred(r)) \in Nat /\ Cardinality(pred(r)) + 1 \in 1..Cardinality(S)
  <2>1. IsFiniteSet(S \ {r}) /\ Cardinality(S \ {r}) = Cardinality(S) - 1 /\ Cardinality(S) \in Nat
    BY OneLess DEF Listable
  <2>2. Cardinality(pred(r)) \in Nat /\ Cardinality(S \ {r}) \in Nat /\ Cardinality(pred(r)) <= Cardinality(S \ {r})
    BY <1>1, <2>1, PartCounts
  <2> QED BY <2>1, <2>2
<1>3. ASSUME NEW a \in S, NEW b \in S, PG!Before(a, b) PROVE Cardinality(pred(a)) < Cardinality(pred(b))
  <2>1. pred(a) \subseteq pred(b) \ {a} /\ a \in pred(b)
    BY <1>3 DEF Listable, PG!Before
  <2>2. IsFiniteSet(pred(b) \ {a}) /\ Cardinality(pred(b) \ {a}) = Cardinality(pred(b)) - 1 /\ Cardinality(pred(b)) \in Nat
    BY <1>1, <2>1, OneLess
  <2>3. Cardinality(pred(a)) <= Cardinality(pred(b) \ {a}) /\ Cardinality(pred(a)) \in Nat
    BY <2>1, <2>2, PartCounts
  <2> QED BY <2>2, <2>3
<1>4. \A r \in S : place[r] = Cardinality(pred(r)) + 1
  OBVIOUS
<1>5. \A a, b \in S : a = b \/ PG!Before(a, b) \/ PG!Before(b, a)
  BY DEF Listable, PG!Before
<1>6. place \in [S -> 1..Cardinality(S)]
  <2> HIDE DEF pred
  <2> QED BY <1>2, <1>4
<1>7. \A a, b \in S : PG!Before(a, b) => place[a] < place[b]
  <2> HIDE DEF pred
  <2> QED BY <1>2, <1>3, <1>4
<1> HIDE DEF pred
<1>8. \A a, b \in S : place[a] = place[b] => a = b
  <2> SUFFICES ASSUME NEW a \in S, NEW b \in S, place[a] = place[b] PROVE a = b
    OBVIOUS
  <2>1. place[a] \in Int /\ ~(place[a] < place[b]) /\ ~(place[b] < place[a])
    BY <1>6
  <2>2. ~PG!Before(a, b) /\ ~PG!Before(b, a)
    BY <1>7, <2>1
  <2> QED BY <1>5, <2>2
<1> QED BY <1>6, <1>7, <1>8

\* The list: every row once, each before those after it.
LEMMA SortedIs ==
    ASSUME NEW S, Listable(S), NEW list, list = PG!Sorted(S)
    PROVE  /\ Cardinality(S) \in Nat /\ list \in [1..Cardinality(S) -> S]
           /\ \A i, j \in 1..Cardinality(S) : i < j => PG!Before(list[i], list[j])
           /\ \A i, j \in 1..Cardinality(S) : list[i] = list[j] => i = j
           /\ \A r \in S : \E i \in 1..Cardinality(S) : list[i] = r
<1> DEFINE n == Cardinality(S)
<1>1. n \in Nat /\ IsFiniteSet(1..n) /\ Cardinality(1..n) = n /\ IsFiniteSet(S)
  BY FS_CardinalityType, FS_Interval DEF Listable
<1>2. PICK place : place = [r \in S |-> Cardinality({q \in S : PG!Before(q, r)}) + 1]
  OBVIOUS
<1>3. /\ place \in [S -> 1..n]
      /\ \A a, b \in S : PG!Before(a, b) => place[a] < place[b]
      /\ \A a, b \in S : place[a] = place[b] => a = b
  BY <1>2, Places
<1> HIDE DEF n
<1>4. place \in Surjection(S, 1..n)
  <2>1. place \in Injection(S, 1..n)
    BY <1>3 DEF Injection, IsInjective
  <2> QED BY <1>1, <2>1, FS_Injection DEF n
<1>5. \A i \in 1..n : \E r \in S : place[r] = i
  BY <1>4 DEF Surjection
<1> DEFINE slots == [i \in 1..n |-> CHOOSE r \in S : place[r] = i]
<1>6. slots \in [1..n -> S] /\ \A i \in 1..n : place[slots[i]] = i
  BY <1>5
<1> HIDE DEF slots
<1>7. \A i, j \in 1..n : i < j => PG!Before(slots[i], slots[j])
  <2> SUFFICES ASSUME NEW i \in 1..n, NEW j \in 1..n, i < j PROVE PG!Before(slots[i], slots[j])
    OBVIOUS
  <2>1. slots[i] # slots[j] /\ ~PG!Before(slots[j], slots[i])
    BY <1>3, <1>6
  <2> QED BY <1>6, <2>1 DEF Listable, PG!Before
<1>8. \A i, j \in 1..n : slots[i] = slots[j] => i = j
  BY <1>6
<1> DEFINE Good(seq) == \A i, j \in DOMAIN seq : i < j => PG!Before(seq[i], seq[j])
<1>9. PG!SetToSeqs(S) = {f \in [1..n -> S] : \A i, j \in 1..n : i # j => f[i] # f[j]}
  BY PagesCounts DEF PG!SetToSeqs, n
<1>10. slots \in PG!SetToSeqs(S) /\ Good(slots)
  BY <1>6, <1>7, <1>8, <1>9
<1>11. list = CHOOSE seq \in PG!SetToSeqs(S) : Good(seq)
  BY DEF PG!Sorted
<1> HIDE DEF Good
<1>12. list \in PG!SetToSeqs(S) /\ Good(list)
  BY <1>10, <1>11
<1>13. /\ list \in [1..n -> S] /\ \A i, j \in 1..n : i < j => PG!Before(list[i], list[j])
       /\ \A i, j \in 1..n : list[i] = list[j] => i = j
  BY <1>9, <1>12 DEF Good
<1>14. \A r \in S : \E i \in 1..n : list[i] = r
  <2>1. list \in Injection(1..n, S)
    BY <1>13 DEF Injection, IsInjective
  <2>2. list \in Surjection(1..n, S)
    BY <1>1, <2>1, FS_Injection DEF n
  <2> QED BY <2>2 DEF Surjection
<1> QED BY <1>1, <1>13, <1>14 DEF n

-----------------------------------------------------------------------------
(* A walk.                                                                 *)

Got(id) == \E i \in 1..Len(got) : got[i] = id

\* The row lies behind where the client is.
Ahead(r) == PG!Decode(cursor) = None \/ PG!Before(PG!Decode(cursor), r)

Matched(r) == r \in rows /\ (filter = None \/ r.tag = filter)

RowsTyped ==
    /\ now \in 0..PagesTime /\ IsFiniteSet(rows)
    /\ \A r \in rows : r.id \in 1..Cardinality(rows) /\ r.ts \in 0..PagesTime /\ r.tag \in Tags /\ r.pnl \in Int
    /\ \A r, q \in rows : r.id = q.id => r = q

WalkTyped ==
    /\ secret \in Nat /\ done \in BOOLEAN /\ rotated \in BOOLEAN /\ got \in Seq(Nat)
    /\ cursor # None => cursor \in [ts : Nat, id : Nat, key : 0..secret]

\* Nothing that was there is behind the client without having been brought.
NothingLost ==
    /\ \A id \in present : \E r \in rows : Matched(r) /\ r.id = id
    /\ ~done => \A r \in rows : Matched(r) /\ r.id \in present => Ahead(r) \/ Got(r.id)
    /\ done /\ got # <<>> => \A id \in present : Got(id)

\* With one secret all along, what was brought is behind the client, once.
NothingTwice ==
    ~rotated =>
        /\ \A i, j \in 1..Len(got) : got[i] = got[j] => i = j
        /\ ~done /\ cursor = None => got = <<>>
        /\ ~done /\ cursor # None =>
              /\ cursor.key = secret
              /\ \A i \in 1..Len(got) : \E r \in rows : r.id = got[i] /\ ~PG!Before(cursor, r)

\* The strengthening of the pages' part of OperationsSound.
PagesInv == RowsTyped /\ WalkTyped /\ NothingLost /\ NothingTwice

LEMMA PagesLimits ==
    /\ PageSize \in Nat \ {0} /\ DayLen \in Nat \ {0} /\ WindowDays \in Nat /\ PagesTime \in Nat
    /\ MaxRows \in Nat /\ MaxRotations \in Nat /\ MaxLag \in Nat /\ PageResults \subseteq Int
    /\ None \notin Tags /\ None \notin [ts : Nat, id : Nat, key : Nat]
BY PagesAssumption DEF PG!ConstantsOK

LEMMA PagesInitial ==
    ASSUME PG!Init
    PROVE  PagesInv
<1>1. /\ now = 0 /\ rows = {} /\ secret = 0 /\ cursor = None /\ got = <<>> /\ done = TRUE /\ present = {} /\ rotated = FALSE
  BY DEF PG!Init
<1>2. RowsTyped
  BY <1>1, PagesLimits, FS_EmptySet DEF RowsTyped
<1>3. WalkTyped
  <2>1. done \in BOOLEAN /\ rotated \in BOOLEAN
    BY <1>1, Zenon
  <2>2. secret \in Nat /\ got \in Seq(Nat) /\ cursor = None
    BY <1>1
  <2> QED BY <2>1, <2>2 DEF WalkTyped
<1>4. NothingLost
  BY <1>1 DEF NothingLost
<1>5. NothingTwice
  BY <1>1 DEF NothingTwice
<1> QED BY <1>2, <1>3, <1>4, <1>5 DEF PagesInv

LEMMA PagesQuiet ==
    ASSUME PagesInv, UNCHANGED PG!vars
    PROVE  PagesInv'
<1>1. UNCHANGED <<now, rows, secret, filter, cursor, got, done, present, rotated>>
  BY DEF PG!vars, PG!walk
<1>2. RowsTyped' /\ WalkTyped' /\ NothingTwice'
  BY <1>1 DEF PagesInv, RowsTyped, WalkTyped, NothingTwice, PG!Before
<1>3. NothingLost'
  BY <1>1 DEF PagesInv, NothingLost, Ahead, Matched, Got, PG!Decode, PG!Before
<1> QED BY <1>2, <1>3 DEF PagesInv

LEMMA RowsAdded ==
    ASSUME PagesInv, PG!Insert
    PROVE  PagesInv'
<1>1. PICK lag \in 0..MaxLag, tag \in Tags, pnl \in PageResults :
         lag <= now /\ rows' = rows \cup {[id |-> PG!Cardinality(rows) + 1, ts |-> now - lag, tag |-> tag, pnl |-> pnl]}
  BY DEF PG!Insert
<1> DEFINE n == Cardinality(rows)
<1>2. PICK new : new = [id |-> n + 1, ts |-> now - lag, tag |-> tag, pnl |-> pnl]
  OBVIOUS
<1>3. rows' = rows \cup {new} /\ UNCHANGED <<now, secret, filter, cursor, got, done, present, rotated>>
  BY <1>1, <1>2, PagesCounts DEF PG!Insert, PG!walk
<1>4. n \in Nat /\ IsFiniteSet(rows) /\ new.id = n + 1 /\ new.ts \in 0..PagesTime /\ new.tag \in Tags /\ new.pnl \in Int
  BY <1>1, <1>2, PagesLimits, FS_CardinalityType DEF PagesInv, RowsTyped
<1>5. \A r \in rows : r.id \in 1..n
  BY DEF PagesInv, RowsTyped
<1> HIDE DEF n
<1>6. RowsTyped'
  <2>1. new \notin rows
    BY <1>4, <1>5
  <2>2. IsFiniteSet(rows') /\ Cardinality(rows') = n + 1
    BY <1>3, <1>4, <2>1, OneMore DEF n
  <2>3. \A r \in rows' : r.id \in 1..(n + 1) /\ r.ts \in 0..PagesTime /\ r.tag \in Tags /\ r.pnl \in Int
    BY <1>3, <1>4, <1>5 DEF PagesInv, RowsTyped
  <2>4. \A r, q \in rows' : r.id = q.id => r = q
    BY <1>3, <1>4, <1>5 DEF PagesInv, RowsTyped
  <2> QED BY <1>3, <2>2, <2>3, <2>4 DEF PagesInv, RowsTyped
<1>7. WalkTyped'
  BY <1>3 DEF PagesInv, WalkTyped
<1>8. NothingTwice'
  BY <1>3 DEF PagesInv, NothingTwice, PG!Before
<1>9. NothingLost'
  <2>1. \A id \in present : \E r \in rows : Matched(r) /\ r.id = id
    BY DEF PagesInv, NothingLost
  <2>2. new.id \notin present
    BY <1>4, <1>5, <2>1
  <2>3. \A r : Matched(r)' <=> (r \in rows' /\ (filter = None \/ r.tag = filter))
    BY <1>3 DEF Matched
  <2>4. \A r : (Ahead(r)' <=> Ahead(r)) /\ (Got(r.id)' <=> Got(r.id))
    BY <1>3 DEF Ahead, Got, PG!Decode, PG!Before
  <2>5. \A id \in present' : \E r \in rows' : Matched(r)' /\ r.id = id
    BY <1>3, <2>1, <2>3 DEF Matched
  <2>6. ~done' => \A r \in rows' : Matched(r)' /\ r.id \in present' => Ahead(r)' \/ Got(r.id)'
    BY <1>3, <2>2, <2>3, <2>4 DEF PagesInv, NothingLost, Matched
  <2>7. done' /\ got' # <<>> => \A id \in present' : Got(id)'
    BY <1>3 DEF PagesInv, NothingLost, Got
  <2> QED BY <2>5, <2>6, <2>7 DEF NothingLost
<1> QED BY <1>6, <1>7, <1>8, <1>9 DEF PagesInv

LEMMA TimePasses ==
    ASSUME PagesInv, PG!Tick
    PROVE  PagesInv'
<1>1. now' \in 0..PagesTime /\ UNCHANGED <<rows, secret, filter, cursor, got, done, present, rotated>>
  BY PagesLimits DEF PG!Tick, PG!walk, PagesInv, RowsTyped
<1>2. RowsTyped' /\ WalkTyped' /\ NothingTwice'
  BY <1>1 DEF PagesInv, RowsTyped, WalkTyped, NothingTwice, PG!Before
<1>3. NothingLost'
  BY <1>1 DEF PagesInv, NothingLost, Ahead, Matched, Got, PG!Decode, PG!Before
<1> QED BY <1>2, <1>3 DEF PagesInv

LEMMA SecretChanges ==
    ASSUME PagesInv, PG!Rotate
    PROVE  PagesInv'
<1>1. /\ secret' = secret + 1 /\ rotated' = TRUE /\ UNCHANGED <<now, rows, filter, cursor, got, done, present>>
  BY DEF PG!Rotate
<1>2. RowsTyped' /\ NothingTwice'
  BY <1>1 DEF PagesInv, RowsTyped, NothingTwice
<1>5. WalkTyped'
  BY <1>1 DEF PagesInv, WalkTyped
<1>3. PG!Decode(cursor)' = None
  BY <1>1 DEF PG!Decode, PagesInv, WalkTyped
<1>4. NothingLost'
  BY <1>1, <1>3 DEF PagesInv, NothingLost, Matched, Got, Ahead
<1> QED BY <1>2, <1>4, <1>5 DEF PagesInv

LEMMA WalkOpens ==
    ASSUME PagesInv, PG!Open
    PROVE  PagesInv'
<1>1. /\ done' = FALSE /\ cursor' = None /\ rotated' = FALSE /\ got = <<>> /\ present' = {r.id : r \in PG!Matching}
      /\ UNCHANGED <<now, rows, secret, filter, got>>
  BY DEF PG!Open
<1>2. \A r : r \in PG!Matching <=> Matched(r)
  BY DEF PG!Matching, Matched
<1>3. \A r : Ahead(r)'
  BY <1>1 DEF Ahead, PG!Decode
<1>4. RowsTyped' /\ WalkTyped'
  BY <1>1 DEF PagesInv, RowsTyped, WalkTyped
<1>8. NothingTwice'
  BY <1>1 DEF NothingTwice
<1>5. \A r \in rows : Matched(r) <=> Matched(r)'
  BY <1>1 DEF Matched
<1>6. \A id \in present' : \E r \in rows' : Matched(r)' /\ r.id = id
  BY <1>1, <1>2, <1>5 DEF Matched
<1>7. NothingLost'
  BY <1>1, <1>3, <1>6 DEF NothingLost
<1> QED BY <1>4, <1>7, <1>8 DEF PagesInv

\* A page brings the first rows behind the client, and leaves the client at the last of them or, if
\* there are no more, at the end.
LEMMA PageIs ==
    ASSUME PagesInv, PG!Page
    PROVE  \E m, n, list, ids :
             /\ m \in Nat /\ n \in Nat /\ m <= n /\ ids \in Seq(Nat) /\ Len(ids) = m /\ got' = got \o ids
             /\ \A i \in 1..n : Matched(list[i]) /\ Ahead(list[i])
             /\ \A i, j \in 1..n : i < j => PG!Before(list[i], list[j])
             /\ \A i, j \in 1..n : list[i] = list[j] => i = j
             /\ \A r : Matched(r) /\ Ahead(r) => \E i \in 1..n : list[i] = r
             /\ \A i \in 1..m : ids[i] = list[i].id
             /\ \/ m # 0 /\ cursor' = PG!Encode(list[m]) /\ done' = done
                \/ m = n /\ cursor' = None /\ done' = TRUE
<1> DEFINE S == PG!Behind(PG!Decode(cursor))
           list == PG!Sorted(S)
           n == Cardinality(S)
           m == IF n < PageSize THEN n ELSE PageSize
           ids == PG!Ids(PG!Take(PG!Fetched, PageSize))
<1>1. \A r : r \in S <=> Matched(r) /\ Ahead(r)
  BY DEF PG!Behind, PG!Matching, Matched, Ahead
<1>2. Listable(S)
  <2>1. S \subseteq rows
    BY <1>1 DEF Matched
  <2>2. IsFiniteSet(rows) /\ \A r \in rows : r.ts \in Nat /\ r.id \in Nat
    BY DEF PagesInv, RowsTyped
  <2> HIDE DEF S
  <2> QED BY <2>1, <2>2, FS_Subset DEF Listable, PagesInv, RowsTyped
<1> HIDE DEF S
<1>3. /\ n \in Nat /\ list \in [1..n -> S]
      /\ \A i, j \in 1..n : i < j => PG!Before(list[i], list[j])
      /\ \A i, j \in 1..n : list[i] = list[j] => i = j
      /\ \A r \in S : \E i \in 1..n : list[i] = r
  BY <1>2, SortedIs
<1>4. PageSize \in Nat \ {0}
  BY PagesLimits
<1>5. PG!Fetched = PG!Take(list, IF probing THEN PageSize + 1 ELSE PageSize)
  BY DEF PG!Fetched, S
<1> HIDE DEF n, list
<1>6. \A k \in Nat : LET t == PG!Take(list, k) IN
         /\ t \in Seq(S) /\ Len(t) = (IF n < k THEN n ELSE k) /\ \A i \in 1..Len(t) : t[i] = list[i]
  <2> SUFFICES ASSUME NEW k \in Nat
               PROVE  LET t == PG!Take(list, k) IN
                        /\ t \in Seq(S) /\ Len(t) = (IF n < k THEN n ELSE k) /\ \A i \in 1..Len(t) : t[i] = list[i]
    OBVIOUS
  <2>1. list \in Seq(S) /\ Len(list) = n
    BY <1>3
  <2>2. PG!Take(list, k) = SubSeq(list, 1, IF n < k THEN n ELSE k)
    BY <2>1 DEF PG!Take
  <2> QED BY <1>3, <2>1, <2>2
<1> DEFINE fetched == PG!Fetched
           page == PG!Take(fetched, PageSize)
           k == IF probing THEN PageSize + 1 ELSE PageSize
<1>7. /\ fetched \in Seq(S) /\ Len(fetched) = (IF n < k THEN n ELSE k) /\ \A i \in 1..Len(fetched) : fetched[i] = list[i]
      /\ k \in Nat /\ k >= PageSize
  <2>1. k \in Nat /\ k >= PageSize
    BY <1>4
  <2> HIDE DEF k
  <2>2. fetched = PG!Take(list, k)
    BY <1>5 DEF k
  <2> HIDE DEF fetched
  <2> QED BY <1>6, <2>1, <2>2
<1> HIDE DEF fetched
<1>8. page \in Seq(S) /\ Len(page) = m /\ \A i \in 1..m : page[i] = list[i]
  <2>1. page = SubSeq(fetched, 1, IF Len(fetched) < PageSize THEN Len(fetched) ELSE PageSize)
    BY DEF PG!Take
  <2>2. m = (IF Len(fetched) < PageSize THEN Len(fetched) ELSE PageSize) /\ m \in Nat /\ m <= Len(fetched) /\ Len(fetched) \in Nat
    BY <1>3, <1>4, <1>7
  <2> HIDE DEF page, m, k
  <2>3. page = SubSeq(fetched, 1, m)
    BY <2>1, <2>2
  <2>4. page \in Seq(S) /\ Len(page) = m /\ \A i \in 1..m : page[i] = fetched[i]
    BY <1>7, <2>2, <2>3
  <2> QED BY <1>7, <2>2, <2>4
<1>9. m \in Nat /\ m <= n
  BY <1>3, <1>4
<1>10. ids \in Seq(Nat) /\ Len(ids) = m /\ \A i \in 1..m : ids[i] = list[i].id
  <2>1. ids = [i \in 1..m |-> page[i].id]
    <3>1. DOMAIN page = 1..m
      BY <1>8
    <3> HIDE DEF page
    <3> QED BY <3>1 DEF PG!Ids, page, fetched
  <2>2. \A r \in S : r.id \in Nat
    BY <1>2 DEF Listable
  <2>3. \A i \in 1..m : page[i] \in S
    BY <1>8, <1>9
  <2> HIDE DEF ids, page, m
  <2> QED BY <1>8, <1>9, <2>1, <2>2, <2>3
<1>11. got' = got \o ids /\ IF PG!More THEN cursor' = PG!NextCursor /\ done' = done ELSE cursor' = None /\ done' = TRUE
  BY DEF PG!Page
<1>12. PG!More => m = PageSize /\ PG!NextCursor = PG!Encode(list[m])
  <2>1. PG!More <=> IF probing THEN Len(fetched) > PageSize ELSE Len(fetched) >= PageSize
    BY DEF PG!More, fetched
  <2>2. ASSUME PG!More PROVE m = PageSize /\ Len(fetched) >= PageSize /\ PageSize \in 1..Len(fetched)
    BY <1>3, <1>4, <1>7, <2>1, <2>2
  <2>3. PG!NextCursor = PG!Encode(fetched[IF Len(fetched) < PageSize THEN Len(fetched) ELSE PageSize])
    BY DEF PG!NextCursor, fetched
  <2> HIDE DEF m, k
  <2>4. ASSUME PG!More PROVE PG!NextCursor = PG!Encode(fetched[PageSize])
    BY <1>4, <1>7, <2>2, <2>3, <2>4
  <2> QED BY <1>7, <2>2, <2>4
<1>13. ~PG!More => m = n
  <2>1. PG!More <=> IF probing THEN Len(fetched) > PageSize ELSE Len(fetched) >= PageSize
    BY DEF PG!More, fetched
  <2>2. CASE probing
    BY <1>3, <1>4, <1>7, <2>1, <2>2
  <2>3. CASE ~probing
    BY <1>3, <1>4, <1>7, <2>1, <2>3
  <2> QED BY <2>2, <2>3
<1>14. \A i \in 1..n : Matched(list[i]) /\ Ahead(list[i])
  BY <1>1, <1>3
<1>15. \A r : Matched(r) /\ Ahead(r) => \E i \in 1..n : list[i] = r
  BY <1>1, <1>3
<1>16. \/ m # 0 /\ cursor' = PG!Encode(list[m]) /\ done' = done
       \/ m = n /\ cursor' = None /\ done' = TRUE
  <2> HIDE DEF m
  <2> QED BY <1>4, <1>11, <1>12, <1>13
<1> HIDE DEF ids, m
<1>17. n \in Nat /\ got' = got \o ids
  BY <1>3, <1>11
<1> WITNESS m, n, list, ids
<1> QED BY <1>3, <1>9, <1>10, <1>14, <1>15, <1>16, <1>17

LEMMA PageComes ==
    ASSUME PagesInv, PG!Page
    PROVE  PagesInv'
<1>1. PICK m, n, list, ids :
         /\ m \in Nat /\ n \in Nat /\ m <= n /\ ids \in Seq(Nat) /\ Len(ids) = m /\ got' = got \o ids
         /\ \A i \in 1..n : Matched(list[i]) /\ Ahead(list[i])
         /\ \A i, j \in 1..n : i < j => PG!Before(list[i], list[j])
         /\ \A i, j \in 1..n : list[i] = list[j] => i = j
         /\ \A r : Matched(r) /\ Ahead(r) => \E i \in 1..n : list[i] = r
         /\ \A i \in 1..m : ids[i] = list[i].id
         /\ \/ m # 0 /\ cursor' = PG!Encode(list[m]) /\ done' = done
            \/ m = n /\ cursor' = None /\ done' = TRUE
  BY PageIs
<1>a. m \in Nat /\ n \in Nat /\ m <= n /\ ids \in Seq(Nat) /\ Len(ids) = m /\ got' = got \o ids
  BY <1>1
<1>c. ids \in Seq(Nat)
  BY <1>a
<1>b. \A i \in 1..m : i \in 1..n /\ ids[i] = list[i].id
  <2>1. \A i \in 1..m : i \in 1..n
    BY <1>a
  <2> QED BY <1>1, <2>1
<1>2. ~done /\ UNCHANGED <<now, rows, secret, filter, present, rotated>>
  BY DEF PG!Page
<1>3. \A i \in 1..n : list[i] \in rows /\ list[i].ts \in Nat /\ list[i].id \in Nat
  BY <1>1 DEF Matched, PagesInv, RowsTyped
<1>4. /\ \A i \in 1..Len(got) : i \in 1..Len(got') /\ got'[i] = got[i]
      /\ \A i \in 1..m : Len(got) + i \in 1..Len(got') /\ got'[Len(got) + i] = ids[i]
      /\ \A i \in 1..Len(got') : \/ i \in 1..Len(got) /\ got'[i] = got[i]
                                 \/ i - Len(got) \in 1..m /\ got'[i] = ids[i - Len(got)]
      /\ got' \in Seq(Nat) /\ Len(got) \in Nat
  <2>1. PICK a \in Seq(Nat) : a = got
    BY DEF PagesInv, WalkTyped
  <2>a. PICK c : c = got'
    OBVIOUS
  <2>2. c = a \o ids
    BY <1>a, <2>1, <2>a
  <2>3. /\ Len(c) = Len(a) + Len(ids) /\ Len(a) \in Nat /\ Len(ids) \in Nat
        /\ \A i \in 1..Len(a) : c[i] = a[i]
        /\ \A i \in 1..Len(c) : i > Len(a) => i - Len(a) \in 1..Len(ids) /\ c[i] = ids[i - Len(a)]
    BY <1>c, <2>2, Appended
  <2>4. c \in Seq(Nat)
    BY <1>a, <2>2
  <2>7. \A i \in 1..Len(a) : i \in 1..Len(c) /\ c[i] = a[i]
    BY <1>a, <2>3
  <2>8. ASSUME NEW i \in 1..Len(c)
        PROVE  \/ i \in 1..Len(a) /\ c[i] = a[i]
               \/ i - Len(a) \in 1..m /\ c[i] = ids[i - Len(a)]
    <3>1. CASE i > Len(a)
      BY <1>a, <2>3, <3>1
    <3>2. CASE ~(i > Len(a))
      BY <2>3, <3>2
    <3> QED BY <3>1, <3>2
  <2>6. \A i \in 1..m : Len(a) + i \in 1..Len(c) /\ c[Len(a) + i] = ids[i]
    <3> SUFFICES ASSUME NEW i \in 1..m PROVE Len(a) + i \in 1..Len(c) /\ c[Len(a) + i] = ids[i]
      OBVIOUS
    <3>1. Len(a) + i \in 1..Len(c) /\ Len(a) + i > Len(a) /\ (Len(a) + i) - Len(a) = i
      BY <1>a, <2>3
    <3> QED BY <2>3, <3>1
  <2> QED BY <2>1, <2>a, <2>3, <2>4, <2>6, <2>7, <2>8
<1>5. \A r \in rows : Got(r.id) \/ (\E i \in 1..m : list[i] = r) => Got(r.id)'
  <2>1. ASSUME NEW r \in rows, Got(r.id) PROVE Got(r.id)'
    <3>1. PICK i \in 1..Len(got) : got[i] = r.id
      BY <2>1 DEF Got
    <3>2. i \in 1..Len(got') /\ got'[i] = r.id
      BY <1>4, <3>1
    <3> QED BY <3>2 DEF Got
  <2>2. ASSUME NEW r \in rows, NEW i \in 1..m, list[i] = r PROVE Got(r.id)'
    <3>1. Len(got) + i \in 1..Len(got') /\ got'[Len(got) + i] = r.id
      BY <1>1, <1>4, <2>2
    <3> QED BY <3>1 DEF Got
  <2> QED BY <2>1, <2>2
<1>6. RowsTyped'
  BY <1>2 DEF PagesInv, RowsTyped
<1>7. ASSUME m # 0 PROVE /\ PG!Encode(list[m]) # None /\ PG!Encode(list[m]) \in [ts : Nat, id : Nat, key : 0..secret]
                         /\ PG!Encode(list[m]).key = secret /\ PG!Encode(list[m]).ts = list[m].ts /\ PG!Encode(list[m]).id = list[m].id
  <2>1. m \in 1..n /\ secret \in Nat
    BY <1>1, <1>7 DEF PagesInv, WalkTyped
  <2>2. /\ PG!Encode(list[m]) \in [ts : Nat, id : Nat, key : Nat] /\ PG!Encode(list[m]) \in [ts : Nat, id : Nat, key : 0..secret]
        /\ PG!Encode(list[m]).key = secret /\ PG!Encode(list[m]).ts = list[m].ts /\ PG!Encode(list[m]).id = list[m].id
    BY <1>3, <2>1 DEF PG!Encode
  <2> QED BY <2>2, PagesLimits
<1>8. WalkTyped'
  <2>1. secret' \in Nat /\ got' \in Seq(Nat)
    BY <1>2, <1>4 DEF PagesInv, WalkTyped
  <2>2. done' \in BOOLEAN /\ rotated' \in BOOLEAN
    BY <1>1, <1>2, Zenon DEF PagesInv, WalkTyped
  <2>3. cursor' # None => cursor' \in [ts : Nat, id : Nat, key : 0..secret]
    BY <1>1, <1>7
  <2> QED BY <1>2, <2>1, <2>2, <2>3 DEF WalkTyped
<1>9. \A r \in rows : Matched(r) /\ r.id \in present => Ahead(r) \/ Got(r.id)
  BY <1>2 DEF PagesInv, NothingLost
<1>10. \A id \in present : \E r \in rows : Matched(r) /\ r.id = id
  BY DEF PagesInv, NothingLost
<1>11. \A r \in rows : Matched(r)' <=> Matched(r)
  BY <1>2 DEF Matched
<1>12. NothingLost'
  <2>1. \A id \in present' : \E r \in rows' : Matched(r)' /\ r.id = id
    BY <1>2, <1>10, <1>11
  <2>2. CASE m # 0 /\ cursor' = PG!Encode(list[m]) /\ done' = done
    <3>1. PG!Decode(cursor)' # None /\ PG!Decode(cursor)'.ts = list[m].ts /\ PG!Decode(cursor)'.id = list[m].id
      BY <1>2, <1>7, <2>2 DEF PG!Decode
    <3>2. ASSUME NEW r \in rows, Matched(r), r.id \in present PROVE Ahead(r)' \/ Got(r.id)'
      <4>1. CASE Got(r.id)
        BY <1>5, <4>1
      <4>2. CASE Ahead(r)
        <5>1. PICK i \in 1..n : list[i] = r
          BY <1>1, <3>2, <4>2
        <5>2. CASE i \in 1..m
          BY <1>5, <5>1, <5>2
        <5>3. CASE i \notin 1..m
          <6>1. m \in 1..n /\ m < i
            BY <1>1, <2>2, <5>3
          <6>2. PG!Before(list[m], r)
            BY <1>1, <5>1, <6>1
          <6>3. PG!Before(PG!Decode(cursor)', r)
            BY <3>1, <6>2 DEF PG!Before
          <6> QED BY <6>3 DEF Ahead, PG!Before
        <5> QED BY <5>2, <5>3
      <4> QED BY <1>9, <3>2, <4>1, <4>2
    <3> QED BY <1>2, <1>11, <2>1, <2>2, <3>2 DEF NothingLost
  <2>3. CASE m = n /\ cursor' = None /\ done' = TRUE
    <3>1. ASSUME NEW id \in present PROVE Got(id)'
      <4>1. PICK r \in rows : Matched(r) /\ r.id = id
        BY <1>10
      <4>2. Ahead(r) => \E i \in 1..m : list[i] = r
        BY <1>1, <2>3, <4>1
      <4>3. Got(r.id)'
        BY <1>5, <1>9, <4>1, <4>2
      <4> QED BY <4>1, <4>3 DEF Got
    <3> QED BY <1>2, <2>1, <2>3, <3>1 DEF NothingLost
  <2> QED BY <1>1, <2>2, <2>3
<1>13. NothingTwice'
  <2> SUFFICES ASSUME ~rotated PROVE NothingTwice'
    BY <1>2 DEF NothingTwice
  <2>1. /\ \A i, j \in 1..Len(got) : got[i] = got[j] => i = j
        /\ cursor = None => got = <<>>
        /\ cursor # None => cursor.key = secret /\ \A i \in 1..Len(got) : \E r \in rows : r.id = got[i] /\ ~PG!Before(cursor, r)
    BY <1>2 DEF PagesInv, NothingTwice
  <2>2. PG!Decode(cursor) = cursor
    BY <2>1 DEF PG!Decode
  <2>3. \A r, q \in rows : r.id = q.id => r = q
    BY DEF PagesInv, RowsTyped
  <2>4. ASSUME NEW i \in 1..Len(got), NEW j \in 1..m PROVE got[i] # ids[j]
    <3> SUFFICES ASSUME got[i] = ids[j] PROVE FALSE
      OBVIOUS
    <3>1. cursor # None
      BY <2>1
    <3>2. PICK r \in rows : r.id = got[i] /\ ~PG!Before(cursor, r)
      BY <2>1, <3>1
    <3>3. j \in 1..n /\ ids[j] = list[j].id
      BY <1>1
    <3>4. r = list[j]
      BY <1>3, <2>3, <3>2, <3>3
    <3>5. Ahead(list[j])
      BY <1>1, <3>3
    <3> QED BY <2>2, <3>1, <3>2, <3>4, <3>5 DEF Ahead
  <2>5. \A i, j \in 1..m : ids[i] = ids[j] => i = j
    <3> SUFFICES ASSUME NEW i \in 1..m, NEW j \in 1..m, ids[i] = ids[j] PROVE i = j
      OBVIOUS
    <3>1. i \in 1..n /\ j \in 1..n /\ ids[i] = list[i].id /\ ids[j] = list[j].id
      BY <1>b
    <3>2. list[i] = list[j]
      BY <1>3, <2>3, <3>1
    <3> QED BY <1>1, <3>1, <3>2
  <2>6. \A i, j \in 1..Len(got') : got'[i] = got'[j] => i = j
    <3> SUFFICES ASSUME NEW i \in 1..Len(got'), NEW j \in 1..Len(got'), got'[i] = got'[j] PROVE i = j
      OBVIOUS
    <3>1. CASE i \in 1..Len(got) /\ got'[i] = got[i] /\ j \in 1..Len(got) /\ got'[j] = got[j]
      BY <2>1, <3>1
    <3>2. CASE i - Len(got) \in 1..m /\ got'[i] = ids[i - Len(got)] /\ j - Len(got) \in 1..m /\ got'[j] = ids[j - Len(got)]
      <4>1. i - Len(got) = j - Len(got)
        BY <2>5, <3>2
      <4> QED BY <1>4, <4>1
    <3>3. CASE i \in 1..Len(got) /\ got'[i] = got[i] /\ j - Len(got) \in 1..m /\ got'[j] = ids[j - Len(got)]
      BY <2>4, <3>3
    <3>4. CASE i - Len(got) \in 1..m /\ got'[i] = ids[i - Len(got)] /\ j \in 1..Len(got) /\ got'[j] = got[j]
      BY <2>4, <3>4
    <3> QED BY <1>4, <3>1, <3>2, <3>3, <3>4
  <2>7. CASE m # 0 /\ cursor' = PG!Encode(list[m]) /\ done' = done
    <3>1. cursor' # None /\ cursor'.key = secret /\ cursor'.ts = list[m].ts /\ cursor'.id = list[m].id
      BY <1>7, <2>7
    <3>2. m \in 1..n /\ list[m].ts \in Nat /\ list[m].id \in Nat
      BY <1>1, <1>3, <2>7
    <3>3. ASSUME NEW r \in rows, PG!Before(cursor', r) PROVE PG!Before(list[m], r)
      BY <3>1, <3>3 DEF PG!Before
    <3>4. ASSUME NEW i \in 1..Len(got') PROVE \E r \in rows : r.id = got'[i] /\ ~PG!Before(cursor', r)
      <4>1. CASE i \in 1..Len(got) /\ got'[i] = got[i]
        <5>1. PICK r \in rows : r.id = got[i] /\ ~PG!Before(cursor, r)
          BY <2>1, <4>1
        <5>2. cursor # None /\ PG!Before(cursor, list[m])
          BY <1>1, <2>1, <2>2, <3>2, <4>1 DEF Ahead
        <5>3. r.ts \in Nat /\ r.id \in Nat /\ cursor.ts \in Nat /\ cursor.id \in Nat
          BY <5>2 DEF PagesInv, RowsTyped, WalkTyped
        <5>4. ~PG!Before(list[m], r)
          BY <3>2, <5>1, <5>2, <5>3 DEF PG!Before
        <5> QED BY <3>3, <4>1, <5>1, <5>4
      <4>2. CASE i - Len(got) \in 1..m /\ got'[i] = ids[i - Len(got)]
        <5> DEFINE j == i - Len(got)
        <5>1. j \in 1..n /\ (j = m \/ j < m) /\ got'[i] = list[j].id
          <6>1. j \in 1..m /\ got'[i] = ids[j]
            BY <4>2
          <6> HIDE DEF j
          <6> QED BY <1>a, <1>b, <6>1
        <5> HIDE DEF j
        <5>2. list[j] \in rows /\ list[j].ts \in Nat /\ list[j].id \in Nat
          BY <1>3, <5>1
        <5>3. j < m => PG!Before(list[j], list[m])
          BY <1>1, <3>2, <5>1
        <5>4. ~PG!Before(list[m], list[j])
          BY <3>2, <5>1, <5>2, <5>3 DEF PG!Before
        <5> QED BY <3>3, <5>1, <5>2, <5>4
      <4> QED BY <1>4, <4>1, <4>2
    <3> QED BY <1>2, <2>6, <2>7, <3>1, <3>4 DEF NothingTwice, PG!Before
  <2>8. CASE m = n /\ cursor' = None /\ done' = TRUE
    BY <1>2, <2>6, <2>8 DEF NothingTwice
  <2> QED BY <1>1, <2>7, <2>8
<1> QED BY <1>6, <1>8, <1>12, <1>13 DEF PagesInv

LEMMA PagesStep ==
    ASSUME PagesInv, PG!Next
    PROVE  PagesInv'
BY RowsAdded, TimePasses, SecretChanges, WalkOpens, PageComes DEF PG!Next

LEMMA WalkBounds ==
    ASSUME PagesInv
    PROVE  PG!WalkComplete
<1> DEFINE places(id) == {i \in DOMAIN got : got[i] = id}
<1>1. got \in Seq(Nat) /\ DOMAIN got = 1..Len(got) /\ Len(got) \in Nat
  BY DEF PagesInv, WalkTyped
<1>2. \A id : IsFiniteSet(places(id))
  <2>1. IsFiniteSet(DOMAIN got)
    BY <1>1, FS_Interval
  <2> QED BY <2>1, FS_Subset
<1>3. \A id : PG!Received(id) = Cardinality(places(id))
  BY PagesCounts DEF PG!Received
<1>4. ASSUME NEW id, Got(id) PROVE Cardinality(places(id)) >= 1
  <2>1. places(id) # {}
    BY <1>1, <1>4 DEF Got
  <2>2. Cardinality(places(id)) \in Nat /\ Cardinality(places(id)) # 0
    BY <1>2, <2>1, FS_CardinalityType, FS_EmptySet
  <2> QED BY <2>2
<1>5. ASSUME ~rotated, NEW id PROVE Cardinality(places(id)) <= 1
  <2>1. \A i, j \in places(id) : i = j
    BY <1>1, <1>5 DEF PagesInv, NothingTwice
  <2>2. CASE places(id) = {}
    BY <2>2, FS_EmptySet
  <2>3. CASE places(id) # {}
    <3>1. PICK i : i \in places(id)
      BY <2>3
    <3>2. places(id) = {i}
      BY <2>1, <3>1
    <3>3. Cardinality({i}) = 1
      BY FS_Singleton
    <3> HIDE DEF places
    <3> QED BY <3>2, <3>3
  <2> QED BY <2>2, <2>3
<1> HIDE DEF places
<1>6. done /\ got # <<>> => \A id \in present : PG!Received(id) >= 1
  BY <1>3, <1>4 DEF PagesInv, NothingLost
<1>7. ~rotated => \A id \in present : PG!Received(id) <= 1
  BY <1>3, <1>5
<1> QED BY <1>6, <1>7 DEF PG!WalkComplete

-----------------------------------------------------------------------------
(* Sums over finite sets.                                                  *)

\* The element MapThenSumSet takes first, the step it then makes, the function it
\* defines on the subsets of S and the sum of the weights w of S.
SumStep(w, f, s) == IF s = {} THEN 0 ELSE w[AnyOf(s)] + f[s \ {AnyOf(s)}]
IsSum(w, f, S) == f = [s \in SUBSET S |-> SumStep(w, f, s)]
Weight(w, S) == (CHOOSE f : IsSum(w, f, S))[S]

\* The element taken is an element.
LEMMA AnyOfIn == ASSUME NEW S, S # {} PROVE AnyOf(S) \in S
  BY DEF AnyOf

\* Taking it out leaves a smaller subset.
LEMMA SmallerSubset ==
    ASSUME NEW S, IsFiniteSet(S), NEW n \in Nat,
           NEW s \in SUBSET S, s # {}, Cardinality(s) <= n + 1
    PROVE  /\ s \ {AnyOf(s)} \in SUBSET S
           /\ Cardinality(s \ {AnyOf(s)}) <= n
           /\ Cardinality(s \ {AnyOf(s)}) \in Nat
<1>1. AnyOf(s) \in s
  BY AnyOfIn
<1>2. IsFiniteSet(s) 
  BY FS_Subset
<1>3. Cardinality(s \ {AnyOf(s)}) = Cardinality(s) - 1 /\ IsFiniteSet(s \ {AnyOf(s)})
  BY <1>1, <1>2, FS_RemoveElement
<1>4. Cardinality(s) \in Nat /\ Cardinality(s \ {AnyOf(s)}) \in Nat
  BY <1>2, <1>3, FS_CardinalityType
<1> QED BY <1>3, <1>4

\* The subsets of S with at most n elements.
Sub(S, n) == {s \in SUBSET S : Cardinality(s) <= n}

\* The recursion of MapThenSumSet defines a function on every finite set: built
\* for the subsets of size 0, then for one size after another.
LEMMA SumExists == ASSUME NEW w, NEW S, IsFiniteSet(S) PROVE \E f : IsSum(w, f, S)
<1> DEFINE P == {n \in Nat : \E f : f = [s \in Sub(S, n) |-> SumStep(w, f, s)]}
<1>1. 0 \in P
  <2> DEFINE f == [s \in Sub(S, 0) |-> 0]
  <2>1. \A s \in Sub(S, 0) : s = {}
    <3> SUFFICES ASSUME NEW s \in Sub(S, 0) PROVE s = {}
      OBVIOUS
    <3>1. s \in SUBSET S /\ Cardinality(s) <= 0
      BY DEF Sub
    <3>2. IsFiniteSet(s) /\ Cardinality(s) \in Nat
      BY <3>1, FS_Subset, FS_CardinalityType
    <3> QED BY <3>1, <3>2, FS_EmptySet
  <2>2. \A s \in Sub(S, 0) : SumStep(w, f, s) = 0
    BY <2>1 DEF SumStep
  <2>3. f = [s \in Sub(S, 0) |-> SumStep(w, f, s)]
    BY <2>2
  <2> QED BY <2>3
<1>2. ASSUME NEW n \in Nat, n \in P PROVE n + 1 \in P
  <2>1. PICK f : f = [s \in Sub(S, n) |-> SumStep(w, f, s)]
    BY <1>2
  <2> DEFINE g == [s \in Sub(S, n + 1) |-> SumStep(w, f, s)]
  <2>2. \A s \in Sub(S, n) : s \in Sub(S, n + 1) /\ g[s] = f[s]
    <3>1. \A s \in Sub(S, n) : s \in Sub(S, n + 1)
      <4> SUFFICES ASSUME NEW s \in Sub(S, n) PROVE s \in Sub(S, n + 1)
        OBVIOUS
      <4>1. s \in SUBSET S /\ Cardinality(s) <= n
        BY DEF Sub
      <4>2. Cardinality(s) \in Nat
        BY <4>1, FS_Subset, FS_CardinalityType
      <4> QED BY <4>1, <4>2 DEF Sub
    <3> QED BY <3>1, <2>1
  <2>3. \A s \in Sub(S, n + 1) : s # {} => s \ {AnyOf(s)} \in Sub(S, n)
    BY SmallerSubset DEF Sub
  <2>4. \A s \in Sub(S, n + 1) : SumStep(w, f, s) = SumStep(w, g, s)
    <3> HIDE DEF g
    <3> QED BY <2>2, <2>3 DEF SumStep
  <2>5. g = [s \in Sub(S, n + 1) |-> SumStep(w, g, s)]
    <3>1. [s \in Sub(S, n + 1) |-> SumStep(w, f, s)] = [s \in Sub(S, n + 1) |-> SumStep(w, g, s)]
      BY <2>4
    <3> QED BY <3>1
  <2>6. \E h : h = [s \in Sub(S, n + 1) |-> SumStep(w, h, s)]
    BY <2>5
  <2> QED BY <2>6
<1>3. \A n \in Nat : n \in P
  <2> HIDE DEF P
  <2> QED BY <1>1, <1>2, SetInduction
<1>4. Cardinality(S) \in Nat
  BY FS_CardinalityType
<1>5. Sub(S, Cardinality(S)) = SUBSET S
  BY FS_Subset DEF Sub
<1> QED BY <1>3, <1>4, <1>5 DEF IsSum

\* Summing over a larger set gives the same sum of a part of it.
LEMMA SumUnique ==
    ASSUME NEW w, NEW S, NEW T, IsFiniteSet(S), T \subseteq S,
           NEW f, NEW g, IsSum(w, f, S), IsSum(w, g, T)
    PROVE  f[T] = g[T]
<1> DEFINE P == {n \in Nat : \A t \in SUBSET T : Cardinality(t) <= n => f[t] = g[t]}
<1>0. /\ IsFiniteSet(T)
      /\ \A t \in SUBSET T :
            t \in SUBSET S /\ IsFiniteSet(t) /\ Cardinality(t) \in Nat
  BY FS_Subset, FS_CardinalityType
<1>a. \A t \in SUBSET T : f[t] = SumStep(w, f, t) /\ g[t] = SumStep(w, g, t)
  BY <1>0 DEF IsSum
<1>1. 0 \in P
  <2>1. \A t \in SUBSET T : Cardinality(t) <= 0 => t = {}
    BY <1>0, FS_EmptySet
  <2>2. \A t \in SUBSET T : t = {} => f[t] = g[t]
    BY <1>a DEF SumStep
  <2> QED BY <2>1, <2>2
<1>2. ASSUME NEW n \in Nat, n \in P PROVE n + 1 \in P
  <2> SUFFICES ASSUME NEW t \in SUBSET T, Cardinality(t) <= n + 1 PROVE f[t] = g[t]
    OBVIOUS
  <2>1. CASE t = {}
    BY <2>1, <1>a DEF SumStep
  <2>2. CASE t # {}
    <3>1. f[t \ {AnyOf(t)}] = g[t \ {AnyOf(t)}]
      BY <1>0, <1>2, <2>2, SmallerSubset
    <3> QED BY <3>1, <2>2, <1>a DEF SumStep
  <2> QED BY <2>1, <2>2
<1>3. \A n \in Nat : n \in P
  <2> HIDE DEF P
  <2> QED BY <1>1, <1>2, SetInduction
<1> QED BY <1>0, <1>3

\* The recursive equation of a sum.
LEMMA WeightUnfolds ==
    ASSUME NEW w, NEW S, IsFiniteSet(S)
    PROVE  /\ Weight(w, {}) = 0
           /\ S # {} => Weight(w, S) = w[AnyOf(S)] + Weight(w, S \ {AnyOf(S)})
<1> DEFINE F(T) == CHOOSE f : IsSum(w, f, T)
<1>0. \A T \in SUBSET S : IsFiniteSet(T) /\ IsSum(w, F(T), T)
  BY FS_Subset, SumExists
<1>1. \A T : Weight(w, T) = F(T)[T]
  BY DEF Weight
<1>2. \A T \in SUBSET S : F(T)[T] = SumStep(w, F(T), T)
  <2> HIDE DEF F
  <2> QED BY <1>0 DEF IsSum
<1>3. Weight(w, {}) = 0
  <2>1. Weight(w, {}) = SumStep(w, F({}), {})
    <3> HIDE DEF F
    <3> QED BY <1>1, <1>2
  <2> QED BY <2>1 DEF SumStep
<1>4. ASSUME S # {} PROVE Weight(w, S) = w[AnyOf(S)] + Weight(w, S \ {AnyOf(S)})
  <2> DEFINE T == S \ {AnyOf(S)}
  <2> HIDE DEF F
  <2>1. F(S)[T] = F(T)[T]
    <3>1. T \subseteq S /\ IsSum(w, F(S), S) /\ IsSum(w, F(T), T)
      BY <1>0
    <3> HIDE DEF T
    <3> QED BY <3>1, SumUnique
  <2>2. Weight(w, S) = w[AnyOf(S)] + F(S)[T]
    BY <1>1, <1>2, <1>4 DEF SumStep
  <2> QED BY <2>1, <2>2, <1>1
<1> QED BY <1>3, <1>4

\* Sums of integers are integers.
LEMMA WeightInt ==
    ASSUME NEW D, IsFiniteSet(D), NEW w, \A x \in D : w[x] \in Int, NEW S \in SUBSET D
    PROVE  Weight(w, S) \in Int
<1> DEFINE P == {n \in Nat : \A t \in SUBSET D : Cardinality(t) <= n => Weight(w, t) \in Int}
<1>0. \A t \in SUBSET D : IsFiniteSet(t) /\ Cardinality(t) \in Nat
  BY FS_Subset, FS_CardinalityType
<1>a. Weight(w, {}) = 0
  BY FS_EmptySet, WeightUnfolds
<1>1. 0 \in P
  <2>1. \A t \in SUBSET D : Cardinality(t) <= 0 => t = {}
    BY <1>0, FS_EmptySet
  <2> QED BY <1>a, <2>1
<1>2. ASSUME NEW n \in Nat, n \in P PROVE n + 1 \in P
  <2> SUFFICES ASSUME NEW t \in SUBSET D, Cardinality(t) <= n + 1, t # {}
               PROVE  Weight(w, t) \in Int
    BY <1>a
  <2>1. Weight(w, t \ {AnyOf(t)}) \in Int
    BY <1>2, SmallerSubset
  <2>2. w[AnyOf(t)] \in Int
    BY AnyOfIn
  <2> QED BY <2>1, <2>2, <1>0, WeightUnfolds
<1>3. \A n \in Nat : n \in P
  <2> HIDE DEF P
  <2> QED BY <1>1, <1>2, SetInduction
<1> QED BY <1>0, <1>3

\* Any element may be taken first.
LEMMA WeightTakes ==
    ASSUME NEW D, IsFiniteSet(D), NEW w, \A x \in D : w[x] \in Int, NEW z \in D
    PROVE  Weight(w, D) = w[z] + Weight(w, D \ {z})
<1> DEFINE P == {n \in Nat : \A t \in SUBSET D : Cardinality(t) <= n =>
                                \A x \in t : Weight(w, t) = w[x] + Weight(w, t \ {x})}
<1>0. \A t \in SUBSET D : IsFiniteSet(t) /\ Cardinality(t) \in Nat
  BY FS_Subset, FS_CardinalityType
<1>1. 0 \in P
  <2>1. \A t \in SUBSET D : Cardinality(t) <= 0 => t = {}
    BY <1>0, FS_EmptySet
  <2> QED BY <2>1
<1>2. ASSUME NEW n \in Nat, n \in P PROVE n + 1 \in P
  <2> SUFFICES ASSUME NEW t \in SUBSET D, Cardinality(t) <= n + 1, NEW x \in t
               PROVE  Weight(w, t) = w[x] + Weight(w, t \ {x})
    OBVIOUS
  <2> DEFINE a == AnyOf(t)
  <2>1. a \in t /\ Weight(w, t) = w[a] + Weight(w, t \ {a})
    BY <1>0, AnyOfIn, WeightUnfolds
  <2> HIDE DEF a
  <2>2. CASE x = a
    BY <2>1, <2>2
  <2>3. CASE x # a
    <3>1. \A y \in t : Cardinality(t \ {y}) <= n /\ t \ {y} \in SUBSET D
      <4> SUFFICES ASSUME NEW y \in t PROVE Cardinality(t \ {y}) <= n
        OBVIOUS
      <4>1. Cardinality(t \ {y}) = Cardinality(t) - 1 /\ IsFiniteSet(t)
        BY <1>0, FS_RemoveElement
      <4> QED BY <1>0, <4>1
    <3>2. Weight(w, t \ {a}) = w[x] + Weight(w, (t \ {a}) \ {x})
      BY <1>2, <2>1, <2>3, <3>1
    <3>3. Weight(w, t \ {x}) = w[a] + Weight(w, (t \ {x}) \ {a})
      BY <1>2, <2>1, <2>3, <3>1
    <3>4. (t \ {a}) \ {x} = (t \ {x}) \ {a}
      OBVIOUS
    <3>5. Weight(w, (t \ {x}) \ {a}) \in Int /\ w[x] \in Int /\ w[a] \in Int
      BY <2>1, WeightInt
    <3> DEFINE k == Weight(w, (t \ {x}) \ {a})
    <3>6. Weight(w, t \ {a}) = w[x] + k /\ Weight(w, t \ {x}) = w[a] + k /\ k \in Int
      BY <3>2, <3>3, <3>4, <3>5
    <3> HIDE DEF k
    <3> QED BY <2>1, <3>5, <3>6
  <2> QED BY <2>2, <2>3
<1>3. \A n \in Nat : n \in P
  <2> HIDE DEF P
  <2> QED BY <1>1, <1>2, SetInduction
<1>4. D \in SUBSET D /\ Cardinality(D) \in Nat /\ Cardinality(D) \in P
  BY <1>0, <1>3
<1> QED BY <1>4


\* One element more adds its weight.
LEMMA WeightAdds ==
    ASSUME NEW D, IsFiniteSet(D), NEW w, \A x \in D : w[x] \in Int, NEW S \in SUBSET D, NEW x \in D, x \notin S
    PROVE  Weight(w, S \cup {x}) = w[x] + Weight(w, S)
<1>1. IsFiniteSet(S \cup {x}) /\ \A y \in S \cup {x} : w[y] \in Int
  BY FS_Subset
<1>2. (S \cup {x}) \ {x} = S
  OBVIOUS
<1>3. Weight(w, S \cup {x}) = w[x] + Weight(w, (S \cup {x}) \ {x})
  BY <1>1, WeightTakes
<1> QED BY <1>2, <1>3

\* The weights of two parts add up.
LEMMA WeightParts ==
    ASSUME NEW D, IsFiniteSet(D), NEW w, \A x \in D : w[x] \in Int, NEW S \in SUBSET D, NEW T \in SUBSET D, S \cap T = {}
    PROVE  Weight(w, S \cup T) = Weight(w, S) + Weight(w, T)
<1> DEFINE P == {t \in SUBSET T : Weight(w, S \cup t) = Weight(w, S) + Weight(w, t)}
<1>1. {} \in P
  <2>1. Weight(w, {}) = 0 /\ Weight(w, S) \in Int /\ S \cup {} = S
    BY WeightUnfolds, WeightInt
  <2> QED BY <2>1
<1>2. ASSUME NEW t \in SUBSET T, t # {}, t \ {AnyOf(t)} \in P PROVE t \in P
  <2>1. PICK x : x = AnyOf(t)
    OBVIOUS
  <2>2. x \in t
    BY <1>2, <2>1, AnyOfIn
  <2>3. PICK r : r = t \ {x}
    OBVIOUS
  <2>4. /\ r \in SUBSET D /\ S \cup r \in SUBSET D /\ x \in D /\ x \notin r /\ x \notin S \cup r
        /\ r \cup {x} = t /\ (S \cup r) \cup {x} = S \cup t
    BY <2>2, <2>3
  <2>5. Weight(w, r \cup {x}) = w[x] + Weight(w, r)
    BY <2>4, WeightAdds
  <2>6. Weight(w, (S \cup r) \cup {x}) = w[x] + Weight(w, S \cup r)
    BY <2>4, WeightAdds
  <2>7. Weight(w, S \cup r) = Weight(w, S) + Weight(w, r)
    BY <1>2, <2>1, <2>3
  <2>8. Weight(w, S) \in Int /\ Weight(w, r) \in Int /\ w[x] \in Int
    BY <2>4, WeightInt
  <2>10. Weight(w, t) = w[x] + Weight(w, r)
    BY <2>4, <2>5
  <2>11. Weight(w, S \cup t) = w[x] + Weight(w, S \cup r)
    BY <2>4, <2>6
  <2>9. Weight(w, S \cup t) = Weight(w, S) + Weight(w, t)
    BY <2>7, <2>8, <2>10, <2>11
  <2> QED BY <2>9
<1> HIDE DEF P
<1>3. T \in P
  <2>1. IsFiniteSet(T)
    BY FS_Subset
  <2>2. \A s \in SUBSET T : s \in P
    BY <1>1, <1>2, <2>1, SetGrows
  <2> QED BY <2>2
<1> QED BY <1>3 DEF P

-----------------------------------------------------------------------------
(* The views.                                                              *)

LEMMA DaySets ==
    ASSUME NEW X, NEW day, \A x \in X : day[x] \in Nat, NEW n \in Nat
    PROVE  /\ {x \in X : day[x] < n + 1} = {x \in X : day[x] < n} \cup {x \in X : day[x] = n}
           /\ {x \in X : day[x] < n} \cap {x \in X : day[x] = n} = {}
OBVIOUS

LEMMA FirstDays ==
    ASSUME NEW D \in SUBSET Nat, NEW n \in Nat
    PROVE  /\ n \in D => {d \in D : d < n + 1} = {d \in D : d < n} \cup {n}
           /\ n \notin D => {d \in D : d < n + 1} = {d \in D : d < n}
<1>1. \A d \in D : d < n + 1 <=> d < n \/ d = n
  OBVIOUS
<1>2. n \in D => {d \in D : d < n + 1} = {d \in D : d < n} \cup {n}
  BY <1>1
<1>3. n \notin D => {d \in D : d < n + 1} = {d \in D : d < n}
  BY <1>1
<1> QED BY <1>2, <1>3

\* A measure of sets of rows: two parts add up.
Additive(m, X) ==
    /\ m[{}] = 0 /\ \A A \in SUBSET X : m[A] \in Int
    /\ \A A, B \in SUBSET X : A \cap B = {} => m[A \cup B] = m[A] + m[B]

\* The rows of the days before n, of day n, and the days before n.
UpTo2(X, day, n) == {x \in X : day[x] < n}
OnDay(X, day, n) == {x \in X : day[x] = n}
Firsts(D, n) == {d \in D : d < n}

LEMMA OneDayMore ==
    ASSUME NEW X, NEW m, Additive(m, X), NEW day, \A x \in X : day[x] \in Nat, NEW n \in Nat,
           NEW D \in SUBSET Nat, IsFiniteSet(D), NEW w, \A d \in D : w[d] \in Int,
           n \in D => w[n] = m[OnDay(X, day, n)], n \notin D => OnDay(X, day, n) = {},
           Weight(w, Firsts(D, n)) = m[UpTo2(X, day, n)]
    PROVE  Weight(w, Firsts(D, n + 1)) = m[UpTo2(X, day, n + 1)]
<1>1. PICK A, T, F : A = UpTo2(X, day, n) /\ T = OnDay(X, day, n) /\ F = Firsts(D, n)
  OBVIOUS
<1>2. UpTo2(X, day, n + 1) = A \cup T /\ A \cap T = {} /\ A \in SUBSET X /\ T \in SUBSET X
  BY <1>1, DaySets DEF UpTo2, OnDay
<1>3. /\ F \in SUBSET D /\ n \notin F
      /\ n \in D => Firsts(D, n + 1) = F \cup {n}
      /\ n \notin D => Firsts(D, n + 1) = F
  BY <1>1, FirstDays DEF Firsts
<1>4. m[A \cup T] = m[A] + m[T] /\ m[A] \in Int /\ m[T] \in Int
  BY <1>2 DEF Additive
<1>5. Weight(w, F) = m[A]
  BY <1>1
<1>6. CASE n \in D
  <2>1. Weight(w, F \cup {n}) = w[n] + Weight(w, F)
    <3>1. \A S \in SUBSET D : \A x \in D : x \notin S => Weight(w, S \cup {x}) = w[x] + Weight(w, S)
      BY WeightAdds
    <3> QED BY <1>3, <1>6, <3>1
  <2>2. w[n] = m[T]
    BY <1>1, <1>6
  <2>3. Weight(w, F \cup {n}) = m[A \cup T]
    BY <1>4, <1>5, <2>1, <2>2
  <2> QED BY <1>2, <1>3, <1>6, <2>3
<1>7. CASE n \notin D
  <2>1. T = {}
    BY <1>1, <1>7
  <2>2. UpTo2(X, day, n + 1) = A
    BY <1>2, <2>1
  <2>3. Firsts(D, n + 1) = F
    BY <1>3, <1>7
  <2> QED BY <1>5, <2>2, <2>3
<1> QED BY <1>6, <1>7

\* What is measured of a set of rows is what is measured of it day by day.
\* Every x is of a day of D, and w says what the measure m gives a day.
Told(X, m, day, bound, D, w) ==
    /\ Additive(m, X)
    /\ bound \in Nat
    /\ D \in SUBSET (0..bound)
    /\ \A x \in X : day[x] \in D
    /\ \A d \in D : w[d] = m[OnDay(X, day, d)]

LEMMA DayByDay ==
    ASSUME NEW X, NEW m, NEW day, NEW bound, NEW D, NEW w, Told(X, m, day, bound, D, w)
    PROVE  Weight(w, D) = m[X]
<1>0. /\ Additive(m, X) /\ bound \in Nat /\ D \in SUBSET (0..bound)
      /\ \A x \in X : day[x] \in D
      /\ \A d \in D : w[d] = m[OnDay(X, day, d)]
  BY DEF Told
<1> USE <1>0
<1> DEFINE P == {n \in Nat : Weight(w, Firsts(D, n)) = m[UpTo2(X, day, n)]}
<1>1. IsFiniteSet(D) /\ D \in SUBSET Nat
  <2>1. IsFiniteSet(0..bound)
    BY FS_Interval
  <2>2. IsFiniteSet(D)
    BY <2>1, FS_Subset
  <2>3. D \in SUBSET Nat
    OBVIOUS
  <2> QED BY <2>2, <2>3
<1>2. \A x \in X : day[x] \in Nat
  BY <1>1
<1>3. \A d \in D : w[d] \in Int
  <2>1. \A d : OnDay(X, day, d) \in SUBSET X
    BY DEF OnDay
  <2> QED BY <2>1 DEF Additive
<1>4. 0 \in P
  <2>1. \A d \in D : ~(d < 0)
    BY <1>1
  <2>2. \A x \in X : ~(day[x] < 0)
    BY <1>2
  <2>3. Firsts(D, 0) = {} /\ UpTo2(X, day, 0) = {}
    BY <2>1, <2>2 DEF Firsts, UpTo2
  <2>4. Weight(w, {}) = 0
    BY <1>1, WeightUnfolds
  <2>5. m[{}] = 0
    BY DEF Additive
  <2> QED BY <2>3, <2>4, <2>5
<1>5. ASSUME NEW n \in Nat, n \in P PROVE n + 1 \in P
  <2>1. n \notin D => OnDay(X, day, n) = {}
    BY DEF OnDay
  <2>2. Weight(w, Firsts(D, n)) = m[UpTo2(X, day, n)]
    BY <1>5
  <2>3. Weight(w, Firsts(D, n + 1)) = m[UpTo2(X, day, n + 1)]
    BY <1>1, <1>2, <1>3, <2>1, <2>2, OneDayMore
  <2> QED BY <2>3
<1> HIDE DEF P
<1>6. bound + 1 \in P
  BY <1>4, <1>5, SetInduction
<1>7. Firsts(D, bound + 1) = D /\ UpTo2(X, day, bound + 1) = X
  <2>1. \A d \in D : d < bound + 1
    OBVIOUS
  <2>2. \A x \in X : day[x] < bound + 1
    BY <2>1
  <2> QED BY <2>1, <2>2 DEF Firsts, UpTo2
<1> QED BY <1>6, <1>7 DEF P

-----------------------------------------------------------------------------

\* The sums of the views, as sums of weights.
LEMMA NetOf ==
    ASSUME NEW S, IsFiniteSet(S), NEW w, \A r \in S : w[r] = r.pnl
    PROVE  PG!SumOf(S) = Weight(w, S)
<1> DEFINE F(f) == f = [s \in SUBSET S |-> IF s = {} THEN 0 ELSE AnyOf(s).pnl + f[s \ {AnyOf(s)}]]
<1>1. PG!SumOf(S) = (CHOOSE f : F(f))[S]
  BY DEF PG!SumOf, PG!MapThenSumSet, PG!MapThenFoldSet, AnyOf
<1>2. \A s \in SUBSET S : s # {} => AnyOf(s).pnl = w[AnyOf(s)]
  BY AnyOfIn
<1>3. \A f : F(f) <=> IsSum(w, f, S)
  <2> TAKE f
  <2> DEFINE a == [s \in SUBSET S |-> IF s = {} THEN 0 ELSE AnyOf(s).pnl + f[s \ {AnyOf(s)}]]
             b == [s \in SUBSET S |-> IF s = {} THEN 0 ELSE w[AnyOf(s)] + f[s \ {AnyOf(s)}]]
  <2>1. a = b
    BY <1>2
  <2> QED BY <2>1 DEF IsSum, SumStep
<1>4. \E f : IsSum(w, f, S)
  BY SumExists
<1>5. IsSum(w, CHOOSE f : F(f), S)
  BY <1>3, <1>4
<1> HIDE DEF F
<1>6. (CHOOSE f : F(f))[S] = (CHOOSE f : IsSum(w, f, S))[S]
  <2>1. IsSum(w, CHOOSE f : IsSum(w, f, S), S)
    BY <1>4
  <2> QED BY <1>5, <2>1, SumUnique
<1> QED BY <1>1, <1>6 DEF Weight


LEMMA NetByDay ==
    ASSUME NEW tag, NEW D, IsFiniteSet(D), NEW w, \A d \in D : w[d] = PG!Daily(tag, d).net
    PROVE  PG!MapThenSumSet(LAMBDA d : PG!Daily(tag, d).net, D) = Weight(w, D)
<1> DEFINE F(f) == f = [s \in SUBSET D |-> IF s = {} THEN 0 ELSE PG!Daily(tag, AnyOf(s)).net + f[s \ {AnyOf(s)}]]
<1>1. PG!MapThenSumSet(LAMBDA d : PG!Daily(tag, d).net, D) = (CHOOSE f : F(f))[D]
  BY DEF PG!MapThenSumSet, PG!MapThenFoldSet, AnyOf
<1>2. \A s \in SUBSET D : s # {} => PG!Daily(tag, AnyOf(s)).net = w[AnyOf(s)]
  BY AnyOfIn
<1>3. \A f : F(f) <=> IsSum(w, f, D)
  <2> TAKE f
  <2> DEFINE a == [s \in SUBSET D |-> IF s = {} THEN 0 ELSE PG!Daily(tag, AnyOf(s)).net + f[s \ {AnyOf(s)}]]
             b == [s \in SUBSET D |-> IF s = {} THEN 0 ELSE w[AnyOf(s)] + f[s \ {AnyOf(s)}]]
  <2>1. a = b
    BY <1>2
  <2> QED BY <2>1 DEF IsSum, SumStep
<1>4. \E f : IsSum(w, f, D)
  BY SumExists
<1>5. IsSum(w, CHOOSE f : F(f), D)
  BY <1>3, <1>4
<1> HIDE DEF F
<1>6. (CHOOSE f : F(f))[D] = (CHOOSE f : IsSum(w, f, D))[D]
  <2>1. IsSum(w, CHOOSE f : IsSum(w, f, D), D)
    BY <1>4
  <2> QED BY <1>5, <2>1, SumUnique
<1> QED BY <1>1, <1>6 DEF Weight


LEMMA TradesByDay ==
    ASSUME NEW tag, NEW D, IsFiniteSet(D), NEW w, \A d \in D : w[d] = PG!Daily(tag, d).trades
    PROVE  PG!MapThenSumSet(LAMBDA d : PG!Daily(tag, d).trades, D) = Weight(w, D)
<1> DEFINE F(f) == f = [s \in SUBSET D |-> IF s = {} THEN 0 ELSE PG!Daily(tag, AnyOf(s)).trades + f[s \ {AnyOf(s)}]]
<1>1. PG!MapThenSumSet(LAMBDA d : PG!Daily(tag, d).trades, D) = (CHOOSE f : F(f))[D]
  BY DEF PG!MapThenSumSet, PG!MapThenFoldSet, AnyOf
<1>2. \A s \in SUBSET D : s # {} => PG!Daily(tag, AnyOf(s)).trades = w[AnyOf(s)]
  BY AnyOfIn
<1>3. \A f : F(f) <=> IsSum(w, f, D)
  <2> TAKE f
  <2> DEFINE a == [s \in SUBSET D |-> IF s = {} THEN 0 ELSE PG!Daily(tag, AnyOf(s)).trades + f[s \ {AnyOf(s)}]]
             b == [s \in SUBSET D |-> IF s = {} THEN 0 ELSE w[AnyOf(s)] + f[s \ {AnyOf(s)}]]
  <2>1. a = b
    BY <1>2
  <2> QED BY <2>1 DEF IsSum, SumStep
<1>4. \E f : IsSum(w, f, D)
  BY SumExists
<1>5. IsSum(w, CHOOSE f : F(f), D)
  BY <1>3, <1>4
<1> HIDE DEF F
<1>6. (CHOOSE f : F(f))[D] = (CHOOSE f : IsSum(w, f, D))[D]
  <2>1. IsSum(w, CHOOSE f : IsSum(w, f, D), D)
    BY <1>4
  <2> QED BY <1>5, <2>1, SumUnique
<1> QED BY <1>1, <1>6 DEF Weight


LEMMA WinsByDay ==
    ASSUME NEW tag, NEW D, IsFiniteSet(D), NEW w, \A d \in D : w[d] = PG!Daily(tag, d).wins
    PROVE  PG!MapThenSumSet(LAMBDA d : PG!Daily(tag, d).wins, D) = Weight(w, D)
<1> DEFINE F(f) == f = [s \in SUBSET D |-> IF s = {} THEN 0 ELSE PG!Daily(tag, AnyOf(s)).wins + f[s \ {AnyOf(s)}]]
<1>1. PG!MapThenSumSet(LAMBDA d : PG!Daily(tag, d).wins, D) = (CHOOSE f : F(f))[D]
  BY DEF PG!MapThenSumSet, PG!MapThenFoldSet, AnyOf
<1>2. \A s \in SUBSET D : s # {} => PG!Daily(tag, AnyOf(s)).wins = w[AnyOf(s)]
  BY AnyOfIn
<1>3. \A f : F(f) <=> IsSum(w, f, D)
  <2> TAKE f
  <2> DEFINE a == [s \in SUBSET D |-> IF s = {} THEN 0 ELSE PG!Daily(tag, AnyOf(s)).wins + f[s \ {AnyOf(s)}]]
             b == [s \in SUBSET D |-> IF s = {} THEN 0 ELSE w[AnyOf(s)] + f[s \ {AnyOf(s)}]]
  <2>1. a = b
    BY <1>2
  <2> QED BY <2>1 DEF IsSum, SumStep
<1>4. \E f : IsSum(w, f, D)
  BY SumExists
<1>5. IsSum(w, CHOOSE f : F(f), D)
  BY <1>3, <1>4
<1> HIDE DEF F
<1>6. (CHOOSE f : F(f))[D] = (CHOOSE f : IsSum(w, f, D))[D]
  <2>1. IsSum(w, CHOOSE f : IsSum(w, f, D), D)
    BY <1>4
  <2> QED BY <1>5, <2>1, SumUnique
<1> QED BY <1>1, <1>6 DEF Weight

-----------------------------------------------------------------------------

LEMMA DivisionGrows ==
    ASSUME NEW a \in Nat, NEW b \in Nat, a <= b, NEW c \in Nat \ {0}
    PROVE  a \div c \in 0..(b \div c)
<1>1. a \div c \in Nat /\ b \div c \in Nat
  OBVIOUS
<1>2. a >= c * (a \div c) /\ b < c * ((b \div c) + 1)
  OBVIOUS
<1>3. CASE a \div c > b \div c
  <2>1. PICK p \in Nat, q \in Nat : p = a \div c /\ q = b \div c
    BY <1>1
  <2>2. p >= q + 1 /\ p - (q + 1) \in Nat
    BY <1>3, <2>1
  <2>3. c * (p - (q + 1)) \in Nat /\ c * p = c * (q + 1) + c * (p - (q + 1))
    BY <2>2
  <2>4. c * p \in Nat /\ c * (q + 1) \in Nat
    BY <2>1
  <2>5. a >= c * p /\ b < c * (q + 1)
    BY <1>2, <2>1
  <2> QED BY <2>3, <2>4, <2>5
<1> QED BY <1>1, <1>3

\* Counting, counting the wins and summing are measures of rows.
LEMMA Measures ==
    ASSUME NEW X, IsFiniteSet(X), NEW w, \A r \in X : w[r] \in Int
    PROVE  /\ Additive([A \in SUBSET X |-> Cardinality(A)], X)
           /\ Additive([A \in SUBSET X |-> Cardinality({r \in A : r.pnl > 0})], X)
           /\ Additive([A \in SUBSET X |-> Weight(w, A)], X)
<1> DEFINE count == [A \in SUBSET X |-> Cardinality(A)]
           wins == [A \in SUBSET X |-> Cardinality({r \in A : r.pnl > 0})]
           net == [A \in SUBSET X |-> Weight(w, A)]
<1>1. \A A \in SUBSET X : IsFiniteSet(A) /\ Cardinality(A) \in Int
  BY PartCounts
<1>2. \A A, B \in SUBSET X : A \cap B = {} => Cardinality(A \cup B) = Cardinality(A) + Cardinality(B)
  <2> SUFFICES ASSUME NEW A \in SUBSET X, NEW B \in SUBSET X, A \cap B = {}
               PROVE  Cardinality(A \cup B) = Cardinality(A) + Cardinality(B)
    OBVIOUS
  <2>1. IsFiniteSet(A) /\ IsFiniteSet(B) /\ Cardinality(A) \in Int /\ Cardinality(B) \in Int
    BY <1>1
  <2>2. Cardinality(A \cup B) = Cardinality(A) + Cardinality(B) - Cardinality(A \cap B)
    BY <2>1, FS_Union
  <2>3. Cardinality(A \cap B) = 0
    BY FS_EmptySet
  <2> QED BY <2>1, <2>2, <2>3
<1>3. Additive(count, X)
  <2>1. \A A, B \in SUBSET X : A \cup B \in SUBSET X
    OBVIOUS
  <2> QED BY <1>1, <1>2, <2>1, FS_EmptySet DEF Additive
<1>4. Additive(wins, X)
  <2> DEFINE won(A) == {r \in A : r.pnl > 0}
  <2>1. \A A \in SUBSET X : won(A) \in SUBSET X /\ wins[A] = Cardinality(won(A))
    OBVIOUS
  <2>2. wins[{}] = 0
    <3>1. won({}) = {} /\ {} \in SUBSET X
      OBVIOUS
    <3> HIDE DEF won, wins
    <3> QED BY <2>1, <3>1, FS_EmptySet
  <2>3. ASSUME NEW A \in SUBSET X, NEW B \in SUBSET X, A \cap B = {} PROVE wins[A \cup B] = wins[A] + wins[B]
    <3>1. won(A \cup B) = won(A) \cup won(B) /\ won(A) \cap won(B) = {} /\ A \cup B \in SUBSET X
      BY <2>3
    <3> HIDE DEF won, wins
    <3>2. Cardinality(won(A) \cup won(B)) = Cardinality(won(A)) + Cardinality(won(B))
      BY <1>2, <2>1, <3>1
    <3> QED BY <2>1, <3>1, <3>2
  <2> HIDE DEF won, wins
  <2> QED BY <1>1, <2>1, <2>2, <2>3 DEF Additive
<1>5. Additive(net, X)
  <2>1. net[{}] = 0
    BY WeightUnfolds
  <2>2. \A A \in SUBSET X : net[A] \in Int
    BY WeightInt
  <2>3. ASSUME NEW A \in SUBSET X, NEW B \in SUBSET X, A \cap B = {} PROVE net[A \cup B] = net[A] + net[B]
    <3>1. A \cup B \in SUBSET X
      OBVIOUS
    <3>2. Weight(w, A \cup B) = Weight(w, A) + Weight(w, B)
      BY <2>3, WeightParts
    <3> QED BY <3>1, <3>2
  <2> HIDE DEF net
  <2> QED BY <2>1, <2>2, <2>3 DEF Additive
<1> QED BY <1>3, <1>4, <1>5

LEMMA ViewsAdd ==
    ASSUME PagesInv
    PROVE  PG!ViewsAgree
<1> SUFFICES ASSUME NEW tag \in Tags
             PROVE  /\ PG!Cumulative(tag, PG!Max(PG!Days)) = PG!ByVersion(tag).net
                    /\ PG!MapThenSumSet(LAMBDA d : PG!Daily(tag, d).trades, PG!Days) = PG!ByVersion(tag).trades
                    /\ PG!MapThenSumSet(LAMBDA d : PG!Daily(tag, d).wins, PG!Days) = PG!ByVersion(tag).wins
  BY DEF PG!ViewsAgree
<1>1. PICK X : X = {r \in rows : r.tag = tag /\ r.ts >= PG!WindowSince}
  OBVIOUS
<1>2. PICK day : day = [r \in X |-> r.ts \div DayLen]
  OBVIOUS
<1>3. PICK bound : bound = PagesTime \div DayLen
  OBVIOUS
<1>4. PICK w : w = [r \in X |-> r.pnl]
  OBVIOUS
<1>5. /\ IsFiniteSet(X) /\ X \subseteq rows /\ DayLen \in Nat \ {0} /\ PagesTime \in Nat
      /\ \A r \in X : r.ts \in Nat /\ r.ts <= PagesTime /\ r.pnl \in Int /\ w[r] = r.pnl
  <2>1. X \subseteq rows /\ IsFiniteSet(rows) /\ \A r \in rows : r.ts \in Nat /\ r.ts <= PagesTime /\ r.pnl \in Int
    BY <1>1 DEF PagesInv, RowsTyped
  <2> QED BY <1>4, <2>1, FS_Subset, PagesLimits
<1>6. \A r \in X : day[r] \in 0..bound
  BY <1>2, <1>3, <1>5, DivisionGrows
<1>7. bound \in Nat
  BY <1>3, <1>5
<1>8. PG!Days = 0..bound /\ IsFiniteSet(0..bound)
  BY <1>3, <1>7, FS_Interval DEF PG!Days
<1>9. \A d : {r \in rows : r.tag = tag /\ r.ts >= PG!WindowSince /\ PG!DayOf(r) = d} = OnDay(X, day, d)
  BY <1>1, <1>2 DEF OnDay, PG!DayOf
<1>10. ASSUME NEW d
       PROVE  /\ PG!Daily(tag, d).trades = Cardinality(OnDay(X, day, d))
              /\ PG!Daily(tag, d).wins = Cardinality({r \in OnDay(X, day, d) : r.pnl > 0})
              /\ PG!Daily(tag, d).net = PG!SumOf(OnDay(X, day, d))
  BY <1>9, PagesCounts DEF PG!Daily
<1>11. /\ PG!ByVersion(tag).trades = Cardinality(X)
       /\ PG!ByVersion(tag).wins = Cardinality({r \in X : r.pnl > 0})
       /\ PG!ByVersion(tag).net = PG!SumOf(X)
  BY <1>1, PagesCounts DEF PG!ByVersion
<1>12. \A S \in SUBSET X : PG!SumOf(S) = Weight(w, S)
  <2> SUFFICES ASSUME NEW S \in SUBSET X PROVE PG!SumOf(S) = Weight(w, S)
    OBVIOUS
  <2>1. IsFiniteSet(S) /\ \A r \in S : w[r] = r.pnl
    BY <1>5, FS_Subset
  <2> QED BY <2>1, NetOf
<1>13. \A d : OnDay(X, day, d) \in SUBSET X
  BY DEF OnDay
<1>14. PICK count, wins, net : /\ count = [A \in SUBSET X |-> Cardinality(A)]
                                /\ wins = [A \in SUBSET X |-> Cardinality({r \in A : r.pnl > 0})]
                                /\ net = [A \in SUBSET X |-> Weight(w, A)]
  OBVIOUS
<1>15. Additive(count, X) /\ Additive(wins, X) /\ Additive(net, X)
  <2>1. \A r \in X : w[r] \in Int
    BY <1>5
  <2> QED BY <1>5, <1>14, <2>1, Measures
<1>16. PG!MapThenSumSet(LAMBDA d : PG!Daily(tag, d).trades, PG!Days) = PG!ByVersion(tag).trades
  <2>1. PICK v : v = [d \in 0..bound |-> PG!Daily(tag, d).trades]
    OBVIOUS
  <2>2. \A d \in 0..bound : v[d] = count[OnDay(X, day, d)]
    BY <1>10, <1>13, <1>14, <2>1
  <2>3. Weight(v, 0..bound) = count[X]
    <3>1. Told(X, count, day, bound, 0..bound, v)
      BY <1>6, <1>7, <1>15, <2>2 DEF Told
    <3> QED BY <3>1, DayByDay
  <2>4. PG!MapThenSumSet(LAMBDA d : PG!Daily(tag, d).trades, 0..bound) = Weight(v, 0..bound)
    BY <1>8, <2>1, TradesByDay
  <2>5. count[X] = Cardinality(X)
    BY <1>14
  <2> QED BY <1>8, <1>11, <2>3, <2>4, <2>5
<1>17. PG!MapThenSumSet(LAMBDA d : PG!Daily(tag, d).wins, PG!Days) = PG!ByVersion(tag).wins
  <2>1. PICK v : v = [d \in 0..bound |-> PG!Daily(tag, d).wins]
    OBVIOUS
  <2>2. \A d \in 0..bound : v[d] = wins[OnDay(X, day, d)]
    BY <1>10, <1>13, <1>14, <2>1
  <2>3. Weight(v, 0..bound) = wins[X]
    <3>1. Told(X, wins, day, bound, 0..bound, v)
      BY <1>6, <1>7, <1>15, <2>2 DEF Told
    <3> QED BY <3>1, DayByDay
  <2>4. PG!MapThenSumSet(LAMBDA d : PG!Daily(tag, d).wins, 0..bound) = Weight(v, 0..bound)
    BY <1>8, <2>1, WinsByDay
  <2>5. wins[X] = Cardinality({r \in X : r.pnl > 0})
    BY <1>14
  <2> QED BY <1>8, <1>11, <2>3, <2>4, <2>5
<1>18. PG!Cumulative(tag, PG!Max(PG!Days)) = PG!ByVersion(tag).net
  <2>1. PG!Max(0..bound) = bound
    <3>1. bound \in 0..bound /\ \A d \in 0..bound : bound >= d
      BY <1>7
    <3>2. PG!Max(0..bound) \in 0..bound /\ \A d \in 0..bound : PG!Max(0..bound) >= d
      BY <3>1 DEF PG!Max
    <3> QED BY <1>7, <3>1, <3>2
  <2>2. PICK D : D = {e \in 0..bound : e <= bound /\ PG!Daily(tag, e).trades > 0}
    OBVIOUS
  <2>3. D \in SUBSET (0..bound) /\ IsFiniteSet(D)
    BY <1>8, <2>2, FS_Subset
  <2>4. \A r \in X : day[r] \in D
    <3> SUFFICES ASSUME NEW r \in X PROVE day[r] \in D
      OBVIOUS
    <3>1. r \in OnDay(X, day, day[r]) /\ IsFiniteSet(OnDay(X, day, day[r]))
      BY <1>5, <1>13, FS_Subset DEF OnDay
    <3>2. Cardinality(OnDay(X, day, day[r])) \in Nat /\ Cardinality(OnDay(X, day, day[r])) # 0
      BY <3>1, FS_CardinalityType, FS_EmptySet
    <3>3. PG!Daily(tag, day[r]).trades > 0
      <4>1. PG!Daily(tag, day[r]).trades = Cardinality(OnDay(X, day, day[r]))
        BY <1>10
      <4> QED BY <3>2, <4>1
    <3>4. day[r] \in 0..bound /\ day[r] <= bound
      BY <1>6, <1>7
    <3> QED BY <2>2, <3>3, <3>4
  <2>5. PICK v : v = [d \in D |-> PG!Daily(tag, d).net]
    OBVIOUS
  <2>6. \A d \in D : v[d] = net[OnDay(X, day, d)]
    BY <1>10, <1>12, <1>13, <1>14, <2>5
  <2>7. Weight(v, D) = net[X]
    <3>1. Told(X, net, day, bound, D, v)
      BY <1>7, <1>15, <2>3, <2>4, <2>6 DEF Told
    <3> QED BY <3>1, DayByDay
  <2>8. PG!MapThenSumSet(LAMBDA d : PG!Daily(tag, d).net, D) = Weight(v, D)
    BY <2>3, <2>5, NetByDay
  <2>9. PG!Cumulative(tag, bound) = PG!MapThenSumSet(LAMBDA d : PG!Daily(tag, d).net, D)
    BY <1>8, <2>2 DEF PG!Cumulative
  <2>10. net[X] = PG!SumOf(X)
    BY <1>12, <1>14
  <2> QED BY <1>8, <1>11, <2>1, <2>7, <2>8, <2>9, <2>10
<1> QED BY <1>16, <1>17, <1>18

-----------------------------------------------------------------------------
(* The limits, the dumps and the pages.                                    *)

OperationsInv ==
    /\ part = "login" => LoginInv /\ TogglesInv
    /\ part = "alerts" => AlertsInv
    /\ part = "backup" => BackupInv
    /\ part = "pages" => PagesInv

LEMMA OperationsInitial ==
    ASSUME Init
    PROVE  OperationsInv
<1>1. ASSUME part = "login" PROVE LoginInv /\ TogglesInv
  BY <1>1, LoginInitial, TogglesInitial DEF Init
<1>2. ASSUME part = "alerts" PROVE AlertsInv
  BY <1>2, AlertsInitial DEF Init
<1>3. ASSUME part = "backup" PROVE BackupInv
  BY <1>3, BackupInitial DEF Init
<1>4. ASSUME part = "pages" PROVE PagesInv
  BY <1>4, PagesInitial DEF Init
<1> QED BY <1>1, <1>2, <1>3, <1>4 DEF OperationsInv

LEMMA OperationsStep ==
    ASSUME OperationsInv, Next
    PROVE  OperationsInv'
<1>1. part' = part
  BY DEF Next
<1>2. ASSUME part = "login" PROVE LoginInv' /\ TogglesInv'
  BY <1>2, LimitsStep DEF Next, OperationsInv
<1>3. ASSUME part = "alerts" PROVE AlertsInv'
  BY <1>3, AlertsStep DEF Next, OperationsInv
<1>4. ASSUME part = "backup" PROVE BackupInv'
  BY <1>4, BackupStep DEF Next, OperationsInv
<1>5. ASSUME part = "pages" PROVE PagesInv'
  BY <1>5, PagesStep DEF Next, OperationsInv
<1> QED BY <1>1, <1>2, <1>3, <1>4, <1>5 DEF OperationsInv

LEMMA OperationsQuiet ==
    ASSUME OperationsInv, UNCHANGED vars
    PROVE  OperationsInv'
<1>1. UNCHANGED <<part, now, seen, sent, let, attempts, toggles, toggled, refused, broken>>
      /\ UNCHANGED <<recent, bucket, log, alerts>>
      /\ UNCHANGED <<stage, at, exit, flush, files, expired, made, ticks, skips, lost, unpruned>>
  BY DEF vars, LL!vars, LL!login, LL!halt, AD!vars, AD!limiter, BU!vars, BU!run, BU!disk, BU!tally
<1>2. ASSUME part = "login" PROVE LoginInv' /\ TogglesInv'
  <2>1. LoginInv /\ TogglesInv /\ now' \in Nat /\ now' >= now
    BY <1>1, <1>2 DEF OperationsInv, LoginInv
  <2> QED BY <1>1, <2>1, LoginQuiet, TogglesQuiet
<1>3. ASSUME part = "alerts" PROVE AlertsInv'
  BY <1>1, <1>3
     DEF OperationsInv, AlertsInv, AlertsTyped, PushedOut, RoomFound, Before, BucketsNew, AD!OnePerCoalesceWindow
<1>4. ASSUME part = "backup" PROVE BackupInv'
  BY <1>1, <1>4
     DEF OperationsInv, BackupInv, BackupTyped, Running, Superseded, MadeAfter, Bounded, BU!NoSilentFailure
<1>5. ASSUME part = "pages" PROVE PagesInv'
  <2>1. PagesInv /\ UNCHANGED PG!vars
    BY <1>1, <1>5 DEF OperationsInv, vars
  <2> QED BY <2>1, PagesQuiet
<1> QED BY <1>1, <1>2, <1>3, <1>4, <1>5 DEF OperationsInv

\* Behind OperationsSound, for every limit, window, depth and page size: a list still holds all of
\* its window that was let through, a critical alert pushes out what comes before everything
\* counted, a dump is unlinked when the depth is behind it, every row behind the cursor of a walk is
\* on a page, and a measure of rows adds up day by day (LoginRateLimiter, HaltRateLimiter,
\* AlertRateLimiter, DbBackupScheduler, the read API's pages and views).
THEOREM OperationsAreSound == Spec => []OperationsSound
<1>1. Init => OperationsInv
  BY OperationsInitial
<1>2. OperationsInv /\ [Next]_vars => OperationsInv'
  BY OperationsStep, OperationsQuiet
<1>3. OperationsInv => OperationsSound
  BY WindowsHeld, AlertsHeld, DumpsHeld, WalkBounds, ViewsAdd
     DEF OperationsInv, OperationsSound, LL!HaltRetrySuffices, TogglesInv
<1> QED BY <1>1, <1>2, <1>3, PTL DEF Spec
=============================================================================
