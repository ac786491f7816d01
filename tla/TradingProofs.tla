--------------------------- MODULE TradingProofs ----------------------------
(***************************************************************************)
(* Proofs about components MCTrading gathers: the universe of symbols, the *)
(* ledger and the excursion records, the day's row, the paper account, the *)
(* momentum portfolio, the entry rules, the closes of a paper position.     *)
(***************************************************************************)
EXTENDS MCTrading, Sequences, FiniteSetTheorems, NaturalsInduction, WellFoundedInduction, TLAPS

-----------------------------------------------------------------------------
(***************************************************************************)
(* Sums over finite sets, which the ledger, the day row and the paper      *)
(* account take with MapThenSumSet.  A sum is a fold, whose value is found *)
(* by induction on the size of the set; SetInduction states induction for  *)
(* a set of numbers, the smallest number outside it being the              *)
(* counterexample.                                                         *)
(***************************************************************************)

\* Induction over the naturals for a set of numbers.
LEMMA SetInduction ==
    ASSUME NEW P, 0 \in P, \A n \in Nat : n \in P => n + 1 \in P
    PROVE  \A n \in Nat : n \in P
<1> SUFFICES ASSUME Nat \ P # {} PROVE FALSE
  OBVIOUS
<1>1. PICK m \in Nat \ P : \A y \in Nat \ P : ~ (<<y, m>> \in OpToRel(<, Nat))
  <2> HIDE DEF OpToRel
  <2>1. Nat \ P \subseteq Nat
    OBVIOUS
  <2> QED BY <2>1, NatLessThanWellFounded, WFMin, Zenon
<1>2. \A y \in Nat : y < m => y \in P
  BY <1>1 DEF OpToRel
<1>3. m # 0 /\ m - 1 \in Nat /\ m - 1 < m /\ (m - 1) + 1 = m
  OBVIOUS
<1> QED BY <1>2, <1>3

\* The element MapThenSumSet takes first, the step it then makes, the function it
\* defines on the subsets of S and the sum of the weights w of S.
AnyOf(s) == CHOOSE x \in s : TRUE
SumStep(w, f, s) == IF s = {} THEN 0 ELSE w[AnyOf(s)] + f[s \ {AnyOf(s)}]
IsSum(w, f, S) == f = [s \in SUBSET S |-> SumStep(w, f, s)]
Weight(w, S) == (CHOOSE f : IsSum(w, f, S))[S]

\* The element taken is an element.
LEMMA AnyOfIn == ASSUME NEW S, S # {} PROVE AnyOf(S) \in S
  BY DEF AnyOf

\* Taking it out leaves a smaller subset.
LEMMA SmallerSubset ==
    ASSUME NEW S, IsFiniteSet(S), NEW n \in Nat,
           NEW s \in SUBSET S, s # {}, Cardinality(s) <= n + 1
    PROVE  /\ s \ {AnyOf(s)} \in SUBSET S
           /\ Cardinality(s \ {AnyOf(s)}) <= n
           /\ Cardinality(s \ {AnyOf(s)}) \in Nat
<1>1. AnyOf(s) \in s
  BY AnyOfIn
<1>2. IsFiniteSet(s) 
  BY FS_Subset
<1>3. Cardinality(s \ {AnyOf(s)}) = Cardinality(s) - 1 /\ IsFiniteSet(s \ {AnyOf(s)})
  BY <1>1, <1>2, FS_RemoveElement
<1>4. Cardinality(s) \in Nat /\ Cardinality(s \ {AnyOf(s)}) \in Nat
  BY <1>2, <1>3, FS_CardinalityType
<1> QED BY <1>3, <1>4

\* The subsets of S with at most n elements.
Sub(S, n) == {s \in SUBSET S : Cardinality(s) <= n}

\* The recursion of MapThenSumSet defines a function on every finite set: built
\* for the subsets of size 0, then for one size after another.
LEMMA SumExists == ASSUME NEW w, NEW S, IsFiniteSet(S) PROVE \E f : IsSum(w, f, S)
<1> DEFINE P == {n \in Nat : \E f : f = [s \in Sub(S, n) |-> SumStep(w, f, s)]}
<1>1. 0 \in P
  <2> DEFINE f == [s \in Sub(S, 0) |-> 0]
  <2>1. \A s \in Sub(S, 0) : s = {}
    <3> SUFFICES ASSUME NEW s \in Sub(S, 0) PROVE s = {}
      OBVIOUS
    <3>1. s \in SUBSET S /\ Cardinality(s) <= 0
      BY DEF Sub
    <3>2. IsFiniteSet(s) /\ Cardinality(s) \in Nat
      BY <3>1, FS_Subset, FS_CardinalityType
    <3> QED BY <3>1, <3>2, FS_EmptySet
  <2>2. \A s \in Sub(S, 0) : SumStep(w, f, s) = 0
    BY <2>1 DEF SumStep
  <2>3. f = [s \in Sub(S, 0) |-> SumStep(w, f, s)]
    BY <2>2
  <2> QED BY <2>3
<1>2. ASSUME NEW n \in Nat, n \in P PROVE n + 1 \in P
  <2>1. PICK f : f = [s \in Sub(S, n) |-> SumStep(w, f, s)]
    BY <1>2
  <2> DEFINE g == [s \in Sub(S, n + 1) |-> SumStep(w, f, s)]
  <2>2. \A s \in Sub(S, n) : s \in Sub(S, n + 1) /\ g[s] = f[s]
    <3>1. \A s \in Sub(S, n) : s \in Sub(S, n + 1)
      <4> SUFFICES ASSUME NEW s \in Sub(S, n) PROVE s \in Sub(S, n + 1)
        OBVIOUS
      <4>1. s \in SUBSET S /\ Cardinality(s) <= n
        BY DEF Sub
      <4>2. Cardinality(s) \in Nat
        BY <4>1, FS_Subset, FS_CardinalityType
      <4> QED BY <4>1, <4>2 DEF Sub
    <3> QED BY <3>1, <2>1
  <2>3. \A s \in Sub(S, n + 1) : s # {} => s \ {AnyOf(s)} \in Sub(S, n)
    BY SmallerSubset DEF Sub
  <2>4. \A s \in Sub(S, n + 1) : SumStep(w, f, s) = SumStep(w, g, s)
    <3> HIDE DEF g
    <3> QED BY <2>2, <2>3 DEF SumStep
  <2>5. g = [s \in Sub(S, n + 1) |-> SumStep(w, g, s)]
    <3>1. [s \in Sub(S, n + 1) |-> SumStep(w, f, s)] = [s \in Sub(S, n + 1) |-> SumStep(w, g, s)]
      BY <2>4
    <3> QED BY <3>1
  <2>6. \E h : h = [s \in Sub(S, n + 1) |-> SumStep(w, h, s)]
    BY <2>5
  <2> QED BY <2>6
<1>3. \A n \in Nat : n \in P
  <2> HIDE DEF P
  <2> QED BY <1>1, <1>2, SetInduction
<1>4. Cardinality(S) \in Nat
  BY FS_CardinalityType
<1>5. Sub(S, Cardinality(S)) = SUBSET S
  BY FS_Subset DEF Sub
<1> QED BY <1>3, <1>4, <1>5 DEF IsSum

\* Summing over a larger set gives the same sum of a part of it.
LEMMA SumUnique ==
    ASSUME NEW w, NEW S, NEW T, IsFiniteSet(S), T \subseteq S,
           NEW f, NEW g, IsSum(w, f, S), IsSum(w, g, T)
    PROVE  f[T] = g[T]
<1> DEFINE P == {n \in Nat : \A t \in SUBSET T : Cardinality(t) <= n => f[t] = g[t]}
<1>0. /\ IsFiniteSet(T)
      /\ \A t \in SUBSET T :
            t \in SUBSET S /\ IsFiniteSet(t) /\ Cardinality(t) \in Nat
  BY FS_Subset, FS_CardinalityType
<1>a. \A t \in SUBSET T : f[t] = SumStep(w, f, t) /\ g[t] = SumStep(w, g, t)
  BY <1>0 DEF IsSum
<1>1. 0 \in P
  <2>1. \A t \in SUBSET T : Cardinality(t) <= 0 => t = {}
    BY <1>0, FS_EmptySet
  <2>2. \A t \in SUBSET T : t = {} => f[t] = g[t]
    BY <1>a DEF SumStep
  <2> QED BY <2>1, <2>2
<1>2. ASSUME NEW n \in Nat, n \in P PROVE n + 1 \in P
  <2> SUFFICES ASSUME NEW t \in SUBSET T, Cardinality(t) <= n + 1 PROVE f[t] = g[t]
    OBVIOUS
  <2>1. CASE t = {}
    BY <2>1, <1>a DEF SumStep
  <2>2. CASE t # {}
    <3>1. f[t \ {AnyOf(t)}] = g[t \ {AnyOf(t)}]
      BY <1>0, <1>2, <2>2, SmallerSubset
    <3> QED BY <3>1, <2>2, <1>a DEF SumStep
  <2> QED BY <2>1, <2>2
<1>3. \A n \in Nat : n \in P
  <2> HIDE DEF P
  <2> QED BY <1>1, <1>2, SetInduction
<1> QED BY <1>0, <1>3

\* The recursive equation of a sum.
LEMMA WeightUnfolds ==
    ASSUME NEW w, NEW S, IsFiniteSet(S)
    PROVE  /\ Weight(w, {}) = 0
           /\ S # {} => Weight(w, S) = w[AnyOf(S)] + Weight(w, S \ {AnyOf(S)})
<1> DEFINE F(T) == CHOOSE f : IsSum(w, f, T)
<1>0. \A T \in SUBSET S : IsFiniteSet(T) /\ IsSum(w, F(T), T)
  BY FS_Subset, SumExists
<1>1. \A T : Weight(w, T) = F(T)[T]
  BY DEF Weight
<1>2. \A T \in SUBSET S : F(T)[T] = SumStep(w, F(T), T)
  <2> HIDE DEF F
  <2> QED BY <1>0 DEF IsSum
<1>3. Weight(w, {}) = 0
  <2>1. Weight(w, {}) = SumStep(w, F({}), {})
    <3> HIDE DEF F
    <3> QED BY <1>1, <1>2
  <2> QED BY <2>1 DEF SumStep
<1>4. ASSUME S # {} PROVE Weight(w, S) = w[AnyOf(S)] + Weight(w, S \ {AnyOf(S)})
  <2> DEFINE T == S \ {AnyOf(S)}
  <2> HIDE DEF F
  <2>1. F(S)[T] = F(T)[T]
    <3>1. T \subseteq S /\ IsSum(w, F(S), S) /\ IsSum(w, F(T), T)
      BY <1>0
    <3> HIDE DEF T
    <3> QED BY <3>1, SumUnique
  <2>2. Weight(w, S) = w[AnyOf(S)] + F(S)[T]
    BY <1>1, <1>2, <1>4 DEF SumStep
  <2> QED BY <2>1, <2>2, <1>1
<1> QED BY <1>3, <1>4

\* Sums of integers are integers.
LEMMA WeightInt ==
    ASSUME NEW D, IsFiniteSet(D), NEW w, \A x \in D : w[x] \in Int, NEW S \in SUBSET D
    PROVE  Weight(w, S) \in Int
<1> DEFINE P == {n \in Nat : \A t \in SUBSET D : Cardinality(t) <= n => Weight(w, t) \in Int}
<1>0. \A t \in SUBSET D : IsFiniteSet(t) /\ Cardinality(t) \in Nat
  BY FS_Subset, FS_CardinalityType
<1>a. Weight(w, {}) = 0
  BY FS_EmptySet, WeightUnfolds
<1>1. 0 \in P
  <2>1. \A t \in SUBSET D : Cardinality(t) <= 0 => t = {}
    BY <1>0, FS_EmptySet
  <2> QED BY <1>a, <2>1
<1>2. ASSUME NEW n \in Nat, n \in P PROVE n + 1 \in P
  <2> SUFFICES ASSUME NEW t \in SUBSET D, Cardinality(t) <= n + 1, t # {}
               PROVE  Weight(w, t) \in Int
    BY <1>a
  <2>1. Weight(w, t \ {AnyOf(t)}) \in Int
    BY <1>2, SmallerSubset
  <2>2. w[AnyOf(t)] \in Int
    BY AnyOfIn
  <2> QED BY <2>1, <2>2, <1>0, WeightUnfolds
<1>3. \A n \in Nat : n \in P
  <2> HIDE DEF P
  <2> QED BY <1>1, <1>2, SetInduction
<1> QED BY <1>0, <1>3

\* The sum of a constant, and of what is never negative.
LEMMA WeightBounds ==
    ASSUME NEW D, IsFiniteSet(D), NEW w, NEW c \in Nat, \A x \in D : w[x] \in Int /\ w[x] >= c
    PROVE  Weight(w, D) >= c * Cardinality(D)
<1> DEFINE P == {n \in Nat : \A t \in SUBSET D : Cardinality(t) = n => Weight(w, t) >= c * n}
<1>0. \A t \in SUBSET D : IsFiniteSet(t) /\ Cardinality(t) \in Nat
  BY FS_Subset, FS_CardinalityType
<1>1. 0 \in P
  <2>1. \A t \in SUBSET D : Cardinality(t) = 0 => t = {}
    BY <1>0, FS_EmptySet
  <2>2. Weight(w, {}) = 0
    BY FS_EmptySet, WeightUnfolds
  <2>3. \A t \in SUBSET D : Cardinality(t) = 0 => Weight(w, t) >= c * 0
    <3>1. 0 >= c * 0
      OBVIOUS
    <3>2. \A t \in SUBSET D : Cardinality(t) = 0 => Weight(w, t) = 0
      BY <2>1, <2>2, Zenon
    <3> QED BY <3>1, <3>2, Zenon
  <2> QED BY <2>3
<1>2. ASSUME NEW n \in Nat, n \in P PROVE n + 1 \in P
  <2> SUFFICES ASSUME NEW t \in SUBSET D, Cardinality(t) = n + 1
               PROVE  Weight(w, t) >= c * (n + 1)
    OBVIOUS
  <2>1. t # {}
    BY FS_EmptySet
  <2>2. AnyOf(t) \in t
    BY <2>1, AnyOfIn
  <2>3. Cardinality(t \ {AnyOf(t)}) = n
    <3>1. Cardinality(t \ {AnyOf(t)}) = Cardinality(t) - 1
      BY <2>2, <1>0, FS_RemoveElement
    <3> QED BY <3>1
  <2>4. Weight(w, t \ {AnyOf(t)}) >= c * n
    BY <1>2, <2>3
  <2>5. Weight(w, t \ {AnyOf(t)}) \in Int /\ w[AnyOf(t)] \in Int /\ w[AnyOf(t)] >= c
    BY <2>2, WeightInt
  <2>6. Weight(w, t) = w[AnyOf(t)] + Weight(w, t \ {AnyOf(t)})
    BY <2>1, <1>0, WeightUnfolds
  <2>7. c * (n + 1) = c * n + c /\ c * n \in Int
    OBVIOUS
  <2> QED BY <2>4, <2>5, <2>6, <2>7
<1>3. \A n \in Nat : n \in P
  <2> HIDE DEF P
  <2> QED BY <1>1, <1>2, SetInduction
<1> QED BY <1>0, <1>3

\* Weights that agree have the same sum.
LEMMA WeightSame ==
    ASSUME NEW D, IsFiniteSet(D), NEW w, NEW v, \A x \in D : w[x] = v[x]
    PROVE  Weight(w, D) = Weight(v, D)
<1> DEFINE P == {n \in Nat : \A t \in SUBSET D : Cardinality(t) <= n => Weight(w, t) = Weight(v, t)}
<1>0. \A t \in SUBSET D : IsFiniteSet(t) /\ Cardinality(t) \in Nat
  BY FS_Subset, FS_CardinalityType
<1>a. Weight(w, {}) = 0 /\ Weight(v, {}) = 0
  BY FS_EmptySet, WeightUnfolds
<1>1. 0 \in P
  <2>1. \A t \in SUBSET D : Cardinality(t) <= 0 => t = {}
    BY <1>0, FS_EmptySet
  <2> QED BY <1>a, <2>1
<1>2. ASSUME NEW n \in Nat, n \in P PROVE n + 1 \in P
  <2> SUFFICES ASSUME NEW t \in SUBSET D, Cardinality(t) <= n + 1, t # {}
               PROVE  Weight(w, t) = Weight(v, t)
    BY <1>a
  <2>1. Weight(w, t \ {AnyOf(t)}) = Weight(v, t \ {AnyOf(t)})
    BY <1>2, SmallerSubset
  <2>2. w[AnyOf(t)] = v[AnyOf(t)]
    BY AnyOfIn
  <2> QED BY <2>1, <2>2, <1>0, WeightUnfolds
<1>3. \A n \in Nat : n \in P
  <2> HIDE DEF P
  <2> QED BY <1>1, <1>2, SetInduction
<1> QED BY <1>0, <1>3

\* Any element may be taken first.
LEMMA WeightTakes ==
    ASSUME NEW D, IsFiniteSet(D), NEW w, \A x \in D : w[x] \in Int, NEW z \in D
    PROVE  Weight(w, D) = w[z] + Weight(w, D \ {z})
<1> DEFINE P == {n \in Nat : \A t \in SUBSET D : Cardinality(t) <= n =>
                                \A x \in t : Weight(w, t) = w[x] + Weight(w, t \ {x})}
<1>0. \A t \in SUBSET D : IsFiniteSet(t) /\ Cardinality(t) \in Nat
  BY FS_Subset, FS_CardinalityType
<1>1. 0 \in P
  <2>1. \A t \in SUBSET D : Cardinality(t) <= 0 => t = {}
    BY <1>0, FS_EmptySet
  <2> QED BY <2>1
<1>2. ASSUME NEW n \in Nat, n \in P PROVE n + 1 \in P
  <2> SUFFICES ASSUME NEW t \in SUBSET D, Cardinality(t) <= n + 1, NEW x \in t
               PROVE  Weight(w, t) = w[x] + Weight(w, t \ {x})
    OBVIOUS
  <2> DEFINE a == AnyOf(t)
  <2>1. a \in t /\ Weight(w, t) = w[a] + Weight(w, t \ {a})
    BY <1>0, AnyOfIn, WeightUnfolds
  <2> HIDE DEF a
  <2>2. CASE x = a
    BY <2>1, <2>2
  <2>3. CASE x # a
    <3>1. \A y \in t : Cardinality(t \ {y}) <= n /\ t \ {y} \in SUBSET D
      <4> SUFFICES ASSUME NEW y \in t PROVE Cardinality(t \ {y}) <= n
        OBVIOUS
      <4>1. Cardinality(t \ {y}) = Cardinality(t) - 1 /\ IsFiniteSet(t)
        BY <1>0, FS_RemoveElement
      <4> QED BY <1>0, <4>1
    <3>2. Weight(w, t \ {a}) = w[x] + Weight(w, (t \ {a}) \ {x})
      BY <1>2, <2>1, <2>3, <3>1
    <3>3. Weight(w, t \ {x}) = w[a] + Weight(w, (t \ {x}) \ {a})
      BY <1>2, <2>1, <2>3, <3>1
    <3>4. (t \ {a}) \ {x} = (t \ {x}) \ {a}
      OBVIOUS
    <3>5. Weight(w, (t \ {x}) \ {a}) \in Int /\ w[x] \in Int /\ w[a] \in Int
      BY <2>1, WeightInt
    <3> DEFINE k == Weight(w, (t \ {x}) \ {a})
    <3>6. Weight(w, t \ {a}) = w[x] + k /\ Weight(w, t \ {x}) = w[a] + k /\ k \in Int
      BY <3>2, <3>3, <3>4, <3>5
    <3> HIDE DEF k
    <3> QED BY <2>1, <3>5, <3>6
  <2> QED BY <2>2, <2>3
<1>3. \A n \in Nat : n \in P
  <2> HIDE DEF P
  <2> QED BY <1>1, <1>2, SetInduction
<1>4. D \in SUBSET D /\ Cardinality(D) \in Nat /\ Cardinality(D) \in P
  BY <1>0, <1>3
<1> QED BY <1>4

-----------------------------------------------------------------------------
(* The universe.                                                           *)

\* While the engine is up, the retainer has a reason for the symbol of every
\* position the engine itself opened, whatever the row went through.
Retaining ==
    \A s \in Symbols :
        /\ row[s] = "manual_adopted_unmanaged" => adopted[s]
        /\ boot = "up" /\ row[s] = "open" => "OPEN_POSITION" \in reasons[s]
        /\ boot = "up" /\ row[s] = "reconciling" => "PENDING_RECONCILE" \in reasons[s]
        /\ boot = "up" /\ row[s] = "closing" /\ ~adopted[s] => "OPEN_POSITION" \in reasons[s]

UniverseInv == MF!TypeOK /\ MF!ReasonsHaveCause /\ MF!MembershipMatches /\ Retaining

LEMMA UniverseInit ==
    ASSUME MF!Init
    PROVE  UniverseInv
<1>1. MF!TypeOK
  <2>1. MaxRefreshes \in Nat /\ MaxRestarts \in Nat
    BY UniverseAssumption DEF MF!ConstantsOK
  <2>2. refreshes \in 0..MaxRefreshes /\ crashes \in 0..MaxRestarts
    BY <2>1 DEF MF!Init
  <2>3. row \in [Symbols -> MF!Rows] /\ reasons \in [Symbols -> SUBSET MF!Reasons]
    BY DEF MF!Init, MF!Rows
  <2> QED BY <2>2, <2>3 DEF MF!Init, MF!TypeOK
<1>2. MF!ReasonsHaveCause /\ MF!MembershipMatches /\ Retaining
  BY DEF MF!Init, MF!ReasonsHaveCause, MF!MembershipMatches, Retaining
<1> QED BY <1>1, <1>2 DEF UniverseInv

\* The writes of a refresh make the timeline follow the entries.
LEMMA RefreshFollowed ==
    ASSUME MF!TypeOK, MF!MembershipMatches, NEW r \in MF!Rankings, MF!Refresh(r),
           UNCHANGED <<reasons, row, adopted, loss, sweep, crashes>>,
           refreshes' \in 0..MaxRefreshes, boot' \in {"up", "seeded"}
    PROVE  MF!TypeOK' /\ MF!MembershipMatches'
<1>1. r \in [Symbols -> UniverseTiers \cup {None}]
  BY DEF MF!Rankings
<1>2. entries' \in [Symbols -> UniverseTiers \cup {None}]
  BY <1>1 DEF MF!Refresh, MF!Ranked, MF!TypeOK
<1>3. \A s \in Symbols : MF!Membership(s, entries'[s]) \in UniverseTiers \cup {None}
  BY <1>2 DEF MF!Membership, MF!TypeOK
<1>4. member' \in [Symbols -> UniverseTiers \cup {None}] /\ lost' \in BOOLEAN
  BY <1>3 DEF MF!Refresh, MF!TypeOK
<1>5. MF!TypeOK'
  BY <1>2, <1>4 DEF MF!TypeOK
<1>6. ASSUME crashes' = 0, ~lost' PROVE member' = entries'
  <2>1. member = entries
    BY <1>6 DEF MF!MembershipMatches, MF!Refresh
  <2>2. member' = [s \in Symbols |-> MF!Membership(s, entries'[s])]
    BY <1>6 DEF MF!Refresh
  <2>3. \A s \in Symbols : MF!Membership(s, entries'[s]) = entries'[s]
    BY <2>1 DEF MF!Membership
  <2> QED BY <1>2, <2>2, <2>3
<1> QED BY <1>5, <1>6 DEF MF!MembershipMatches

LEMMA UniverseStep ==
    ASSUME UniverseInv, MF!Next
    PROVE  UniverseInv' /\ MF!KeepsHeld
<1> USE DEF UniverseInv
<1>1. ASSUME NEW r \in MF!Rankings, MF!ScheduledRefresh(r) PROVE UniverseInv' /\ MF!KeepsHeld
  <2>1. MF!TypeOK' /\ MF!MembershipMatches'
    <3>1. refreshes' \in 0..MaxRefreshes
      BY <1>1, UniverseAssumption DEF MF!ScheduledRefresh, MF!TypeOK, MF!ConstantsOK
    <3> QED BY <1>1, <3>1, RefreshFollowed DEF MF!ScheduledRefresh
  <2>2. MF!ReasonsHaveCause' /\ Retaining'
    BY <1>1 DEF MF!ScheduledRefresh, MF!ReasonsHaveCause, Retaining
  <2>3. MF!KeepsHeld
    BY <1>1 DEF MF!ScheduledRefresh, MF!Refresh, MF!Ranked, MF!IsRetained, MF!KeepsHeld, Retaining
  <2> QED BY <2>1, <2>2, <2>3
<1>2. ASSUME NEW r \in MF!Rankings, MF!OnApplicationBootstrap(r) PROVE UniverseInv' /\ MF!KeepsHeld
  <2>1. MF!TypeOK' /\ MF!MembershipMatches'
    <3>1. refreshes' \in 0..MaxRefreshes
      BY <1>2 DEF MF!OnApplicationBootstrap, MF!TypeOK
    <3> QED BY <1>2, <3>1, RefreshFollowed DEF MF!OnApplicationBootstrap
  <2> QED BY <1>2, <2>1 DEF MF!OnApplicationBootstrap, MF!ReasonsHaveCause, Retaining, MF!KeepsHeld
<1>3. CASE MF!Phase5RebuildRetainer
  <2>1. \A s \in Symbols : MF!RetainReasonForState(row[s]) \subseteq MF!Reasons
    BY DEF MF!RetainReasonForState, MF!Reasons
  <2>2. MF!TypeOK'
    BY <1>3, <2>1 DEF MF!Phase5RebuildRetainer, MF!TypeOK
  <2>3. MF!ReasonsHaveCause'
    BY <1>3 DEF MF!Phase5RebuildRetainer, MF!ReasonsHaveCause, MF!RetainReasonForState
  <2>4. Retaining'
    BY <1>3 DEF MF!Phase5RebuildRetainer, Retaining, MF!RetainReasonForState
  <2> QED
    BY <1>3, <2>2, <2>3, <2>4 DEF MF!Phase5RebuildRetainer, MF!MembershipMatches, MF!KeepsHeld
<1>4. CASE MF!Crash
  <2>1. MF!TypeOK'
    BY <1>4, UniverseAssumption DEF MF!Crash, MF!TypeOK, MF!ConstantsOK
  <2>2. crashes' # 0
    BY <1>4 DEF MF!Crash, MF!TypeOK
  <2> QED BY <1>4, <2>1, <2>2 DEF MF!Crash, MF!ReasonsHaveCause, MF!MembershipMatches, Retaining, MF!KeepsHeld
<1>5. ASSUME NEW s \in Symbols, MF!InsertRow(s) PROVE UniverseInv' /\ MF!KeepsHeld
  <2>1. MF!TypeOK'
    BY <1>5 DEF MF!InsertRow, MF!TypeOK, MF!Rows
  <2>2. MF!ReasonsHaveCause'
    BY <1>5 DEF MF!InsertRow, MF!ReasonsHaveCause, MF!TypeOK
  <2>3. Retaining'
    BY <1>5 DEF MF!InsertRow, Retaining, MF!TypeOK
  <2> QED BY <1>5, <2>1, <2>2, <2>3 DEF MF!InsertRow, MF!MembershipMatches, MF!KeepsHeld
<1>6. ASSUME NEW s \in Symbols, MF!Transition(s) PROVE UniverseInv' /\ MF!KeepsHeld
  <2>1. PICK t \in MF!LegalTransitions :
          /\ row[s] = t[1] /\ row' = [row EXCEPT ![s] = t[2]]
          /\ reasons' = [reasons EXCEPT ![s] = MF!RetainedAfter(s, t[1], t[2])]
          /\ adopted' = [adopted EXCEPT ![s] = @ \/ t[2] = "manual_adopted_unmanaged"]
    BY <1>6 DEF MF!Transition
  <2>2. t[1] \in MF!Rows /\ t[2] \in MF!Rows
    BY DEF MF!LegalTransitions, MF!Rows
  <2>3. MF!RetainedAfter(s, t[1], t[2]) \subseteq MF!Reasons
    <3>1. reasons[s] \subseteq MF!Reasons
      BY DEF MF!TypeOK
    <3> QED BY <3>1 DEF MF!RetainedAfter, MF!Reasons
  <2>4. MF!TypeOK'
    BY <1>6, <2>1, <2>2, <2>3 DEF MF!Transition, MF!TypeOK
  <2>5. MF!ReasonsHaveCause'
    BY <2>1 DEF MF!ReasonsHaveCause, MF!RetainedAfter, MF!LegalTransitions, MF!TypeOK
  <2>6. Retaining'
    <3>1. \A q \in Symbols \ {s} : row'[q] = row[q] /\ reasons'[q] = reasons[q] /\ adopted'[q] = adopted[q]
      BY <2>1 DEF MF!TypeOK
    <3>2. /\ row'[s] = t[2] /\ reasons'[s] = MF!RetainedAfter(s, t[1], t[2])
          /\ adopted[s] => adopted'[s]
          /\ t[2] = "manual_adopted_unmanaged" => adopted'[s]
      BY <2>1 DEF MF!TypeOK
    <3>3. t[1] = "manual_adopted_unmanaged" => adopted'[s]
      BY <2>1, <3>2 DEF Retaining
    <3>4. t[2] = "open" => "OPEN_POSITION" \in reasons'[s]
      BY <3>2 DEF MF!RetainedAfter
    <3>5. t[2] = "reconciling" => t[1] # "reconciling"
      BY DEF MF!LegalTransitions
    <3>6. t[2] = "reconciling" => "PENDING_RECONCILE" \in reasons'[s]
      BY <3>2, <3>5 DEF MF!RetainedAfter
    <3>7. t[2] = "closing" => t[1] = "open" \/ t[1] = "manual_adopted_unmanaged"
      BY DEF MF!LegalTransitions
    <3>8. t[1] = "open" => "OPEN_POSITION" \in reasons'[s]
      BY <1>6, <2>1, <3>2 DEF MF!RetainedAfter, MF!Transition, Retaining
    <3>9. UNCHANGED boot
      BY <1>6 DEF MF!Transition
    <3> QED BY <3>1, <3>2, <3>3, <3>4, <3>6, <3>7, <3>8, <3>9 DEF Retaining
  <2> QED BY <1>6, <2>4, <2>5, <2>6 DEF MF!Transition, MF!MembershipMatches, MF!KeepsHeld
<1>7. ASSUME NEW s \in Symbols, NEW l \in BOOLEAN, NEW n \in BOOLEAN, MF!Closes(s, l, n)
      PROVE  UniverseInv' /\ MF!KeepsHeld
  <2>1. MF!TypeOK'
    BY <1>7 DEF MF!Closes, MF!TypeOK, MF!Rows, MF!Reasons
  <2>2. MF!ReasonsHaveCause'
    BY <1>7 DEF MF!Closes, MF!ReasonsHaveCause, MF!TypeOK
  <2>3. Retaining'
    BY <1>7 DEF MF!Closes, Retaining, MF!TypeOK
  <2> QED BY <1>7, <2>1, <2>2, <2>3 DEF MF!Closes, MF!MembershipMatches, MF!KeepsHeld
<1>8. ASSUME NEW s \in Symbols, MF!CooldownElapses(s) PROVE UniverseInv' /\ MF!KeepsHeld
  BY <1>8 DEF MF!CooldownElapses, MF!TypeOK, MF!ReasonsHaveCause, MF!MembershipMatches, Retaining, MF!KeepsHeld
<1>9. ASSUME NEW s \in Symbols, MF!IsCooldownStillActive(s) PROVE UniverseInv' /\ MF!KeepsHeld
  BY <1>9 DEF MF!IsCooldownStillActive, MF!TypeOK, MF!ReasonsHaveCause, MF!MembershipMatches, Retaining, MF!KeepsHeld
<1>10. CASE MF!ReleaseExpiredCooldown
  <2>1. MF!TypeOK'
    BY <1>10 DEF MF!ReleaseExpiredCooldown, MF!TypeOK
  <2>2. MF!ReasonsHaveCause' /\ Retaining'
    BY <1>10 DEF MF!ReleaseExpiredCooldown, MF!ReasonsHaveCause, Retaining, MF!TypeOK
  <2> QED BY <1>10, <2>1, <2>2 DEF MF!ReleaseExpiredCooldown, MF!MembershipMatches, MF!KeepsHeld
<1> QED
  BY <1>1, <1>2, <1>3, <1>4, <1>5, <1>6, <1>7, <1>8, <1>9, <1>10 DEF MF!Next

LEMMA UniverseQuiet ==
    ASSUME UniverseInv, UNCHANGED MF!vars
    PROVE  UniverseInv'
BY DEF UniverseInv, MF!vars, MF!TypeOK, MF!ReasonsHaveCause, MF!MembershipMatches, Retaining

UniversePart == part = "universe" => UniverseInv

LEMMA UniverseInitial == Init => UniversePart
BY UniverseInit DEF Init, UniversePart

LEMMA UniverseStays == UniversePart /\ [Next]_vars => UniversePart'
<1> SUFFICES ASSUME UniversePart, [Next]_vars, part' = "universe" PROVE UniverseInv'
  BY DEF UniversePart
<1>1. CASE Next
  BY <1>1, UniverseStep DEF Next, UniversePart
<1>2. CASE UNCHANGED vars
  BY <1>2, UniverseQuiet DEF vars, UniversePart
<1> QED BY <1>1, <1>2

\* However refreshes, restarts, position rows and the cooldown sweep interleave, a
\* reason in the retainer does not outlive its cause, and the membership timeline
\* names the members until a restart or a swallowed write.
THEOREM UniverseIsSound == Spec => []UniverseSound
<1>1. UniversePart => UniverseSound
  BY DEF UniversePart, UniverseInv, UniverseSound
<1> QED BY <1>1, UniverseInitial, UniverseStays, PTL DEF Spec

-----------------------------------------------------------------------------
(* The ledger.                                                             *)

\* A non-empty set of numbers has a least one, a bounded one a greatest one.
LEMMA LeastAndGreatest ==
    ASSUME NEW T \in SUBSET Nat, T # {}
    PROVE  /\ LG!Min(T) \in T /\ \A y \in T : LG!Min(T) <= y
           /\ \A b \in Nat : (\A y \in T : y <= b) => LG!Max(T) \in T /\ \A y \in T : y <= LG!Max(T)
<1>0. ASSUME NEW U \in SUBSET Nat, U # {} PROVE \E x \in U : \A y \in U : x <= y
  <2>1. PICK x \in U : \A y \in U : ~ (<<y, x>> \in OpToRel(<, Nat))
    <3> HIDE DEF OpToRel
    <3> QED BY <1>0, NatLessThanWellFounded, WFMin, Zenon
  <2>2. \A y \in U : ~ (y < x)
    BY <2>1 DEF OpToRel
  <2> QED BY <2>2
<1>1. LG!Min(T) \in T /\ \A y \in T : LG!Min(T) <= y
  BY <1>0 DEF LG!Min
<1>2. ASSUME NEW b \in Nat, \A y \in T : y <= b PROVE LG!Max(T) \in T /\ \A y \in T : y <= LG!Max(T)
  <2> DEFINE U == {b - y : y \in T}
  <2>1. U \in SUBSET Nat /\ U # {}
    <3>1. \A y \in T : b - y \in Nat
      BY <1>2
    <3>2. \E y \in T : b - y \in U
      OBVIOUS
    <3> QED BY <3>1, <3>2
  <2>2. PICK u \in U : \A v \in U : u <= v
    <3> HIDE DEF U
    <3> QED BY <2>1, <1>0
  <2>3. PICK x \in T : u = b - x
    OBVIOUS
  <2>4. \A y \in T : x >= y
    <3> SUFFICES ASSUME NEW y \in T PROVE x >= y
      OBVIOUS
    <3>1. b - x <= b - y
      BY <2>2, <2>3
    <3> QED BY <3>1
  <2>5. LG!Max(T) \in T /\ \A y \in T : LG!Max(T) >= y
    BY <2>4 DEF LG!Max
  <2> QED BY <2>5
<1> QED BY <1>1, <1>2

\* What the ledger's variables range over; realized has its own conjunct below.
LedgerTyped ==
    /\ trades \in [ClosingOrders -> 0..Partials] /\ booked \in [ClosingOrders -> {0, Partials}]
    /\ got \in [ClosingOrders -> 0..Partials]
    /\ published \in 0..MaxFunding /\ funding \subseteq 1..MaxFunding
    /\ exec \in ClosingOrders \cup {None}
    /\ now \in Nat /\ snapshots \in [0..MaxMinutes -> Nat] /\ now <= MaxMinutes
    /\ writing \in [kind : {"no", "scheduled", "forced"}, at : 0..MaxMinutes]

\* The reconciler fetched whole fills, and what is no longer on its list is booked.
Backfilling ==
    /\ recon \in {"backfill", "insert"} =>
         /\ state = "closing" /\ todo \subseteq ClosingOrders
         /\ \A o \in ClosingOrders : got[o] = Partials /\ (o \in todo \/ booked[o] = Partials)
    /\ recon = "insert" => pick \in todo
    /\ recon = "finalize" =>
         state = "closing" /\ (missed \/ \A o \in ClosingOrders : booked[o] = Partials)

\* Below a settlement still to be written there is only written ones and ones to be written.
Polling ==
    recon = "funding" =>
        /\ todo # {} /\ todo \subseteq 1..MaxFunding
        /\ \A t \in todo : \A s \in 1..t : s \in funding \/ s \in todo

\* A minute with a scheduled snapshot is past, or marked; a scheduled write under way is for one without.
Snapping ==
    /\ \A t \in 0..MaxMinutes : snapshots[t] # 0 => t <= now
    /\ snapshots[now] # 0 => lastMinute = now /\ (writing.kind # "no" => writing.at = now)
    /\ writing.kind = "scheduled" => snapshots[writing.at] = 0
    /\ writing.kind # "no" => writing.at <= now
    /\ writing.kind = "no" => writing = LG!NoWrite

LedgerInv ==
    /\ LedgerTyped /\ Backfilling /\ Polling /\ Snapping
    /\ LG!FundingHasNoHoles /\ LG!RealizedComplete /\ LG!OneScheduledPerMinute

LEMMA LedgerConstants ==
    /\ Partials \in Nat /\ Partials > 0 /\ MaxFunding \in Nat /\ MaxMinutes \in Nat
    /\ IsFiniteSet(ClosingOrders) /\ ClosingOrders # {} /\ Cardinality(ClosingOrders) \in Nat
<1>1. IsFiniteSet(ClosingOrders)
  BY LedgerAssumption DEF LG!ConstantsOK, LG!IsFiniteSet, IsFiniteSet
<1> QED BY <1>1, LedgerAssumption, FS_CardinalityType DEF LG!ConstantsOK

LEMMA LedgerInit ==
    ASSUME LG!Init
    PROVE  LedgerInv
<1>1. LedgerTyped
  BY LedgerConstants DEF LG!Init, LedgerTyped, LG!NoWrite
<1>2. Backfilling /\ Polling /\ LG!FundingHasNoHoles /\ LG!RealizedComplete
  BY DEF LG!Init, Backfilling, Polling, LG!FundingHasNoHoles, LG!RealizedComplete
<1>3. Snapping /\ LG!OneScheduledPerMinute
  BY LedgerConstants DEF LG!Init, Snapping, LG!OneScheduledPerMinute, LG!NoWrite
<1> QED BY <1>1, <1>2, <1>3 DEF LedgerInv

\* The snapshot writer leaves the ledger alone, and the ledger the snapshots.
LEMMA LedgerHalves ==
    ASSUME LedgerInv
    PROVE  /\ UNCHANGED LG!snapshotVars => Snapping' /\ LG!OneScheduledPerMinute'
           /\ UNCHANGED LG!others => Backfilling' /\ Polling' /\ LG!FundingHasNoHoles' /\ LG!RealizedComplete'
<1>1. UNCHANGED LG!snapshotVars => Snapping' /\ LG!OneScheduledPerMinute'
  BY DEF LedgerInv, LG!snapshotVars, Snapping, LG!OneScheduledPerMinute
<1>2. UNCHANGED LG!others => Backfilling' /\ Polling' /\ LG!FundingHasNoHoles' /\ LG!RealizedComplete'
  BY DEF LedgerInv, LG!others, Backfilling, Polling, LG!FundingHasNoHoles, LG!RealizedComplete
<1> QED BY <1>1, <1>2

\* The sum written at the close holds every closing fill.
LEMMA FinalSum ==
    ASSUME LedgerTyped, \A o \in ClosingOrders : booked[o] = Partials
    PROVE  LG!AggregatePnl \in Int /\ LG!AggregatePnl >= Partials * Cardinality(ClosingOrders)
<1>1. LG!MapThenSumSet(LAMBDA o : booked[o], ClosingOrders) = Weight(booked, ClosingOrders)
  BY DEF LG!MapThenSumSet, LG!MapThenFoldSet, Weight, IsSum, SumStep, AnyOf
<1>2. \A o \in ClosingOrders : booked[o] \in Int /\ booked[o] >= Partials
  BY LedgerConstants
<1>3. Weight(booked, ClosingOrders) >= Partials * Cardinality(ClosingOrders) /\ Weight(booked, ClosingOrders) \in Int
  BY <1>2, LedgerConstants, WeightBounds, WeightInt
<1>4. LG!Cardinality(funding) \in Nat
  <2>1. IsFiniteSet(1..MaxFunding)
    BY LedgerConstants, FS_Interval
  <2>2. Cardinality(funding) \in Nat
    BY <2>1, FS_Subset, FS_CardinalityType DEF LedgerTyped
  <2> QED BY <2>2 DEF LG!Cardinality, Cardinality
<1>5. Partials * Cardinality(ClosingOrders) \in Int
  BY LedgerConstants
<1> QED BY <1>1, <1>3, <1>4, <1>5 DEF LG!AggregatePnl

LEMMA LedgerStep ==
    ASSUME LedgerInv, LG!Next
    PROVE  LedgerInv'
<1> USE LedgerConstants DEF LedgerInv
<1>1. ASSUME NEW o \in ClosingOrders, LG!VenueFills(o) PROVE LedgerInv'
  <2>1. LedgerTyped'
    <3>1. trades[o] + 1 \in 0..Partials
      BY <1>1 DEF LG!VenueFills, LedgerTyped
    <3> QED BY <1>1, <3>1 DEF LG!VenueFills, LedgerTyped, LG!snapshotVars
  <2> QED
    BY <1>1, <2>1, LedgerHalves DEF LG!VenueFills, Backfilling, Polling, LG!FundingHasNoHoles, LG!RealizedComplete
<1>2. CASE LG!VenueFunding
  <2>1. LedgerTyped'
    <3>1. published + 1 \in 0..MaxFunding
      BY <1>2 DEF LG!VenueFunding, LedgerTyped
    <3> QED BY <1>2, <3>1 DEF LG!VenueFunding, LedgerTyped, LG!snapshotVars
  <2> QED
    BY <1>2, <2>1, LedgerHalves DEF LG!VenueFunding, Backfilling, Polling, LG!FundingHasNoHoles, LG!RealizedComplete
<1>3. ASSUME NEW o \in ClosingOrders, LG!ExecutorTold(o) PROVE LedgerInv'
  <2>1. LedgerTyped'
    BY <1>3 DEF LG!ExecutorTold, LedgerTyped, LG!snapshotVars
  <2> QED
    BY <1>3, <2>1, LedgerHalves DEF LG!ExecutorTold, Backfilling, Polling, LG!FundingHasNoHoles, LG!RealizedComplete
<1>4. CASE LG!ExecutorBooks
  <2>1. exec \in ClosingOrders
    BY <1>4 DEF LG!ExecutorBooks, LedgerTyped
  <2>2. booked' \in [ClosingOrders -> {0, Partials}] /\ \A o \in ClosingOrders : booked[o] = Partials => booked'[o] = Partials
    BY <1>4, <2>1 DEF LG!ExecutorBooks, LG!Insert, LedgerTyped
  <2>3. LedgerTyped'
    BY <1>4, <2>2 DEF LG!ExecutorBooks, LedgerTyped, LG!snapshotVars
  <2> QED
    BY <1>4, <2>2, <2>3, LedgerHalves DEF LG!ExecutorBooks, Backfilling, Polling, LG!FundingHasNoHoles, LG!RealizedComplete
<1>5. CASE LG!PollFunding
  <2>1. LedgerTyped'
    BY <1>5 DEF LG!PollFunding, LedgerTyped, LG!snapshotVars
  <2>2. Polling'
    <3> SUFFICES ASSUME recon' = "funding" PROVE Polling'
      BY DEF Polling
    <3>1. todo' # {} /\ todo' \subseteq 1..MaxFunding
      BY <1>5 DEF LG!PollFunding, LedgerTyped
    <3>2. ASSUME NEW t \in todo', NEW s \in 1..t, s \notin todo' PROVE s \in funding
      <4>1. t \in 1..published /\ s \in 1..published
        BY <1>5, <3>2 DEF LG!PollFunding, LedgerTyped
      <4>2. ~ (s > LG!Since) /\ t > LG!Since
        BY <1>5, <3>2, <4>1 DEF LG!PollFunding
      <4>3. funding # {}
        BY <4>1, <4>2 DEF LG!Since
      <4>4. LG!Since \in funding
        <5>1. funding \in SUBSET Nat /\ \A y \in funding : y <= MaxFunding
          BY DEF LedgerTyped
        <5> QED BY <4>3, <5>1, LeastAndGreatest DEF LG!Since
      <4>5. s \in 1..LG!Since
        BY <4>1, <4>2, <4>4 DEF LedgerTyped
      <4> QED BY <4>4, <4>5 DEF LG!FundingHasNoHoles
    <3>3. UNCHANGED funding
      BY <1>5 DEF LG!PollFunding
    <3> QED BY <3>1, <3>2, <3>3 DEF Polling
  <2> QED
    BY <1>5, <2>1, <2>2, LedgerHalves DEF LG!PollFunding, Backfilling, LG!FundingHasNoHoles, LG!RealizedComplete
<1>6. CASE LG!RecordFunding
  <2>1. LedgerTyped'
    <3>1. LG!FirstOf(todo) \in todo
      BY <1>6, LeastAndGreatest DEF LG!RecordFunding, LG!FirstOf, Polling
    <3> QED BY <1>6, <3>1 DEF LG!RecordFunding, LedgerTyped, LG!snapshotVars, Polling
  <2>2. LG!FundingHasNoHoles' /\ Polling'
    <3>1. CASE UNCHANGED funding /\ recon' = "idle"
      BY <3>1 DEF LG!FundingHasNoHoles, Polling
    <3>2. CASE /\ funding' = funding \cup {LG!FirstOf(todo)} /\ todo' = todo \ {LG!FirstOf(todo)}
               /\ recon' = IF todo' = {} THEN "idle" ELSE "funding"
      <4> DEFINE m == LG!FirstOf(todo)
      <4>0. todo # {} /\ todo \in SUBSET Nat /\ todo \subseteq 1..MaxFunding
            /\ \A t \in todo : \A s \in 1..t : s \in funding \/ s \in todo
        BY <1>6 DEF LG!RecordFunding, Polling
      <4>1. m \in todo /\ \A y \in todo : m <= y
        BY <4>0, LeastAndGreatest DEF LG!FirstOf
      <4> HIDE DEF m
      <4>2. funding' = funding \cup {m} /\ todo' = todo \ {m}
        BY <3>2 DEF m
      <4>3. \A s \in 1..m : s \in funding'
        <5> SUFFICES ASSUME NEW s \in 1..m, s \notin funding, s # m PROVE FALSE
          BY <4>2
        <5>1. s \in todo
          BY <4>0, <4>1
        <5> QED BY <4>0, <4>1, <5>1
      <4>4. LG!FundingHasNoHoles'
        BY <4>2, <4>3 DEF LG!FundingHasNoHoles
      <4>5. Polling'
        BY <3>2, <4>0, <4>2 DEF Polling
      <4> QED BY <4>4, <4>5
    <3> QED BY <1>6, <3>1, <3>2 DEF LG!RecordFunding
  <2> QED
    BY <1>6, <2>1, <2>2, LedgerHalves DEF LG!RecordFunding, Backfilling, LG!RealizedComplete
<1>7. CASE LG!Backfill
  <2>1. LedgerTyped'
    BY <1>7 DEF LG!Backfill, LG!AggregateFillsByOrder, LedgerTyped, LG!snapshotVars
  <2>2. Backfilling' /\ Polling'
    BY <1>7 DEF LG!Backfill, LG!AggregateFillsByOrder, LG!Flat, Backfilling, Polling, LedgerTyped
  <2> QED BY <1>7, <2>1, <2>2, LedgerHalves DEF LG!Backfill, LG!FundingHasNoHoles, LG!RealizedComplete
<1>8. CASE LG!FindOrder
  <2>1. LedgerTyped'
    BY <1>8 DEF LG!FindOrder, LedgerTyped, LG!snapshotVars
  <2>2. Backfilling' /\ Polling'
    BY <1>8 DEF LG!FindOrder, Backfilling, Polling, LedgerTyped
  <2> QED BY <1>8, <2>1, <2>2, LedgerHalves DEF LG!FindOrder, LG!FundingHasNoHoles, LG!RealizedComplete
<1>9. CASE LG!InsertOrderGroup
  <2>1. pick \in ClosingOrders /\ got[pick] = Partials /\ pick \in todo
    BY <1>9 DEF LG!InsertOrderGroup, Backfilling
  <2>2. booked' \in [ClosingOrders -> {0, Partials}] /\ booked'[pick] = Partials
        /\ \A o \in ClosingOrders : booked[o] = Partials => booked'[o] = Partials
    BY <1>9, <2>1 DEF LG!InsertOrderGroup, LG!Insert, LedgerTyped
  <2>3. LedgerTyped'
    BY <1>9, <2>2 DEF LG!InsertOrderGroup, LedgerTyped, LG!snapshotVars
  <2>4. Backfilling' /\ Polling'
    BY <1>9, <2>1, <2>2 DEF LG!InsertOrderGroup, Backfilling, Polling
  <2> QED BY <1>9, <2>3, <2>4, LedgerHalves DEF LG!InsertOrderGroup, LG!FundingHasNoHoles, LG!RealizedComplete
<1>10. CASE LG!FinalizeRealizedPnl
  <2>1. LedgerTyped'
    BY <1>10 DEF LG!FinalizeRealizedPnl, LedgerTyped, LG!snapshotVars
  <2>2. LG!RealizedComplete'
    <3> SUFFICES ASSUME ~missed' PROVE realized' # None /\ realized' >= Partials * LG!Cardinality(ClosingOrders)
      BY DEF LG!RealizedComplete
    <3>1. \A o \in ClosingOrders : booked[o] = Partials
      BY <1>10 DEF LG!FinalizeRealizedPnl, Backfilling
    <3>2. realized' = LG!AggregatePnl
      BY <1>10, <3>1 DEF LG!FinalizeRealizedPnl
    <3>3. LG!AggregatePnl \in Int /\ LG!AggregatePnl >= Partials * Cardinality(ClosingOrders)
      BY <3>1, FinalSum
    <3>4. LG!Cardinality(ClosingOrders) = Cardinality(ClosingOrders)
      BY DEF LG!Cardinality, Cardinality
    <3> QED BY <3>2, <3>3, <3>4, LedgerAssumption
  <2> QED
    BY <1>10, <2>1, <2>2, LedgerHalves DEF LG!FinalizeRealizedPnl, Backfilling, Polling, LG!FundingHasNoHoles
<1>11. ASSUME NEW kind \in {"scheduled", "forced"}, LG!Write(kind), UNCHANGED <<now, lastMinute, snapshots, LG!others>>,
              kind = "scheduled" => now # lastMinute
       PROVE  LedgerInv'
  <2>1. LedgerTyped'
    BY <1>11 DEF LG!Write, LedgerTyped, LG!others
  <2>2. snapshots[now] # 0 => lastMinute = now
    BY DEF Snapping
  <2>3. Snapping' /\ LG!OneScheduledPerMinute'
    BY <1>11, <2>2 DEF LG!Write, Snapping, LG!OneScheduledPerMinute, LedgerTyped
  <2> QED BY <1>11, <2>1, <2>3, LedgerHalves
<1>12. CASE LG!BuildAndPersist
  <2> DEFINE t == writing.at
  <2>0. /\ writing.kind # "no" => t <= now
        /\ t \in 0..MaxMinutes /\ writing.kind \in {"no", "scheduled", "forced"}
    BY DEF Snapping, LedgerTyped
  <2>1. writing' = LG!NoWrite /\ lastMinute' = t /\ UNCHANGED <<now, LG!others>>
        /\ snapshots' = [snapshots EXCEPT ![t] = IF writing.kind = "scheduled" THEN @ + 1 ELSE @]
    BY <1>12 DEF LG!BuildAndPersist
  <2>2. LedgerTyped'
    <3>1. snapshots[t] \in Nat /\ snapshots[t] + 1 \in Nat
      BY <2>0 DEF LedgerTyped
    <3>2. snapshots' \in [0..MaxMinutes -> Nat]
      BY <2>1, <3>1 DEF LedgerTyped
    <3>3. writing' \in [kind : {"no", "scheduled", "forced"}, at : 0..MaxMinutes]
      BY <2>1, LedgerAssumption DEF LG!NoWrite, LG!ConstantsOK
    <3> HIDE DEF t
    <3> QED BY <2>1, <3>2, <3>3 DEF LedgerTyped, LG!others
  <2>a. \A s \in 0..MaxMinutes : s # t => snapshots'[s] = snapshots[s]
    BY <2>1 DEF LedgerTyped
  <2>b. snapshots'[t] = IF writing.kind = "scheduled" THEN 1 ELSE snapshots[t]
    BY <2>0, <2>1 DEF LedgerTyped, Snapping
  <2>c. writing.kind = "no" => snapshots' = snapshots
    BY <2>1 DEF LedgerTyped
  <2>3. LG!OneScheduledPerMinute'
    BY <2>a, <2>b DEF LG!OneScheduledPerMinute
  <2>4. writing.kind # "no"
    BY <1>12 DEF LG!BuildAndPersist, Snapping
  <2>5. Snapping'
    <3> HIDE DEF t
    <3>1. writing'.kind = "no"
      BY <2>1 DEF LG!NoWrite
    <3>2. now \in 0..MaxMinutes
      BY DEF LedgerTyped
    <3>3. snapshots'[now] # 0 => t = now
      <4>1. CASE t = now
        BY <4>1
      <4>2. CASE t # now
        BY <4>2, <3>2, <2>a, <2>4 DEF Snapping, t
      <4> QED BY <4>1, <4>2
    <3> QED BY <3>1, <3>3, <2>0, <2>1, <2>4, <2>a, <2>b DEF Snapping
  <2> QED BY <2>1, <2>2, <2>3, <2>5, LedgerHalves
<1>13. CASE LG!SnapshotFails
  <2>1. LedgerTyped'
    BY <1>13 DEF LG!SnapshotFails, LedgerTyped, LG!others, LG!NoWrite
  <2>2. Snapping' /\ LG!OneScheduledPerMinute'
    BY <1>13 DEF LG!SnapshotFails, LG!NoWrite, Snapping, LG!OneScheduledPerMinute
  <2> QED BY <1>13, <2>1, <2>2, LedgerHalves DEF LG!SnapshotFails
<1>14. CASE LG!Minute
  <2>1. LedgerTyped'
    BY <1>14 DEF LG!Minute, LedgerTyped, LG!others
  <2>2. Snapping' /\ LG!OneScheduledPerMinute'
    <3>1. now' = now + 1 /\ now \in Nat /\ now' \in 0..MaxMinutes /\ UNCHANGED <<lastMinute, writing, snapshots>>
      BY <1>14 DEF LG!Minute, LedgerTyped
    <3>2. snapshots[now'] = 0
      BY <3>1 DEF Snapping
    <3>3. \A t \in 0..MaxMinutes : t <= now => t <= now'
      BY <3>1
    <3>4. writing.kind # "no" => writing.at <= now'
      BY <3>1 DEF Snapping, LedgerTyped
    <3> QED BY <3>1, <3>2, <3>3, <3>4 DEF Snapping, LG!OneScheduledPerMinute
  <2> QED BY <1>14, <2>1, <2>2, LedgerHalves DEF LG!Minute
<1>15. LG!ScheduledTick => LedgerInv'
  BY <1>11 DEF LG!ScheduledTick
<1>16. LG!WriteNow => LedgerInv'
  BY <1>11 DEF LG!WriteNow
<1> QED
  BY <1>1, <1>2, <1>3, <1>4, <1>5, <1>6, <1>7, <1>8, <1>9, <1>10, <1>12, <1>13, <1>14, <1>15, <1>16 DEF LG!Next

LEMMA LedgerQuiet ==
    ASSUME LedgerInv, UNCHANGED LG!vars
    PROVE  LedgerInv'
<1>1. UNCHANGED LG!snapshotVars /\ UNCHANGED LG!others
  BY DEF LG!vars, LG!snapshotVars, LG!others
<1>2. LedgerTyped'
  BY DEF LedgerInv, LG!vars, LedgerTyped
<1> QED BY <1>1, <1>2, LedgerHalves DEF LedgerInv

-----------------------------------------------------------------------------
(* The excursion records.                                                  *)

\* Excursion a says at least b, a null saying nothing.
AtLeast(a, b) == b = None \/ (a # None /\ a >= b)

Mfe(o) == obj[o].mfe

\* DayHandlers hold objects that exist, a close handler only runs for a closed row,
\* nothing is tracked before phase 4d or before the row.
Handling ==
    /\ tracked # None => obj[tracked].made
    /\ flush.at # "idle" => flush.o \in XI!Objects
    /\ close.at # "idle" => close.o \in XI!Objects /\ obj[close.o].made /\ row = "closed"
    /\ ~ready => tracked = None /\ ~seeding /\ crashes # 0
    /\ row = "none" => column = None /\ tracked = None /\ ~seeding /\ flush.at = "idle"
    /\ row # "none" => best # None

\* Where nothing was forgotten, what the next writer will write says the best tick.
Remembered ==
    gaps = {} /\ row # "none" =>
        /\ tracked # None => AtLeast(Mfe(tracked), best)
        /\ tracked = None => AtLeast(column, best)
        /\ close.at # "idle" => AtLeast(Mfe(close.o), best)
        /\ close.at = "saving" => AtLeast(column, best)

\* The accumulator is ahead of the row.
Ahead == gaps \subseteq {"crashed"} /\ row # "closed" /\ tracked # None => AtLeast(Mfe(tracked), column)

ExcursionInv == XI!TypeOK /\ Handling /\ Remembered /\ Ahead

LEMMA ExcursionConstants == Peak \in Nat /\ MaxObjects \in Nat /\ MaxCrashes \in Nat /\ None \notin Int
BY ExcursionAssumption, LedgerAssumption DEF XI!ConstantsOK

\* updateMfePct is a running maximum.
LEMMA RunningMax ==
    ASSUME NEW a \in XI!Columns, NEW x \in XI!Excursions
    PROVE  /\ XI!UpdateMfePct(a, x) \in XI!Excursions /\ XI!UpdateMfePct(a, x) # None
           /\ AtLeast(XI!UpdateMfePct(a, x), a)
           /\ \A b \in XI!Columns : AtLeast(a, b) => AtLeast(XI!UpdateMfePct(a, x), XI!UpdateMfePct(b, x))
<1>1. 0 \in 0..Peak
  BY ExcursionConstants
<1> QED BY <1>1, ExcursionConstants DEF XI!UpdateMfePct, XI!Columns, XI!Excursions, AtLeast

LEMMA ExcursionInit ==
    ASSUME XI!Init
    PROVE  ExcursionInv
<1>1. XI!TypeOK
  <2>1. obj \in [1..MaxObjects -> [mfe : XI!Columns, dirty : BOOLEAN, made : BOOLEAN]]
    BY DEF XI!Init, XI!Columns, XI!Objects
  <2>2. crashes \in 0..MaxCrashes
    BY ExcursionConstants DEF XI!Init
  <2> QED BY <2>1, <2>2 DEF XI!Init, XI!TypeOK, XI!NoHandler, XI!Handlers, XI!Columns
<1>2. Handling /\ Remembered /\ Ahead
  BY DEF XI!Init, XI!NoHandler, Handling, Remembered, Ahead
<1> QED BY <1>1, <1>2 DEF ExcursionInv

\* A fresh object with the column's value replaces what is tracked, and nothing was lost by it.
LEMMA SeedStep ==
    ASSUME ExcursionInv, NEW o \in XI!Unused, obj' = XI!Seeded(o), tracked' = o,
           UNCHANGED <<row, column, flush, close, best>>, row # "none", ready', seeding' = FALSE,
           gaps' = gaps \cup (IF XI!Forgets THEN {"reseeded"} ELSE {}), UNCHANGED crashes
    PROVE  ExcursionInv'
<1> USE DEF ExcursionInv
<1>1. o \in XI!Objects /\ ~obj[o].made
  BY DEF XI!Unused
<1>2. XI!TypeOK'
  <2>1. obj' \in [1..MaxObjects -> [mfe : XI!Columns, dirty : BOOLEAN, made : BOOLEAN]]
    BY <1>1 DEF XI!Seeded, XI!TypeOK, XI!Objects
  <2>2. gaps' \subseteq XI!GapKinds
    BY DEF XI!TypeOK, XI!GapKinds
  <2> QED BY <1>1, <2>1, <2>2 DEF XI!TypeOK
<1>3. /\ obj'[o].mfe = column /\ obj'[o].made
      /\ \A p \in XI!Objects : p # o => obj'[p] = obj[p]
  BY <1>1 DEF XI!Seeded, XI!TypeOK, XI!Objects
<1>4. o # None
  BY <1>1, ExcursionConstants DEF XI!Objects
<1>5. Handling'
  BY <1>1, <1>3 DEF Handling, XI!TypeOK
<1>6. Remembered'
  <2> SUFFICES ASSUME gaps' = {} PROVE Remembered'
    BY DEF Remembered
  <2>1. gaps = {} /\ ~XI!Forgets
    OBVIOUS
  <2>2. AtLeast(column, best)
    <3>1. CASE tracked = None
      BY <3>1, <2>1 DEF Remembered
    <3>2. CASE tracked # None
      BY <3>2, <2>1 DEF Remembered, XI!Forgets, Mfe
    <3> QED BY <3>1, <3>2
  <2>3. close.at # "idle" => close.o # o /\ close.o \in XI!Objects
    BY <1>1 DEF Handling
  <2> QED BY <2>1, <2>2, <2>3, <1>3, <1>4 DEF Remembered, Mfe, AtLeast
<1>7. Ahead'
  BY <1>3, ExcursionConstants DEF Ahead, Mfe, AtLeast, XI!TypeOK, XI!Columns, XI!Excursions
<1> QED BY <1>2, <1>5, <1>6, <1>7

LEMMA ExcursionStep ==
    ASSUME ExcursionInv, XI!Next
    PROVE  ExcursionInv'
<1> USE DEF ExcursionInv
<1>a. None \notin XI!Objects
  BY ExcursionConstants DEF XI!Objects
<1>b. \A o \in XI!Objects : Mfe(o) \in XI!Columns
  BY DEF Mfe, XI!TypeOK, XI!Objects
<1>1. CASE XI!OpenPosition
  <2>1. PICK o \in XI!Unused :
          /\ obj' = [obj EXCEPT ![o] = [mfe |-> XI!UpdateMfePct(None, 0), dirty |-> TRUE, made |-> TRUE]]
          /\ tracked' = o
    BY <1>1 DEF XI!OpenPosition
  <2>2. o \in XI!Objects
    BY DEF XI!Unused
  <2>3. XI!UpdateMfePct(None, 0) = 0 /\ 0 \in XI!Excursions
    BY ExcursionConstants DEF XI!UpdateMfePct, XI!Excursions
  <2>4. obj' \in [1..MaxObjects -> [mfe : XI!Columns, dirty : BOOLEAN, made : BOOLEAN]]
        /\ obj'[o].mfe = 0 /\ obj'[o].made
    BY <2>1, <2>2, <2>3 DEF XI!TypeOK, XI!Columns, XI!Objects
  <2>5. XI!TypeOK'
    BY <1>1, <2>1, <2>2, <2>3, <2>4 DEF XI!OpenPosition, XI!TypeOK, XI!Columns
  <2>6. row = "none" /\ row' = "pending_open" /\ best' = 0 /\ ready /\ UNCHANGED <<column, seeding, flush, close, ready>>
    BY <1>1 DEF XI!OpenPosition
  <2>7. column = None /\ close.at = "idle" /\ flush.at = "idle" /\ best' # None
    BY <2>6, ExcursionConstants DEF Handling
  <2>8. Handling'
    BY <2>1, <2>4, <2>6, <2>7 DEF Handling
  <2>9. Remembered' /\ Ahead'
    BY <2>1, <2>2, <2>4, <2>6, <2>7, <1>a, ExcursionConstants DEF Remembered, Ahead, Mfe, AtLeast
  <2> QED BY <2>5, <2>8, <2>9
<1>2. CASE XI!PositionOpened
  <2>1. XI!TypeOK'
    BY <1>2 DEF XI!PositionOpened, XI!TypeOK
  <2>2. ready
    BY <1>2 DEF XI!PositionOpened, Handling
  <2> QED BY <1>2, <2>1, <2>2 DEF XI!PositionOpened, Handling, Remembered, Ahead, Mfe
<1>3. CASE XI!SeedFromRow
  <2>1. row # "none" /\ ready
    BY <1>3 DEF XI!SeedFromRow, Handling, XI!TypeOK
  <2> QED BY <1>3, <2>1, SeedStep DEF XI!SeedFromRow
<1>4. ASSUME NEW x \in XI!Excursions, XI!OnPriceUpdate(x) PROVE ExcursionInv'
  <2> DEFINE next == XI!UpdateMfePct(Mfe(tracked), x)
  <2>1. tracked \in XI!Objects /\ obj[tracked].made /\ row # "none"
    BY <1>4 DEF XI!OnPriceUpdate, XI!TypeOK, Handling
  <2>2. Mfe(tracked) \in XI!Columns
    BY <2>1, <1>b
  <2>3. /\ next \in XI!Excursions /\ next # None /\ AtLeast(next, Mfe(tracked))
        /\ \A b \in XI!Columns : AtLeast(Mfe(tracked), b) => AtLeast(next, XI!UpdateMfePct(b, x))
    BY <2>2, RunningMax
  <2>4. /\ obj' \in [1..MaxObjects -> [mfe : XI!Columns, dirty : BOOLEAN, made : BOOLEAN]]
        /\ obj'[tracked].mfe = next /\ obj'[tracked].made = obj[tracked].made
        /\ \A p \in XI!Objects : p # tracked => obj'[p] = obj[p]
    <3>1. obj' = [obj EXCEPT ![tracked].mfe = next, ![tracked].dirty = @ \/ next # obj[tracked].mfe]
      BY <1>4 DEF XI!OnPriceUpdate, Mfe
    <3> HIDE DEF next
    <3>2. obj[tracked] \in [mfe : XI!Columns, dirty : BOOLEAN, made : BOOLEAN] /\ next \in XI!Columns
      BY <2>1, <2>3 DEF XI!TypeOK, XI!Objects, XI!Columns
    <3> DEFINE d == obj[tracked].dirty \/ next # obj[tracked].mfe
    <3>3. obj'[tracked] = [mfe |-> next, dirty |-> d, made |-> obj[tracked].made]
          /\ \A p \in XI!Objects : p # tracked => obj'[p] = obj[p]
      BY <2>1, <3>1, <3>2 DEF XI!TypeOK, XI!Objects
    <3>4. obj'[tracked] \in [mfe : XI!Columns, dirty : BOOLEAN, made : BOOLEAN]
      BY <3>2, <3>3
    <3>5. obj' = [o \in 1..MaxObjects |-> obj'[o]]
      BY <3>1 DEF XI!TypeOK
    <3>6. \A p \in 1..MaxObjects : obj'[p] \in [mfe : XI!Columns, dirty : BOOLEAN, made : BOOLEAN]
      BY <3>3, <3>4 DEF XI!TypeOK, XI!Objects
    <3>7. obj' \in [1..MaxObjects -> [mfe : XI!Columns, dirty : BOOLEAN, made : BOOLEAN]]
      BY <3>5, <3>6
    <3> QED BY <3>3, <3>7
  <2>5. best' \in XI!Columns /\ best' # None
        /\ (row # "closed" => best' = XI!UpdateMfePct(best, x)) /\ (row = "closed" => best' = best)
    <3>1. best \in XI!Columns /\ best # None
      BY <2>1 DEF XI!TypeOK, Handling
    <3> QED BY <1>4, <3>1, RunningMax DEF XI!OnPriceUpdate, XI!Columns
  <2> HIDE DEF next
  <2>6. XI!TypeOK'
    BY <1>4, <2>4, <2>5 DEF XI!OnPriceUpdate, XI!TypeOK
  <2>7. \A p \in XI!Objects : obj'[p].made = obj[p].made /\ AtLeast(obj'[p].mfe, obj[p].mfe)
    <3>1. \A p \in XI!Objects : AtLeast(obj[p].mfe, obj[p].mfe)
      BY ExcursionConstants DEF AtLeast, XI!TypeOK, XI!Columns, XI!Excursions, XI!Objects
    <3> QED BY <2>1, <2>3, <2>4, <3>1 DEF Mfe
  <2>8. Handling'
    BY <1>4, <2>1, <2>5, <2>7 DEF XI!OnPriceUpdate, Handling
  <2>t. \A a, b, c \in XI!Columns : AtLeast(a, b) /\ AtLeast(b, c) => AtLeast(a, c)
    BY ExcursionConstants DEF AtLeast, XI!Columns, XI!Excursions
  <2>9. Remembered'
    <3> SUFFICES ASSUME gaps' = {} PROVE Remembered'
      BY DEF Remembered
    <3>1. gaps = {} /\ UNCHANGED <<row, column, tracked, close>>
      BY <1>4 DEF XI!OnPriceUpdate
    <3>2. best \in XI!Columns /\ \A p \in XI!Objects : obj[p].mfe \in XI!Columns /\ obj'[p].mfe \in XI!Columns
      BY <2>6 DEF XI!TypeOK, XI!Objects
    <3>3. AtLeast(Mfe(tracked), best)
      BY <2>1, <3>1, <1>a DEF Remembered
    <3>4. AtLeast(obj'[tracked].mfe, best')
      <4>1. CASE row # "closed"
        BY <4>1, <2>3, <2>4, <2>5, <3>2, <3>3
      <4>2. CASE row = "closed"
        BY <4>2, <2>1, <2>5, <2>7, <3>2, <3>3, <2>t DEF Mfe
      <4> QED BY <4>1, <4>2
    <3>5. close.at # "idle" => AtLeast(obj'[close.o].mfe, best') /\ row = "closed" /\ best' = best
      BY <2>1, <2>5, <2>7, <3>1, <3>2, <2>t DEF Handling, Remembered, Mfe
    <3> QED BY <2>1, <3>1, <3>4, <3>5, <1>a DEF Remembered, Mfe
  <2>10. Ahead'
    <3> SUFFICES ASSUME gaps \subseteq {"crashed"}, row # "closed", UNCHANGED <<gaps, row, tracked, column>>
                 PROVE  Ahead'
      BY <1>4 DEF XI!OnPriceUpdate, Ahead
    <3>1. AtLeast(Mfe(tracked), column)
      BY <2>1, <1>a DEF Ahead
    <3>2. column \in XI!Columns /\ obj[tracked].mfe \in XI!Columns /\ obj'[tracked].mfe \in XI!Columns
      BY <2>1, <2>6 DEF XI!TypeOK, XI!Objects
    <3> QED BY <2>1, <2>7, <3>1, <3>2, <2>t DEF Ahead, Mfe
  <2> QED BY <2>6, <2>8, <2>9, <2>10
<1>5. CASE XI!FlushStarts
  <2>1. XI!TypeOK'
    BY <1>5 DEF XI!FlushStarts, XI!TypeOK, XI!Handlers
  <2>2. Handling'
    BY <1>5 DEF XI!FlushStarts, XI!TypeOK, Handling
  <2> QED BY <1>5, <2>1, <2>2 DEF XI!FlushStarts, Remembered, Ahead, Mfe
<1>6. CASE XI!FlushSaves
  <2>1. flush.o \in XI!Objects /\ column' = Mfe(flush.o) /\ column' \in XI!Columns /\ row # "none"
    BY <1>6, <1>b DEF XI!FlushSaves, Handling, Mfe
  <2>2. flush' \in XI!Handlers /\ flush'.o = flush.o /\ flush'.at = "saving"
    BY <1>6 DEF XI!FlushSaves, XI!TypeOK, XI!Handlers
  <2>3. gaps' \subseteq XI!GapKinds /\ (gaps' \subseteq {"crashed"} => gaps \subseteq {"crashed"} /\ flush.o = tracked)
        /\ (gaps' = {} => gaps = {} /\ flush.o = tracked)
    BY <1>6 DEF XI!FlushSaves, XI!TypeOK, XI!GapKinds
  <2>4. UNCHANGED <<row, obj, tracked, seeding, close, ready, best, crashes>>
    BY <1>6 DEF XI!FlushSaves
  <2>5. XI!TypeOK'
    BY <2>1, <2>2, <2>3, <2>4 DEF XI!TypeOK
  <2>6. Handling'
    BY <2>1, <2>2, <2>4 DEF Handling
  <2>7. Remembered'
    BY <2>1, <2>3, <2>4, <1>a DEF Remembered, Mfe
  <2>8. Ahead'
    BY <2>1, <2>3, <2>4, ExcursionConstants DEF Ahead, Mfe, AtLeast, XI!Columns, XI!Excursions
  <2> QED BY <2>5, <2>6, <2>7, <2>8
<1>7. CASE XI!FlushEnds
  <2>1. flush.o \in XI!Objects
    BY <1>7 DEF XI!FlushEnds, Handling
  <2>2. /\ obj' \in [1..MaxObjects -> [mfe : XI!Columns, dirty : BOOLEAN, made : BOOLEAN]]
        /\ \A p \in XI!Objects : obj'[p].mfe = obj[p].mfe /\ obj'[p].made = obj[p].made
    <3>1. obj[flush.o] \in [mfe : XI!Columns, dirty : BOOLEAN, made : BOOLEAN]
      BY <2>1 DEF XI!TypeOK, XI!Objects
    <3>2. obj' = [obj EXCEPT ![flush.o] = [@ EXCEPT !.dirty = FALSE]]
      BY <1>7 DEF XI!FlushEnds
    <3> QED BY <2>1, <3>1, <3>2 DEF XI!TypeOK, XI!Objects
  <2>3. UNCHANGED <<row, column, tracked, seeding, close, ready, best, gaps, crashes>> /\ flush' = XI!NoHandler
    BY <1>7 DEF XI!FlushEnds
  <2>4. XI!TypeOK' /\ tracked \in XI!Objects \cup {None}
    BY <2>2, <2>3 DEF XI!TypeOK, XI!NoHandler, XI!Handlers
  <2>5. Handling'
    BY <2>2, <2>3, <2>4 DEF Handling, XI!NoHandler
  <2>6. Remembered' /\ Ahead'
    BY <2>2, <2>3, <2>4 DEF Handling, Remembered, Ahead, Mfe
  <2> QED BY <2>4, <2>5, <2>6
<1>8. CASE XI!FlushFails
  <2>1. XI!TypeOK'
    BY <1>8 DEF XI!FlushFails, XI!TypeOK, XI!NoHandler, XI!Handlers
  <2> QED BY <1>8, <2>1 DEF XI!FlushFails, XI!NoHandler, Handling, Remembered, Ahead, Mfe
<1>9. CASE XI!EnterReconciling
  <2>1. XI!TypeOK'
    BY <1>9 DEF XI!EnterReconciling, XI!TypeOK, XI!GapKinds
  <2>2. Handling' /\ Ahead'
    BY <1>9 DEF XI!EnterReconciling, Handling, Ahead
  <2>3. Remembered'
    BY <1>9 DEF XI!EnterReconciling, XI!Forgets, Handling, Remembered, Mfe
  <2> QED BY <2>1, <2>2, <2>3
<1>10. CASE XI!ReconcileRecovers
  <2>1. XI!TypeOK'
    BY <1>10 DEF XI!ReconcileRecovers, XI!TypeOK
  <2> QED BY <1>10, <2>1 DEF XI!ReconcileRecovers, Handling, Remembered, Ahead, Mfe
<1>11. CASE XI!Closes
  <2>1. XI!TypeOK'
    BY <1>11 DEF XI!Closes, XI!TypeOK, XI!NoHandler, XI!Handlers
  <2>2. close.at = "idle"
    BY <1>11 DEF XI!Closes, Handling
  <2>3. Handling' /\ Ahead'
    BY <1>11, <2>2 DEF XI!Closes, XI!NoHandler, Handling, Ahead, XI!TypeOK
  <2>4. Remembered'
    BY <1>11, <2>2 DEF XI!Closes, XI!NoHandler, Remembered, Mfe
  <2> QED BY <2>1, <2>3, <2>4
<1>12. CASE XI!CloseSaves
  <2>1. close.o \in XI!Objects /\ row = "closed" /\ column' = Mfe(close.o) /\ column' \in XI!Columns
    BY <1>12, <1>b DEF XI!CloseSaves, Handling, Mfe
  <2>2. close' \in XI!Handlers /\ close'.o = close.o /\ close'.at = "saving" /\ close.at = "reading"
    BY <1>12 DEF XI!CloseSaves, XI!TypeOK, XI!Handlers
  <2>3. UNCHANGED <<row, obj, tracked, seeding, flush, ready, best, gaps, crashes>>
    BY <1>12 DEF XI!CloseSaves
  <2>4. XI!TypeOK'
    BY <2>1, <2>2, <2>3 DEF XI!TypeOK
  <2>5. Handling' /\ Ahead'
    BY <2>1, <2>2, <2>3 DEF Handling, Ahead
  <2>6. Remembered'
    BY <2>1, <2>2, <2>3 DEF Remembered, Mfe
  <2> QED BY <2>4, <2>5, <2>6
<1>13. CASE XI!CloseEnds
  <2>1. XI!TypeOK'
    BY <1>13 DEF XI!CloseEnds, XI!TypeOK, XI!NoHandler, XI!Handlers
  <2>2. Handling' /\ Ahead'
    BY <1>13 DEF XI!CloseEnds, XI!NoHandler, Handling, Ahead
  <2>3. Remembered'
    BY <1>13 DEF XI!CloseEnds, XI!NoHandler, Handling, Remembered
  <2> QED BY <2>1, <2>2, <2>3
<1>14. CASE XI!Crash
  <2>1. XI!TypeOK'
    <3>1. crashes' \in 0..MaxCrashes
      BY <1>14, ExcursionConstants DEF XI!Crash, XI!TypeOK
    <3> QED BY <1>14, <3>1 DEF XI!Crash, XI!TypeOK, XI!NoHandler, XI!Handlers, XI!GapKinds
  <2>2. Handling' /\ Ahead'
    <3>1. crashes' # 0
      BY <1>14 DEF XI!Crash, XI!TypeOK
    <3> QED BY <1>14, <3>1 DEF XI!Crash, XI!NoHandler, Handling, Ahead
  <2>3. Remembered'
    BY <1>14 DEF XI!Crash, XI!NoHandler, XI!Forgets, Remembered, Mfe
  <2> QED BY <2>1, <2>2, <2>3
<1>15. CASE XI!Phase4dSeedInstrumentor
  <2>0. tracked = None /\ ~seeding /\ ~XI!Forgets
    BY <1>15 DEF XI!Phase4dSeedInstrumentor, Handling, XI!Forgets
  <2>1. CASE row \in {"pending_open", "open"}
    <3>1. gaps' = gaps \cup (IF XI!Forgets THEN {"reseeded"} ELSE {}) /\ seeding' = FALSE /\ row # "none"
      BY <1>15, <2>0, <2>1 DEF XI!Phase4dSeedInstrumentor, XI!TypeOK
    <3> QED BY <1>15, <2>1, <3>1, SeedStep DEF XI!Phase4dSeedInstrumentor
  <2>2. CASE row \notin {"pending_open", "open"}
    <3>1. XI!TypeOK'
      BY <1>15, <2>2 DEF XI!Phase4dSeedInstrumentor, XI!TypeOK
    <3> QED BY <1>15, <2>0, <2>2, <3>1 DEF XI!Phase4dSeedInstrumentor, Handling, Remembered, Ahead, Mfe
  <2> QED BY <2>1, <2>2
<1> QED
  BY <1>1, <1>2, <1>3, <1>4, <1>5, <1>6, <1>7, <1>8, <1>9, <1>10, <1>11, <1>12, <1>13, <1>14, <1>15 DEF XI!Next

LEMMA ExcursionQuiet ==
    ASSUME ExcursionInv, UNCHANGED XI!vars
    PROVE  ExcursionInv'
BY DEF ExcursionInv, XI!vars, XI!TypeOK, Handling, Remembered, Ahead, Mfe

-----------------------------------------------------------------------------
RecordsPart == (part = "ledger" => LedgerInv) /\ (part = "excursion" => ExcursionInv)

LEMMA RecordsInitial == Init => RecordsPart
BY LedgerInit, ExcursionInit DEF Init, RecordsPart

LEMMA RecordsStay == RecordsPart /\ [Next]_vars => RecordsPart'
<1> SUFFICES ASSUME RecordsPart, [Next]_vars PROVE RecordsPart'
  OBVIOUS
<1>1. CASE Next
  BY <1>1, LedgerStep, ExcursionStep DEF Next, RecordsPart
<1>2. CASE UNCHANGED vars
  BY <1>2, LedgerQuiet, ExcursionQuiet DEF vars, RecordsPart
<1> QED BY <1>1, <1>2

\* However executor, reconciler, funding poll and snapshot writer interleave, each
\* closing order is booked once and whole, the funding rows have no hole, a close
\* whose fills could be read says them all and no minute has two scheduled
\* snapshots; and however ticks, flushes, seeds, closes and restarts interleave, a
\* closed row says the best excursion unless samples were thrown away.
THEOREM RecordsAreSound == Spec => []RecordsSound
<1>1. RecordsPart => RecordsSound
  <2>1. LedgerInv => LG!FillsBookedOnce /\ LG!FundingHasNoHoles /\ LG!RealizedComplete /\ LG!OneScheduledPerMinute
    BY DEF LedgerInv, LedgerTyped, LG!FillsBookedOnce
  <2>2. ExcursionInv => XI!CloseFlushComplete /\ XI!SeedKeepsColumn
    BY DEF ExcursionInv, Handling, Remembered, Ahead, Mfe, AtLeast, XI!CloseFlushComplete, XI!SeedKeepsColumn
  <2> QED BY <2>1, <2>2 DEF RecordsPart, RecordsSound
<1> QED BY <1>1, RecordsInitial, RecordsStay, PTL DEF Spec

-----------------------------------------------------------------------------
(* The day's row.                                                          *)

LEMMA DayConstants ==
    /\ IsFiniteSet(Positions) /\ Cardinality(Positions) \in Nat
    /\ "tick" \notin DayHandlers /\ "boot" \notin DayHandlers /\ MaxDay \in Nat /\ MaxCrashes \in Nat
    /\ \A S : RD!Cardinality(S) = Cardinality(S)
<1>1. IsFiniteSet(Positions)
  BY DayAssumption DEF RD!ConstantsOK, RD!IsFiniteSet, IsFiniteSet
<1>2. \A S : RD!Cardinality(S) = Cardinality(S)
  BY DEF RD!Cardinality, Cardinality
<1> QED BY <1>1, <1>2, DayAssumption, FS_CardinalityType DEF RD!ConstantsOK

\* A risk_state row.
IsRow(r) ==
    \E x \in Int, e \in Nat, t \in 0..Cardinality(Positions), h \in BOOLEAN :
        r = [pnl |-> x, exposure |-> e, trades |-> t, halted |-> h]

LEMMA RowEdits ==
    ASSUME NEW r, IsRow(r), NEW e \in Nat, NEW t \in 0..Cardinality(Positions), NEW x \in Int, NEW h \in BOOLEAN
    PROVE  /\ r # None /\ r.halted \in BOOLEAN
           /\ r.exposure \in Nat /\ r.trades \in 0..Cardinality(Positions)
           /\ IsRow([r EXCEPT !.exposure = e])
           /\ [r EXCEPT !.exposure = e].exposure = e /\ [r EXCEPT !.exposure = e].trades = r.trades
           /\ IsRow([pnl |-> x, exposure |-> e, trades |-> t, halted |-> h])
           /\ IsRow([r EXCEPT !.halted = h]) /\ [r EXCEPT !.halted = h].trades = r.trades
<1>1. PICK x0 \in Int, e0 \in Nat, t0 \in 0..Cardinality(Positions), h0 \in BOOLEAN :
        r = [pnl |-> x0, exposure |-> e0, trades |-> t0, halted |-> h0]
  BY Zenon DEF IsRow
<1>a. r # None
  <2>1. r \in [pnl : Int, exposure : Nat, trades : Nat, halted : BOOLEAN]
    BY <1>1, DayConstants
  <2> QED BY <2>1, DayAssumption DEF RD!ConstantsOK
<1>2. [r EXCEPT !.exposure = e] = [pnl |-> x0, exposure |-> e, trades |-> t0, halted |-> h0]
  BY <1>1
<1>4. [r EXCEPT !.halted = h] = [pnl |-> x0, exposure |-> e0, trades |-> t0, halted |-> h]
  BY <1>1
<1>5. r.exposure = e0 /\ r.trades = t0 /\ r.halted = h0
  BY <1>1
<1>6. \A x1 \in Int, e1 \in Nat, t1 \in 0..Cardinality(Positions), h1 \in BOOLEAN :
        IsRow([pnl |-> x1, exposure |-> e1, trades |-> t1, halted |-> h1])
  BY Zenon DEF IsRow
<1>7. /\ IsRow([r EXCEPT !.exposure = e]) /\ IsRow([r EXCEPT !.halted = h])
      /\ IsRow([pnl |-> x, exposure |-> e, trades |-> t, halted |-> h])
  BY <1>1, <1>2, <1>4, <1>6
<1> QED BY <1>1, <1>a, <1>2, <1>4, <1>5, <1>7

LEMMA EmptyRow == IsRow(RD!Empty) /\ RD!Empty.trades = 0 /\ RD!Empty.halted = FALSE
<1>1. 0 \in 0..Cardinality(Positions) /\ 0 \in Int /\ 0 \in Nat /\ FALSE \in BOOLEAN
  BY DayConstants
<1>2. RD!Empty = [pnl |-> 0, exposure |-> 0, trades |-> 0, halted |-> FALSE]
  BY DEF RD!Empty
<1>3. IsRow(RD!Empty)
  BY <1>1, <1>2, Zenon DEF IsRow
<1> QED BY <1>2, <1>3

\* The exposure summed over position rows is a number.
LEMMA QtySum ==
    ASSUME NEW q, \A p \in Positions : q[p].qty \in Nat, NEW S \in SUBSET Positions
    PROVE  RD!SumOfQty(q, S) \in Nat
<1> DEFINE w == [p \in Positions |-> q[p].qty]
           F(f) == f = [s \in SUBSET S |-> IF s = {} THEN 0 ELSE q[AnyOf(s)].qty + f[s \ {AnyOf(s)}]]
<1>0. IsFiniteSet(S)
  BY DayConstants, FS_Subset
<1>1. RD!SumOfQty(q, S) = (CHOOSE f : F(f))[S]
  BY DEF RD!SumOfQty, RD!MapThenSumSet, RD!MapThenFoldSet, AnyOf
<1>2. \A s \in SUBSET S : s # {} => q[AnyOf(s)].qty = w[AnyOf(s)]
  BY AnyOfIn
<1>3. \A f : F(f) <=> IsSum(w, f, S)
  <2> TAKE f
  <2> DEFINE a == [s \in SUBSET S |-> IF s = {} THEN 0 ELSE q[AnyOf(s)].qty + f[s \ {AnyOf(s)}]]
             b == [s \in SUBSET S |-> IF s = {} THEN 0 ELSE w[AnyOf(s)] + f[s \ {AnyOf(s)}]]
  <2> HIDE DEF w
  <2>1. a = b
    BY <1>2
  <2> QED BY <2>1 DEF IsSum, SumStep
<1> HIDE DEF w
<1>4. \E f : IsSum(w, f, S)
  BY <1>0, SumExists
<1>5. IsSum(w, CHOOSE f : F(f), S)
  BY <1>3, <1>4
<1> HIDE DEF F
<1>6. (CHOOSE f : F(f))[S] = (CHOOSE f : IsSum(w, f, S))[S]
  <2>1. IsSum(w, CHOOSE f : IsSum(w, f, S), S)
    BY <1>4
  <2> QED BY <1>0, <1>5, <2>1, SumUnique
<1>7. \A p \in S : w[p] \in Int /\ w[p] >= 0
  BY DEF w
<1>8. Weight(w, S) \in Int /\ Weight(w, S) >= 0 * Cardinality(S)
  BY <1>0, <1>7, WeightInt, WeightBounds
<1>9. Cardinality(S) \in Nat
  BY <1>0, FS_CardinalityType
<1> QED BY <1>1, <1>6, <1>8, <1>9 DEF Weight

\* So is the result of the closes of a day.
LEMMA PnlSum ==
    ASSUME \A p \in Positions : pos[p].pnl \in Int, NEW d
    PROVE  RD!FindClosedTodayAggregates(d).pnl \in Int
<1> DEFINE S == RD!ClosedOn(d)
           w == [p \in Positions |-> pos[p].pnl]
           F(f) == f = [s \in SUBSET S |-> IF s = {} THEN 0 ELSE pos[AnyOf(s)].pnl + f[s \ {AnyOf(s)}]]
<1>0. IsFiniteSet(S)
  BY DayConstants, FS_Subset DEF RD!ClosedOn
<1>1. RD!FindClosedTodayAggregates(d).pnl = (CHOOSE f : F(f))[S]
  BY DEF RD!FindClosedTodayAggregates, RD!MapThenSumSet, RD!MapThenFoldSet, AnyOf
<1>s. S \subseteq Positions
  BY DEF RD!ClosedOn
<1> HIDE DEF S
<1>2. \A s \in SUBSET S : s # {} => pos[AnyOf(s)].pnl = w[AnyOf(s)]
  BY <1>s, AnyOfIn
<1>3. \A f : F(f) <=> IsSum(w, f, S)
  <2> TAKE f
  <2> DEFINE a == [s \in SUBSET S |-> IF s = {} THEN 0 ELSE pos[AnyOf(s)].pnl + f[s \ {AnyOf(s)}]]
             b == [s \in SUBSET S |-> IF s = {} THEN 0 ELSE w[AnyOf(s)] + f[s \ {AnyOf(s)}]]
  <2> HIDE DEF w
  <2>1. a = b
    BY <1>2
  <2> QED BY <2>1 DEF IsSum, SumStep
<1> HIDE DEF w
<1>4. \E f : IsSum(w, f, S)
  BY <1>0, SumExists
<1>5. IsSum(w, CHOOSE f : F(f), S)
  BY <1>3, <1>4
<1> HIDE DEF F
<1>6. (CHOOSE f : F(f))[S] = (CHOOSE f : IsSum(w, f, S))[S]
  <2>1. IsSum(w, CHOOSE f : IsSum(w, f, S), S)
    BY <1>4
  <2> QED BY <1>0, <1>5, <2>1, SumUnique
<1>7. \A p \in S : w[p] \in Int
  BY <1>s DEF w
<1>8. Weight(w, S) \in Int
  BY <1>0, <1>7, WeightInt
<1> QED BY <1>1, <1>6, <1>8 DEF Weight

\* Closes the executor made on day d.
ExecOn(d) == {p \in RD!ClosedOn(d) : pos[p].via = "executor"}
Done(d) == Cardinality(ExecOn(d))

\* What each writer holds at each of its steps.
HandlerHolds(j) ==
    /\ j.pc \in {"idle", "live", "closed", "upsert"}
    /\ j.pc # "idle" => j.day \in 0..MaxDay
    /\ j.pc \in {"closed", "upsert"} => j.exposure \in Nat
    /\ j.pc = "upsert" => j.read.trades \in 0..Cardinality(Positions) /\ j.read.pnl \in Int

TickHolds(j) ==
    /\ j.pc \in {"idle", "read", "write"}
    /\ j.pc # "idle" => j.delta \in Int /\ (j.fixes = None \/ (j.fixes[1] \in Positions /\ j.fixes[2] \in 1..2))
    /\ j.pc = "write" => j.day \in 0..MaxDay /\ IsRow(j.today)

BootHolds(j) ==
    /\ j.pc \in {"idle", "sweep", "set", "open"}
    /\ j.pc = "set" => j.day \in 0..MaxDay /\ IsRow(j.today) /\ j.exposure \in Nat

DayTyped ==
    /\ day \in 0..MaxDay /\ crashes \in 0..MaxCrashes
    /\ pos = [p \in Positions |-> pos[p]]
    /\ \A p \in Positions : /\ DOMAIN pos[p] = {"state", "qty", "pnl", "day", "via"}
                            /\ pos[p].qty \in 0..2 /\ pos[p].state \in {"none", "open", "closed"}
                            /\ pos[p].pnl \in Int
    /\ row = [d \in 0..MaxDay |-> row[d]]
    /\ \A d \in 0..MaxDay : row[d] = None \/ IsRow(row[d])

JobsTyped ==
    /\ job = [w \in RD!Writers |-> job[w]]
    /\ \A h \in DayHandlers : HandlerHolds(job[h])
    /\ TickHolds(job["tick"]) /\ BootHolds(job["boot"])
    /\ up <=> job["boot"].pc = "idle"
    /\ ~up => crashes # 0

\* The tick runs alone, and between the boot's read and its write nothing moves.
Alone ==
    /\ job["tick"].pc # "idle" => \A h \in DayHandlers : job[h].pc = "idle"
    /\ job["boot"].pc = "set" =>
         job["boot"].exposure = RD!FindLiveRiskAggregates /\ job["tick"].pc = "idle"

\* Without a restart, a day whose row misses a close has a handler on its way to it.
Pending(d) == \E h \in DayHandlers : job[h].pc # "idle" /\ job[h].day = d
DayBooked ==
    crashes = 0 =>
        /\ \A d \in 0..MaxDay : Pending(d) \/ RD!Loaded(row[d]).trades >= Done(d)
        /\ \A h \in DayHandlers : job[h].pc = "upsert" => job[h].read.trades >= Done(job[h].day)
        /\ job["tick"].pc = "write" => job["tick"].today.trades >= Done(job["tick"].day)

DayInv == DayTyped /\ JobsTyped /\ Alone /\ DayBooked

LEMMA DoneBounds ==
    ASSUME NEW d
    PROVE  /\ Done(d) \in Nat
           /\ RD!Cardinality(RD!ClosedOn(d)) \in 0..Cardinality(Positions)
           /\ RD!Cardinality(RD!ClosedOn(d)) >= Done(d)
<1>1. RD!ClosedOn(d) \subseteq Positions /\ ExecOn(d) \subseteq RD!ClosedOn(d)
  BY DEF RD!ClosedOn, ExecOn
<1>2. /\ IsFiniteSet(RD!ClosedOn(d)) /\ Cardinality(RD!ClosedOn(d)) <= Cardinality(Positions)
  BY <1>1, DayConstants, FS_Subset
<1>3. IsFiniteSet(ExecOn(d)) /\ Cardinality(ExecOn(d)) <= Cardinality(RD!ClosedOn(d))
  BY <1>1, <1>2, FS_Subset
<1>4. Cardinality(ExecOn(d)) \in Nat /\ Cardinality(RD!ClosedOn(d)) \in Nat
  BY <1>2, <1>3, FS_CardinalityType
<1> QED BY <1>2, <1>3, <1>4, DayConstants DEF Done

\* A loaded row is a row.
LEMMA LoadedRow ==
    ASSUME DayTyped, NEW d \in 0..MaxDay
    PROVE  IsRow(RD!Loaded(row[d]))
BY EmptyRow DEF DayTyped, RD!Loaded

LEMMA LiveSum ==
    ASSUME DayTyped PROVE RD!FindLiveRiskAggregates \in Nat
<1>1. \A p \in Positions : pos[p].qty \in Nat
  BY DEF DayTyped
<1>2. RD!Live \in SUBSET Positions
  BY DEF RD!Live
<1> QED BY <1>1, <1>2, QtySum DEF RD!FindLiveRiskAggregates

LEMMA DayInit ==
    ASSUME RD!Init
    PROVE  DayInv
<1>1. DayTyped
  BY DayConstants DEF RD!Init, DayTyped
<1>2. \A w \in RD!Writers : job[w] = RD!Idle /\ job[w].pc = "idle"
  BY DEF RD!Init, RD!Idle
<1>3. "tick" \in RD!Writers /\ "boot" \in RD!Writers /\ DayHandlers \subseteq RD!Writers
  BY DEF RD!Writers
<1>4. JobsTyped
  <2>1. job = [w \in RD!Writers |-> job[w]] /\ up = TRUE
    BY DEF RD!Init
  <2> QED BY <2>1, <1>2, <1>3 DEF JobsTyped, HandlerHolds, TickHolds, BootHolds
<1>5. Alone
  BY <1>2, <1>3 DEF Alone
<1>6. DayBooked
  <2>1. ASSUME NEW d \in 0..MaxDay PROVE RD!Loaded(row[d]).trades >= Done(d)
    <3>1. ExecOn(d) = {}
      BY DEF RD!Init, ExecOn, RD!ClosedOn
    <3>2. Done(d) = 0
      BY <3>1, FS_EmptySet DEF Done
    <3>3. RD!Loaded(row[d]).trades = 0
      BY EmptyRow DEF RD!Init, RD!Loaded
    <3> QED BY <3>2, <3>3
  <2> QED BY <2>1, <1>2, <1>3 DEF DayBooked
<1> QED BY <1>1, <1>4, <1>5, <1>6 DEF DayInv

LEMMA WriterNames ==
    "tick" \in RD!Writers /\ "boot" \in RD!Writers /\ DayHandlers \subseteq RD!Writers /\ "tick" # "boot"
    /\ "tick" \notin DayHandlers /\ "boot" \notin DayHandlers
BY DayConstants DEF RD!Writers

\* A change of position rows that leaves the executor's closes alone.
LEMMA SameClosed ==
    ASSUME \A p \in Positions :
             \/ pos'[p] = pos[p]
             \/ ~(pos[p].state = "closed" /\ pos[p].via = "executor") /\ ~(pos'[p].state = "closed" /\ pos'[p].via = "executor")
    PROVE  \A d : Done(d)' = Done(d)
<1> SUFFICES ASSUME NEW d PROVE ExecOn(d)' = ExecOn(d)
  BY DEF Done
<1> QED BY DEF ExecOn, RD!ClosedOn

LEMMA SamePositions ==
    ASSUME pos' = pos
    PROVE  /\ RD!FindLiveRiskAggregates' = RD!FindLiveRiskAggregates
           /\ \A d : Done(d)' = Done(d)
<1>1. RD!FindLiveRiskAggregates' = RD!FindLiveRiskAggregates
  BY DEF RD!FindLiveRiskAggregates, RD!Live
<1>2. \A d : Done(d)' = Done(d)
  BY SameClosed
<1> QED BY <1>1, <1>2

\* One writer moves.
LEMMA JobSet ==
    ASSUME JobsTyped, NEW w \in RD!Writers, NEW x, job' = [job EXCEPT ![w] = x]
    PROVE  /\ job' = [v \in RD!Writers |-> job'[v]] /\ job'[w] = x
           /\ \A v \in RD!Writers : v # w => job'[v] = job[v]
BY DEF JobsTyped

LEMMA HandlerMoves ==
    ASSUME JobsTyped, NEW h \in DayHandlers, NEW x, job' = [job EXCEPT ![h] = x], HandlerHolds(x), up' = up, crashes' = crashes
    PROVE  /\ JobsTyped' /\ job'[h] = x
           /\ \A v \in RD!Writers : v # h => job'[v] = job[v]
           /\ job'["tick"] = job["tick"] /\ job'["boot"] = job["boot"]
<1>1. /\ job' = [v \in RD!Writers |-> job'[v]] /\ job'[h] = x
      /\ \A v \in RD!Writers : v # h => job'[v] = job[v]
  BY JobSet, WriterNames
<1>2. job'["tick"] = job["tick"] /\ job'["boot"] = job["boot"]
  BY <1>1, WriterNames
<1>3. \A v \in DayHandlers : HandlerHolds(job'[v])
  BY <1>1, WriterNames DEF JobsTyped
<1> QED BY <1>1, <1>2, <1>3 DEF JobsTyped

LEMMA TickMoves ==
    ASSUME JobsTyped, NEW x, job' = [job EXCEPT !["tick"] = x], TickHolds(x), up' = up, crashes' = crashes
    PROVE  /\ JobsTyped' /\ job'["tick"] = x /\ job'["boot"] = job["boot"]
           /\ \A h \in DayHandlers : job'[h] = job[h]
<1>1. /\ job' = [v \in RD!Writers |-> job'[v]] /\ job'["tick"] = x
      /\ \A v \in RD!Writers : v # "tick" => job'[v] = job[v]
  BY JobSet, WriterNames
<1>2. job'["boot"] = job["boot"] /\ \A h \in DayHandlers : job'[h] = job[h]
  BY <1>1, WriterNames
<1> QED BY <1>1, <1>2 DEF JobsTyped

LEMMA BootMoves ==
    ASSUME JobsTyped, NEW x, job' = [job EXCEPT !["boot"] = x], BootHolds(x), up' <=> x.pc = "idle",
           crashes' = crashes, ~up' => crashes # 0
    PROVE  /\ JobsTyped' /\ job'["boot"] = x /\ job'["tick"] = job["tick"]
           /\ \A h \in DayHandlers : job'[h] = job[h]
<1>1. /\ job' = [v \in RD!Writers |-> job'[v]] /\ job'["boot"] = x
      /\ \A v \in RD!Writers : v # "boot" => job'[v] = job[v]
  BY JobSet, WriterNames
<1>2. job'["tick"] = job["tick"] /\ \A h \in DayHandlers : job'[h] = job[h]
  BY <1>1, WriterNames
<1> QED BY <1>1, <1>2 DEF JobsTyped

\* A row is replaced by a row.
LEMMA RowSet ==
    ASSUME DayTyped, NEW d \in 0..MaxDay, NEW r, IsRow(r), row' = [row EXCEPT ![d] = r],
           UNCHANGED <<day, crashes, pos>>
    PROVE  DayTyped' /\ row'[d] = r /\ \A e \in 0..MaxDay : e # d => row'[e] = row[e]
<1>1. /\ row' = [e \in 0..MaxDay |-> row'[e]] /\ row'[d] = r
      /\ \A e \in 0..MaxDay : e # d => row'[e] = row[e]
  BY DEF DayTyped
<1>2. \A e \in 0..MaxDay : row'[e] = None \/ IsRow(row'[e])
  BY <1>1 DEF DayTyped
<1> QED BY <1>1, <1>2 DEF DayTyped

LEMMA LoadedIs == ASSUME NEW r, IsRow(r) PROVE RD!Loaded(r) = r
<1>1. 0 \in 0..Cardinality(Positions) /\ 0 \in Nat /\ 0 \in Int /\ TRUE \in BOOLEAN
  BY DayConstants
<1>2. r # None
  BY <1>1, RowEdits, Zenon
<1> QED BY <1>2 DEF RD!Loaded

LEMMA EmittedStep ==
    ASSUME DayInv, RD!Emitted, UNCHANGED <<day, row, up, crashes>>, up \/ job["boot"].pc = "open", DayTyped',
           \A d \in 0..MaxDay : d # day => Done(d)' = Done(d)
    PROVE  DayInv'
<1> USE DEF DayInv
<1>1. PICK h \in DayHandlers : RD!MayStart(h) /\ job' = [job EXCEPT ![h] = [pc |-> "live", day |-> day]]
  BY Zenon DEF RD!Emitted
<1>2. \A v \in DayHandlers \cup {"tick"} : job[v].pc = "idle"
  BY <1>1, WriterNames DEF RD!MayStart
<1>3. HandlerHolds([pc |-> "live", day |-> day])
  BY DEF HandlerHolds, DayTyped
<1>4. /\ JobsTyped' /\ job'[h] = [pc |-> "live", day |-> day]
      /\ \A v \in RD!Writers : v # h => job'[v] = job[v]
      /\ job'["tick"] = job["tick"] /\ job'["boot"] = job["boot"]
  BY <1>1, <1>3, HandlerMoves
<1>5. Alone'
  BY <1>2, <1>4 DEF Alone, JobsTyped
<1>6. DayBooked'
  <2> SUFFICES ASSUME crashes = 0
               PROVE  /\ \A d \in 0..MaxDay : Pending(d)' \/ RD!Loaded(row[d]).trades >= Done(d)'
                      /\ \A g \in DayHandlers : job'[g].pc = "upsert" => job'[g].read.trades >= Done(job[g].day)'
                      /\ job'["tick"].pc = "write" => job'["tick"].today.trades >= Done(job["tick"].day)'
    BY DEF DayBooked
  <2>1. Pending(day)'
    BY <1>4 DEF Pending
  <2>2. ASSUME NEW d \in 0..MaxDay, d # day PROVE RD!Loaded(row[d]).trades >= Done(d)'
    BY <1>2, <2>2 DEF DayBooked, Pending
  <2>3. \A g \in DayHandlers : job'[g].pc # "upsert"
    BY <1>2, <1>4, WriterNames
  <2> QED BY <2>1, <2>2, <2>3, <1>2, <1>4
<1> QED BY <1>4, <1>5, <1>6

\* A handler's own step, up to the write.
LEMMA HandlerReads ==
    ASSUME DayInv, NEW h \in DayHandlers, RD!ReadLive(h) \/ RD!ReadClosed(h)
    PROVE  DayInv'
<1> USE DEF DayInv
<1>1. PICK x : /\ job' = [job EXCEPT ![h] = x] /\ x.day = job[h].day /\ x.pc \in {"closed", "upsert"} /\ job[h].pc # "idle"
               /\ HandlerHolds(x) /\ (x.pc = "upsert" => x.read.trades >= Done(x.day))
  <2>1. CASE RD!ReadLive(h)
    <3> DEFINE x == [pc |-> "closed", day |-> job[h].day, exposure |-> RD!FindLiveRiskAggregates]
    <3>1. job' = [job EXCEPT ![h] = x] /\ job[h].pc = "live"
      BY <2>1 DEF RD!ReadLive
    <3>2. HandlerHolds(x)
      BY <3>1, LiveSum DEF JobsTyped, HandlerHolds
    <3>3. x.day = job[h].day /\ x.pc = "closed"
      OBVIOUS
    <3> HIDE DEF x
    <3> QED BY <3>1, <3>2, <3>3
  <2>2. CASE RD!ReadClosed(h)
    <3> DEFINE a == RD!FindClosedTodayAggregates(job[h].day)
               x == [pc |-> "upsert", day |-> job[h].day, exposure |-> job[h].exposure, read |-> a]
    <3>1. job' = [job EXCEPT ![h] = x] /\ job[h].pc = "closed"
      BY <2>2 DEF RD!ReadClosed
    <3>2. a.trades = RD!Cardinality(RD!ClosedOn(job[h].day))
      BY DEF RD!FindClosedTodayAggregates
    <3>3. a.pnl \in Int
      BY PnlSum DEF DayTyped
    <3>4. a.trades \in 0..Cardinality(Positions) /\ a.trades >= Done(job[h].day)
      BY <3>2, DoneBounds
    <3> HIDE DEF a
    <3>5. HandlerHolds(x)
      BY <3>1, <3>3, <3>4 DEF JobsTyped, HandlerHolds
    <3>6. x.day = job[h].day /\ x.pc = "upsert" /\ x.read.trades = a.trades
      OBVIOUS
    <3> HIDE DEF x
    <3> QED BY <3>1, <3>4, <3>5, <3>6
  <2> QED BY <2>1, <2>2
<1>2. UNCHANGED <<day, pos, closed, row, up, crashes, admitted>>
  BY DEF RD!ReadLive, RD!ReadClosed
<1>3. /\ JobsTyped' /\ job'[h] = x
      /\ \A v \in RD!Writers : v # h => job'[v] = job[v]
      /\ job'["tick"] = job["tick"] /\ job'["boot"] = job["boot"]
  BY <1>1, <1>2, HandlerMoves
<1>4. DayTyped'
  BY <1>2 DEF DayTyped
<1>5. /\ RD!FindLiveRiskAggregates' = RD!FindLiveRiskAggregates
      /\ \A d : Done(d)' = Done(d)
  BY <1>2, SamePositions
<1>6. Alone'
  BY <1>1, <1>3, <1>5, WriterNames DEF Alone
<1>7. DayBooked'
  <2>1. \A d : Pending(d) => Pending(d)'
    BY <1>1, <1>3, WriterNames DEF Pending
  <2> QED BY <1>1, <1>2, <1>3, <1>5, <2>1, WriterNames DEF DayBooked
<1> QED BY <1>3, <1>4, <1>6, <1>7

\* A step that rewrites one row and keeps or raises what it books.
LEMMA RowRewritten ==
    ASSUME DayInv, NEW d \in 0..MaxDay, NEW r, IsRow(r), row' = [row EXCEPT ![d] = r],
           UNCHANGED <<day, crashes, pos>>, JobsTyped', Alone',
           \A h \in DayHandlers : job'[h] = job[h] \/ (job'[h].pc = "idle" /\ job[h].day = d),
           crashes = 0 => r.trades >= Done(d),
           job'["tick"].pc = "write" => job'["tick"] = job["tick"]
    PROVE  DayInv'
<1> USE DEF DayInv
<1>1. DayTyped' /\ row'[d] = r /\ \A e \in 0..MaxDay : e # d => row'[e] = row[e]
  BY RowSet
<1>2. \A e : Done(e)' = Done(e)
  BY SamePositions
<1>3. DayBooked'
  <2> SUFFICES ASSUME crashes = 0 PROVE DayBooked'
    BY DEF DayBooked
  <2>1. RD!Loaded(row'[d]).trades >= Done(d)'
    BY <1>1, <1>2, LoadedIs
  <2>2. ASSUME NEW e \in 0..MaxDay, e # d PROVE Pending(e)' \/ RD!Loaded(row'[e]).trades >= Done(e)'
    <3>1. Pending(e) => Pending(e)'
      BY <2>2 DEF Pending
    <3> QED BY <1>1, <1>2, <2>2, <3>1 DEF DayBooked
  <2>3. \A h \in DayHandlers : job'[h].pc = "upsert" => job'[h].read.trades >= Done(job[h].day)' /\ job'[h] = job[h]
    BY <1>2 DEF DayBooked
  <2>4. job'["tick"].pc = "write" => job'["tick"].today.trades >= Done(job["tick"].day)' /\ job'["tick"] = job["tick"]
    BY <1>2 DEF DayBooked
  <2> QED BY <2>1, <2>2, <2>3, <2>4 DEF DayBooked
<1> QED BY <1>1, <1>3

\* A close: the row of p is rewritten.
LEMMA CloseStep ==
    ASSUME DayInv, NEW p \in Positions, NEW x \in Results, NEW via, RD!Finalized(p, x, via), pos[p].state = "open",
           UNCHANGED <<day, row, crashes>>
    PROVE  /\ DayTyped'
           /\ \A d : d # day \/ via # "executor" => Done(d)' = Done(d)
<1> USE DEF DayInv
<1> DEFINE r == [state |-> "closed", qty |-> IF via = "executor" THEN 0 ELSE pos[p].qty,
                 pnl |-> x, day |-> day, via |-> via]
<1>1. pos' = [pos EXCEPT ![p] = r]
  BY DEF RD!Finalized
<1>2. /\ r.qty \in 0..2 /\ r.state = "closed" /\ r.pnl \in Int /\ r.day = day /\ r.via = via
      /\ DOMAIN r = {"state", "qty", "pnl", "day", "via"}
  BY DayAssumption DEF DayTyped, RD!ConstantsOK
<1> HIDE DEF r
<1>3. /\ pos' = [q \in Positions |-> pos'[q]] /\ pos'[p] = r
      /\ \A q \in Positions : q # p => pos'[q] = pos[q]
  BY <1>1 DEF DayTyped
<1>4. DayTyped'
  BY <1>2, <1>3 DEF DayTyped
<1>5. ASSUME NEW d, d # day \/ via # "executor" PROVE ExecOn(d)' = ExecOn(d)
  BY <1>2, <1>3, <1>5 DEF ExecOn, RD!ClosedOn
<1> QED BY <1>4, <1>5 DEF Done

LEMMA Clamped == ASSUME NEW x \in Int PROVE RD!Max({0, x}) \in Nat
<1>1. \E y \in {0, x} : \A z \in {0, x} : y >= z
  OBVIOUS
<1> QED BY <1>1 DEF RD!Max

\* The tick's and the boot's steps that write nothing.
LEMMA NothingWritten ==
    ASSUME DayInv, UNCHANGED <<day, crashes, row>>, JobsTyped', Alone', \A h \in DayHandlers : job'[h] = job[h],
           DayTyped', \A d : Done(d)' = Done(d),
           crashes = 0 /\ job'["tick"].pc = "write" => job'["tick"].today.trades >= Done(job'["tick"].day)
    PROVE  DayInv'
<1> USE DEF DayInv
<1>1. \A d : Pending(d)' <=> Pending(d)
  BY DEF Pending
<1>2. DayBooked'
  <2> SUFFICES ASSUME crashes = 0 PROVE DayBooked'
    BY DEF DayBooked
  <2>1. \A h \in DayHandlers : job'[h].pc = "upsert" => job'[h].read.trades >= Done(job[h].day)'
    BY DEF DayBooked
  <2>2. \A d \in 0..MaxDay : Pending(d)' \/ RD!Loaded(row[d]).trades >= Done(d)'
    BY <1>1 DEF DayBooked
  <2>3. job'["tick"].pc = "write" => job'["tick"].today.trades >= Done(job["tick"].day)'
    BY DEF DayBooked
  <2> QED BY <2>1, <2>2, <2>3 DEF DayBooked
<1> QED BY <1>2

LEMMA DayStep ==
    ASSUME DayInv, RD!Next
    PROVE  DayInv' /\ RD!OpensExact
<1> USE DEF DayInv
<1> SUFFICES DayInv' /\ (job["boot"].pc = "set" /\ job'["boot"].pc = "open" =>
                           row'[job["boot"].day].exposure = RD!FindLiveRiskAggregates)
  BY DEF RD!OpensExact
<1>1. ASSUME NEW p \in Positions, RD!Enter(p)
      PROVE  DayInv' /\ job'["boot"] = job["boot"]
  <2>1. /\ pos' = [pos EXCEPT ![p].state = "open", ![p].qty = 1] /\ pos[p].state = "none" /\ up /\ RD!Emitted
        /\ UNCHANGED <<day, closed, row, up, crashes>>
    BY <1>1 DEF RD!Enter
  <2>2. /\ pos' = [q \in Positions |-> pos'[q]]
        /\ DOMAIN pos'[p] = {"state", "qty", "pnl", "day", "via"}
        /\ pos'[p].state = "open" /\ pos'[p].qty = 1 /\ pos'[p].pnl = pos[p].pnl
        /\ \A q \in Positions : q # p => pos'[q] = pos[q]
    BY <2>1 DEF DayTyped
  <2>3. DayTyped'
    BY <2>1, <2>2 DEF DayTyped
  <2>4. \A d : Done(d)' = Done(d)
    BY <2>1, <2>2, SameClosed
  <2>5. DayInv'
    BY <2>1, <2>3, <2>4, EmittedStep
  <2> QED BY <2>1, <2>5, WriterNames DEF RD!Emitted, JobsTyped
<1>2. ASSUME NEW p \in Positions, NEW x \in Results, RD!ExecutorClose(p, x)
      PROVE  DayInv' /\ job'["boot"] = job["boot"]
  <2>1. /\ RD!Finalized(p, x, "executor") /\ pos[p].state = "open" /\ RD!Emitted /\ (up \/ job["boot"].pc = "open")
        /\ UNCHANGED <<day, row, up, crashes, admitted>>
    BY <1>2 DEF RD!ExecutorClose
  <2>2. DayTyped' /\ \A d : d # day => Done(d)' = Done(d)
    BY <2>1, CloseStep
  <2>3. DayInv'
    BY <2>1, <2>2, EmittedStep
  <2> QED BY <2>1, <2>3, WriterNames DEF RD!Emitted, JobsTyped
<1>3. ASSUME NEW p \in Positions, NEW x \in Results, RD!ReconcileClose(p, x)
      PROVE  DayInv' /\ job'["boot"] = job["boot"]
  <2> DEFINE j == [pc |-> "read", delta |-> -pos[p].qty, fixes |-> None]
  <2>1. /\ RD!Finalized(p, x, "reconcile") /\ pos[p].state = "open" /\ RD!MayStart("tick")
        /\ (up \/ job["boot"].pc = "sweep")
        /\ job' = [job EXCEPT !["tick"] = j]
        /\ UNCHANGED <<day, row, up, crashes, admitted>>
    BY <1>3 DEF RD!ReconcileClose
  <2>2. DayTyped' /\ \A d : Done(d)' = Done(d)
    BY <2>1, CloseStep
  <2>3. TickHolds(j) /\ j.pc = "read"
    BY DEF TickHolds, DayTyped
  <2> HIDE DEF j
  <2>4. JobsTyped' /\ job'["tick"] = j /\ job'["boot"] = job["boot"] /\ \A h \in DayHandlers : job'[h] = job[h]
    BY <2>1, <2>3, TickMoves
  <2>5. Alone'
    BY <2>1, <2>3, <2>4, WriterNames DEF Alone, RD!MayStart, JobsTyped
  <2> QED BY <2>1, <2>2, <2>3, <2>4, <2>5, NothingWritten
<1>4. ASSUME NEW p \in Positions, NEW qty \in 1..2, RD!RecordExposureDrift(p, qty)
      PROVE  DayInv' /\ job'["boot"] = job["boot"]
  <2> DEFINE j == [pc |-> "read", delta |-> qty - pos[p].qty, fixes |-> <<p, qty>>]
  <2>1. /\ RD!MayStart("tick") /\ (up \/ job["boot"].pc = "sweep")
        /\ job' = [job EXCEPT !["tick"] = j]
        /\ UNCHANGED <<day, pos, row, up, crashes, admitted>>
    BY <1>4 DEF RD!RecordExposureDrift
  <2>2. DayTyped' /\ \A d : Done(d)' = Done(d)
    <3>1. \A d : Done(d)' = Done(d)
      BY <2>1, SamePositions
    <3>2. DayTyped'
      BY <2>1 DEF DayTyped
    <3> QED BY <3>1, <3>2
  <2>3. TickHolds(j) /\ j.pc = "read"
    BY DEF TickHolds, DayTyped
  <2> HIDE DEF j
  <2>4. JobsTyped' /\ job'["tick"] = j /\ job'["boot"] = job["boot"] /\ \A h \in DayHandlers : job'[h] = job[h]
    BY <2>1, <2>3, TickMoves
  <2>5. Alone'
    BY <2>1, <2>3, <2>4, WriterNames DEF Alone, RD!MayStart, JobsTyped
  <2> QED BY <2>1, <2>2, <2>3, <2>4, <2>5, NothingWritten
<1>5. ASSUME NEW h \in DayHandlers, RD!ReadLive(h) \/ RD!ReadClosed(h)
      PROVE  DayInv' /\ job'["boot"] = job["boot"]
  BY <1>5, HandlerReads, WriterNames DEF RD!ReadLive, RD!ReadClosed, JobsTyped
<1>6. ASSUME NEW h \in DayHandlers, RD!WriteAccounting(h)
      PROVE  DayInv' /\ job'["boot"] = job["boot"]
  <2> DEFINE d == job[h].day
             r == RD!UpsertAccountingForDay(RD!Loaded(row[d]), job[h])
  <2>1. /\ job[h].pc = "upsert" /\ row' = [row EXCEPT ![d] = r] /\ job' = [job EXCEPT ![h] = RD!Idle]
        /\ UNCHANGED <<day, pos, closed, up, crashes, admitted>>
    BY <1>6 DEF RD!WriteAccounting
  <2>2. d \in 0..MaxDay /\ HandlerHolds(job[h])
    BY <2>1 DEF JobsTyped, HandlerHolds
  <2>3. IsRow(RD!Loaded(row[d]))
    BY <2>2, LoadedRow
  <2>4. r = [pnl |-> job[h].read.pnl, exposure |-> job[h].exposure, trades |-> job[h].read.trades,
             halted |-> RD!Loaded(row[d]).halted]
    BY DEF RD!UpsertAccountingForDay
  <2>5. RD!Loaded(row[d]).halted \in BOOLEAN
    BY <2>3, <2>2, <2>1, RowEdits DEF HandlerHolds
  <2>6. IsRow(r) /\ r.trades = job[h].read.trades
    <3>1. /\ job[h].read.pnl \in Int /\ job[h].exposure \in Nat /\ job[h].read.trades \in 0..Cardinality(Positions)
      BY <2>1, <2>2 DEF HandlerHolds
    <3> HIDE DEF r, d
    <3> QED BY <2>3, <2>4, <2>5, <3>1, RowEdits
  <2>7. crashes = 0 => r.trades >= Done(d)
    BY <2>1, <2>6 DEF DayBooked
  <2> HIDE DEF r
  <2>8. HandlerHolds(RD!Idle) /\ RD!Idle.pc = "idle"
    BY DEF HandlerHolds, RD!Idle
  <2>9. /\ JobsTyped' /\ job'[h] = RD!Idle
        /\ \A v \in RD!Writers : v # h => job'[v] = job[v]
        /\ job'["tick"] = job["tick"] /\ job'["boot"] = job["boot"]
    BY <2>1, <2>8, HandlerMoves
  <2>10. Alone'
    BY <2>1, <2>8, <2>9, SamePositions, WriterNames DEF Alone
  <2>11. \A g \in DayHandlers : job'[g] = job[g] \/ (job'[g].pc = "idle" /\ job[g].day = d)
    BY <2>8, <2>9, WriterNames
  <2> HIDE DEF d
  <2> QED BY <2>1, <2>2, <2>6, <2>7, <2>9, <2>10, <2>11, RowRewritten
<1>7. ASSUME RD!PersistHalt \/ RD!ClearHaltForDate
      PROVE  DayInv' /\ job'["boot"] = job["boot"]
  <2> DEFINE a == RD!Loaded(row[day])
  <2>0. day \in 0..MaxDay
    BY DEF DayTyped
  <2>1. UNCHANGED <<day, pos, closed, job, up, crashes, admitted>> /\ day \in 0..MaxDay /\ IsRow(a)
    BY <1>7, <2>0, LoadedRow DEF RD!PersistHalt, RD!ClearHaltForDate
  <2>2. PICK b \in BOOLEAN : row' = [row EXCEPT ![day] = [a EXCEPT !.halted = b]]
    <3>1. CASE RD!PersistHalt
      BY <3>1 DEF RD!PersistHalt
    <3>2. CASE RD!ClearHaltForDate
      <4>1. row' = [row EXCEPT ![day].halted = FALSE] /\ a.halted
        BY <3>2 DEF RD!ClearHaltForDate
      <4>2. row[day] = a
        BY <4>1, EmptyRow DEF RD!Loaded
      <4> QED BY <4>1, <4>2
    <3> QED BY <1>7, <3>1, <3>2
  <2> DEFINE r == [a EXCEPT !.halted = b]
  <2>3. 0 \in Nat /\ 0 \in Int /\ 0 \in 0..Cardinality(Positions)
    BY DayConstants
  <2>4. IsRow(r) /\ r.trades = a.trades
    BY <2>1, <2>3, RowEdits
  <2> HIDE DEF r
  <2>5. JobsTyped' /\ Alone'
    BY <2>1, SamePositions DEF JobsTyped, Alone
  <2>6. \A e : Done(e)' = Done(e)
    BY <2>1, SamePositions
  <2>7. row' = [row EXCEPT ![day] = r]
    BY <2>2 DEF r
  <2>8. DayTyped' /\ row'[day] = r /\ \A e \in 0..MaxDay : e # day => row'[e] = row[e]
    BY <2>1, <2>4, <2>7, RowSet
  <2>9. \A e \in 0..MaxDay : RD!Loaded(row'[e]).trades = RD!Loaded(row[e]).trades
    BY <2>4, <2>8, LoadedIs
  <2>10. \A e : Pending(e)' <=> Pending(e)
    BY <2>1 DEF Pending
  <2>11. DayBooked'
    BY <2>1, <2>6, <2>9, <2>10 DEF DayBooked
  <2> QED BY <2>1, <2>5, <2>8, <2>11
<1>8. ASSUME RD!AdjustRead
      PROVE  DayInv' /\ job'["boot"] = job["boot"]
  <2> DEFINE t == job["tick"]
             j == [pc |-> "write", delta |-> t.delta, fixes |-> t.fixes, day |-> day, today |-> RD!Loaded(row[day])]
  <2>1. t.pc = "read" /\ job' = [job EXCEPT !["tick"] = j] /\ UNCHANGED <<day, pos, closed, row, up, crashes, admitted>>
    BY <1>8, WriterNames DEF RD!AdjustRead, JobsTyped
  <2>2. day \in 0..MaxDay /\ IsRow(RD!Loaded(row[day]))
    BY LoadedRow DEF DayTyped
  <2>3. /\ TickHolds(j) /\ j.pc = "write" /\ j.day = day /\ j.today = RD!Loaded(row[day])
    BY <2>1, <2>2 DEF TickHolds, JobsTyped
  <2>4. \A h \in DayHandlers : job[h].pc = "idle"
    BY <2>1 DEF Alone
  <2>5. crashes = 0 => j.today.trades >= Done(day)
    BY <2>2, <2>3, <2>4 DEF DayBooked, Pending
  <2> HIDE DEF j
  <2>6. JobsTyped' /\ job'["tick"] = j /\ job'["boot"] = job["boot"] /\ \A h \in DayHandlers : job'[h] = job[h]
    BY <2>1, <2>3, TickMoves
  <2>7. Alone'
    BY <2>1, <2>4, <2>6 DEF Alone
  <2>8. \A d : Done(d)' = Done(d)
    BY <2>1, SamePositions
  <2>9. DayTyped'
    BY <2>1 DEF DayTyped
  <2>10. DayInv'
    BY <2>1, <2>3, <2>5, <2>6, <2>7, <2>8, <2>9, NothingWritten
  <2> QED BY <2>6, <2>10
<1>9. ASSUME RD!AdjustWrite
      PROVE  DayInv' /\ job'["boot"] = job["boot"]
  <2> DEFINE t == job["tick"]
             r == RD!AdjustOpenExposure(t.today, t.delta)
             q == t.fixes[1]
  <2>1. /\ t.pc = "write" /\ row' = [row EXCEPT ![t.day] = r] /\ job' = [job EXCEPT !["tick"] = RD!Idle]
        /\ pos' = IF t.fixes = None \/ pos[q].state # "open" THEN pos ELSE [pos EXCEPT ![q].qty = t.fixes[2]]
        /\ UNCHANGED <<day, closed, up, crashes, admitted>>
    BY <1>9 DEF RD!AdjustWrite
  <2>2. TickHolds(t) /\ t.day \in 0..MaxDay /\ IsRow(t.today) /\ t.delta \in Int
    BY <2>1 DEF JobsTyped, TickHolds
  <2>3. IsRow(r) /\ r.trades = t.today.trades
    <3>1. 0 \in 0..Cardinality(Positions) /\ 0 \in Int /\ 0 \in Nat /\ TRUE \in BOOLEAN
      BY DayConstants
    <3>2. t.today.exposure \in Nat
      BY <2>2, <3>1, RowEdits, Zenon
    <3> DEFINE e == RD!Max({0, t.today.exposure + t.delta})
    <3>3. e \in Nat
      BY <2>2, <3>2, Clamped
    <3>4. r = [t.today EXCEPT !.exposure = e]
      BY DEF RD!AdjustOpenExposure
    <3> HIDE DEF e, r
    <3> QED BY <2>2, <3>1, <3>3, <3>4, RowEdits
  <2>4. /\ pos' = [p \in Positions |-> pos'[p]]
        /\ \A p \in Positions : \/ pos'[p] = pos[p]
                                \/ /\ pos[p].state = "open" /\ pos'[p].state = "open"
                                   /\ pos'[p].qty \in 0..2 /\ pos'[p].pnl = pos[p].pnl
                                   /\ DOMAIN pos'[p] = {"state", "qty", "pnl", "day", "via"}
    <3>1. CASE t.fixes = None \/ pos[q].state # "open"
      BY <2>1, <3>1 DEF DayTyped
    <3>2. CASE ~(t.fixes = None \/ pos[q].state # "open")
      <4>1. q \in Positions /\ t.fixes[2] \in 1..2 /\ pos[q].state = "open"
        BY <2>1, <2>2, <3>2 DEF TickHolds
      <4>2. pos' = [pos EXCEPT ![q] = [pos[q] EXCEPT !.qty = t.fixes[2]]]
        BY <2>1, <3>2
      <4> HIDE DEF q, t
      <4>3. pos'[q] = [pos[q] EXCEPT !.qty = t.fixes[2]] /\ \A p \in Positions : p # q => pos'[p] = pos[p]
        BY <4>1, <4>2 DEF DayTyped
      <4>4. DOMAIN pos[q] = {"state", "qty", "pnl", "day", "via"}
        BY <4>1 DEF DayTyped
      <4>5. /\ pos'[q].state = "open" /\ pos'[q].qty = t.fixes[2] /\ pos'[q].pnl = pos[q].pnl
            /\ DOMAIN pos'[q] = {"state", "qty", "pnl", "day", "via"}
        BY <4>1, <4>3, <4>4
      <4>6. pos' = [p \in Positions |-> pos'[p]]
        BY <4>2 DEF DayTyped
      <4> QED BY <4>1, <4>3, <4>5, <4>6
    <3> QED BY <3>1, <3>2
  <2>5. \A d : Done(d)' = Done(d)
    BY <2>4, SameClosed
  <2>6. TickHolds(RD!Idle) /\ RD!Idle.pc = "idle"
    BY DEF TickHolds, RD!Idle
  <2>7. JobsTyped' /\ job'["tick"] = RD!Idle /\ job'["boot"] = job["boot"] /\ \A h \in DayHandlers : job'[h] = job[h]
    BY <2>1, <2>6, TickMoves
  <2>8. /\ row' = [d \in 0..MaxDay |-> row'[d]] /\ row'[t.day] = r
        /\ \A d \in 0..MaxDay : d # t.day => row'[d] = row[d]
    BY <2>1, <2>2 DEF DayTyped
  <2> HIDE DEF r
  <2>9. DayTyped'
    <3>1. \A d \in 0..MaxDay : row'[d] = None \/ IsRow(row'[d])
      BY <2>3, <2>8 DEF DayTyped
    <3>2. \A p \in Positions : /\ DOMAIN pos'[p] = {"state", "qty", "pnl", "day", "via"}
                               /\ pos'[p].qty \in 0..2 /\ pos'[p].state \in {"none", "open", "closed"}
                               /\ pos'[p].pnl \in Int
      BY <2>4 DEF DayTyped
    <3> QED BY <2>1, <2>4, <2>8, <3>1, <3>2 DEF DayTyped
  <2>10. Alone' /\ \A h \in DayHandlers : job[h].pc = "idle"
    BY <2>1, <2>6, <2>7 DEF Alone
  <2>11. DayBooked'
    <3>1. ASSUME crashes = 0, NEW d \in 0..MaxDay PROVE RD!Loaded(row'[d]).trades >= Done(d)
      <4>1. CASE d = t.day
        BY <2>1, <2>3, <2>8, <3>1, <4>1, LoadedIs DEF DayBooked
      <4>2. CASE d # t.day
        BY <2>8, <2>10, <3>1, <4>2 DEF DayBooked, Pending
      <4> QED BY <4>1, <4>2
    <3> QED BY <2>1, <2>5, <2>6, <2>7, <2>10, <3>1 DEF DayBooked
  <2> QED BY <2>7, <2>9, <2>10, <2>11
<1>10. ASSUME RD!Crash
       PROVE  DayInv' /\ job'["boot"].pc = "sweep"
  <2>1. /\ job' = [w \in RD!Writers |-> IF w = "boot" THEN [pc |-> "sweep"] ELSE RD!Idle]
        /\ crashes' \in 1..MaxCrashes /\ up' = FALSE /\ UNCHANGED <<day, pos, closed, row, admitted>>
    BY <1>10, DayConstants DEF RD!Crash, DayTyped
  <2>2. job'["boot"].pc = "sweep" /\ job'["tick"] = RD!Idle /\ \A h \in DayHandlers : job'[h] = RD!Idle
    BY <2>1, WriterNames
  <2>3. RD!Idle.pc = "idle"
    BY DEF RD!Idle
  <2>4. DayTyped'
    BY <2>1, DayConstants DEF DayTyped
  <2>5. JobsTyped'
    <3>1. job' = [w \in RD!Writers |-> job'[w]]
      BY <2>1
    <3> QED BY <2>1, <2>2, <2>3, <3>1 DEF JobsTyped, HandlerHolds, TickHolds, BootHolds
  <2>6. Alone' /\ DayBooked'
    BY <2>1, <2>2, <2>3 DEF Alone, DayBooked
  <2> QED BY <2>2, <2>4, <2>5, <2>6
<1>11. ASSUME RD!BootRead
       PROVE  DayInv' /\ job'["boot"].pc = "set"
  <2> DEFINE j == [pc |-> "set", exposure |-> RD!RebuiltExposure, today |-> RD!Loaded(row[day]), day |-> day]
  <2>1. /\ job["boot"].pc = "sweep" /\ job["tick"].pc = "idle" /\ job' = [job EXCEPT !["boot"] = j]
        /\ UNCHANGED <<day, pos, closed, row, up, crashes, admitted>>
    BY <1>11 DEF RD!BootRead
  <2>2. RD!RebuiltExposure = RD!FindLiveRiskAggregates /\ RD!FindLiveRiskAggregates \in Nat
    BY LiveSum DEF RD!RebuiltExposure, RD!FindLiveRiskAggregates
  <2>3. day \in 0..MaxDay /\ IsRow(RD!Loaded(row[day]))
    BY LoadedRow DEF DayTyped
  <2>4. BootHolds(j) /\ j.pc = "set" /\ j.exposure = RD!FindLiveRiskAggregates
    BY <2>2, <2>3 DEF BootHolds
  <2> HIDE DEF j
  <2>5. JobsTyped' /\ job'["boot"] = j /\ job'["tick"] = job["tick"] /\ \A h \in DayHandlers : job'[h] = job[h]
    BY <2>1, <2>4, BootMoves DEF JobsTyped
  <2>6. RD!FindLiveRiskAggregates' = RD!FindLiveRiskAggregates /\ \A d : Done(d)' = Done(d)
    BY <2>1, SamePositions
  <2>7. Alone'
    BY <2>1, <2>4, <2>5, <2>6 DEF Alone
  <2>8. DayTyped'
    BY <2>1 DEF DayTyped
  <2>9. DayInv'
    BY <2>1, <2>5, <2>6, <2>7, <2>8, NothingWritten DEF DayBooked
  <2> QED BY <2>4, <2>5, <2>9
<1>12. ASSUME RD!SetOpenExposureFromBoot
       PROVE  DayInv' /\ row'[job["boot"].day].exposure = RD!FindLiveRiskAggregates
  <2> DEFINE j == job["boot"]
             d == j.day
             r == [j.today EXCEPT !.exposure = j.exposure]
             k == [pc |-> "open", day |-> d]
  <2>1. /\ j.pc = "set" /\ row' = [row EXCEPT ![d] = r] /\ job' = [job EXCEPT !["boot"] = k]
        /\ UNCHANGED <<day, pos, closed, up, crashes, admitted>>
    BY <1>12 DEF RD!SetOpenExposureFromBoot
  <2>2. d \in 0..MaxDay /\ IsRow(j.today) /\ j.exposure \in Nat /\ j.exposure = RD!FindLiveRiskAggregates /\ crashes # 0
    BY <2>1 DEF JobsTyped, BootHolds, Alone
  <2>3. 0 \in 0..Cardinality(Positions) /\ 0 \in Int /\ TRUE \in BOOLEAN
    BY DayConstants
  <2>4. IsRow(r) /\ r.exposure = j.exposure
    BY <2>2, <2>3, RowEdits
  <2>5. BootHolds(k) /\ k.pc = "open"
    BY DEF BootHolds
  <2> HIDE DEF r, k
  <2>6. JobsTyped' /\ job'["boot"] = k /\ job'["tick"] = job["tick"] /\ \A h \in DayHandlers : job'[h] = job[h]
    BY <2>1, <2>2, <2>5, BootMoves DEF JobsTyped
  <2>7. Alone'
    BY <2>5, <2>6 DEF Alone
  <2>8. DayTyped' /\ row'[d] = r
    BY <2>1, <2>2, <2>4, RowSet
  <2>9. DayBooked'
    BY <2>1, <2>2 DEF DayBooked
  <2> QED BY <2>2, <2>4, <2>6, <2>7, <2>8, <2>9
<1>13. ASSUME RD!MarkRecoveryComplete
       PROVE  DayInv' /\ job["boot"].pc = "open"
  <2>1. /\ job["boot"].pc = "open" /\ up' = TRUE /\ job' = [job EXCEPT !["boot"] = RD!Idle]
        /\ UNCHANGED <<day, pos, closed, row, crashes, admitted>>
    BY <1>13 DEF RD!MarkRecoveryComplete
  <2>2. BootHolds(RD!Idle) /\ RD!Idle.pc = "idle"
    BY DEF BootHolds, RD!Idle
  <2>3. JobsTyped' /\ job'["boot"] = RD!Idle /\ job'["tick"] = job["tick"] /\ \A h \in DayHandlers : job'[h] = job[h]
    BY <2>1, <2>2, BootMoves
  <2>4. Alone'
    BY <2>2, <2>3 DEF Alone
  <2>5. DayTyped'
    BY <2>1 DEF DayTyped
  <2>6. \A d : Done(d)' = Done(d)
    BY <2>1, SamePositions
  <2>7. DayInv'
    BY <2>1, <2>3, <2>4, <2>5, <2>6, NothingWritten DEF DayBooked
  <2> QED BY <2>1, <2>7
<1>14. ASSUME RD!Midnight
       PROVE  DayInv' /\ job'["boot"] = job["boot"]
  <2>1. day' \in 0..MaxDay /\ UNCHANGED <<pos, closed, row, job, up, crashes, admitted>>
    BY <1>14, DayConstants DEF RD!Midnight, DayTyped
  <2>2. RD!FindLiveRiskAggregates' = RD!FindLiveRiskAggregates /\ \A d : Done(d)' = Done(d)
    BY <2>1, SamePositions
  <2>3. DayTyped'
    BY <2>1 DEF DayTyped
  <2>4. JobsTyped' /\ Alone'
    BY <2>1, <2>2 DEF JobsTyped, Alone
  <2>5. DayBooked'
    BY <2>1, <2>2 DEF DayBooked, Pending
  <2> QED BY <2>1, <2>3, <2>4, <2>5
<1> QED BY <1>1, <1>2, <1>3, <1>4, <1>5, <1>6, <1>7, <1>8, <1>9, <1>10, <1>11, <1>12, <1>13, <1>14 DEF RD!Next

LEMMA DayQuiet ==
    ASSUME DayInv, UNCHANGED RD!vars
    PROVE  DayInv' /\ RD!OpensExact
<1> USE DEF DayInv
<1>1. UNCHANGED <<day, pos, closed, row, job, up, crashes, admitted>>
  BY DEF RD!vars
<1>2. RD!FindLiveRiskAggregates' = RD!FindLiveRiskAggregates /\ \A d : Done(d)' = Done(d)
  BY <1>1, SamePositions
<1>3. DayTyped' /\ JobsTyped'
  BY <1>1 DEF DayTyped, JobsTyped
<1>4. Alone' /\ DayBooked'
  BY <1>1, <1>2 DEF Alone, DayBooked, Pending
<1>5. RD!OpensExact
  BY <1>1 DEF RD!OpensExact
<1> QED BY <1>3, <1>4, <1>5

DayPart == part = "day" => DayInv

LEMMA DayInitial == Init => DayPart
BY DayInit DEF Init, DayPart

LEMMA DayStays == DayPart /\ [Next]_vars => DayPart'
<1> SUFFICES ASSUME DayPart, [Next]_vars, part' = "day" PROVE DayInv'
  BY DEF DayPart
<1>1. CASE Next
  <2>1. part = "day" /\ RD!Next
    BY <1>1 DEF Next
  <2> QED BY <2>1, DayStep DEF DayPart
<1>2. CASE UNCHANGED vars
  <2>1. part = "day" /\ UNCHANGED RD!vars
    BY <1>2 DEF vars
  <2> QED BY <2>1, DayQuiet DEF DayPart
<1> QED BY <1>1, <1>2

\* While recomputes do not overlap, once the writers are done every close that the executor made today
\* is in the row the daily loss limit is read from; a reconciliation tick that writes the whole row
\* back loses none (RiskStateLifecycleListener, RiskStateRepository, ReconciliationService).
THEOREM ClosesAreBooked == Spec => []ClosesBooked
<1>1. ASSUME DayPart PROVE ClosesBooked
  <2> SUFFICES ASSUME part = "day", DayInv PROVE RD!TypeOK /\ RD!ExecutorClosesBooked
    BY <1>1 DEF DayPart, ClosesBooked
  <2>1. RD!TypeOK
    <3>1. \A d \in 0..MaxDay : IsRow(row[d]) => row[d].exposure \in Nat /\ row[d].trades \in 0..Cardinality(Positions)
      <4>1. 0 \in 0..Cardinality(Positions) /\ 0 \in Int /\ 0 \in Nat /\ TRUE \in BOOLEAN
        BY DayConstants
      <4> QED BY <4>1, RowEdits, Zenon
    <3>2. RD!Cardinality(Positions) = Cardinality(Positions)
      BY DayConstants
    <3> QED BY <3>1, <3>2 DEF DayInv, DayTyped, RD!TypeOK
  <2>2. RD!ExecutorClosesBooked
    <3> SUFFICES ASSUME RD!Quiet, crashes = 0
                 PROVE  RD!Loaded(row[day]).trades >= RD!Cardinality(ExecOn(day))
      BY DEF RD!ExecutorClosesBooked, ExecOn
    <3>1. ~Pending(day)
      BY WriterNames DEF RD!Quiet, Pending
    <3> QED BY <3>1, DayConstants DEF DayInv, DayTyped, DayBooked, Done
  <2> QED BY <2>1, <2>2
<1> QED BY <1>1, DayInitial, DayStays, PTL DEF Spec

-----------------------------------------------------------------------------
(* The paper account.                                                      *)

LEMMA PaperConstants ==
    /\ Start \in Nat /\ MaxOps \in Nat /\ MaxCrashes \in Nat
    /\ Pnls \subseteq Int /\ Fundings \subseteq Int /\ Marks \subseteq Int
    /\ IsFiniteSet(Coids)
    /\ \A c \in PA!Slots : c # "free"
    /\ PA!Handler \notin Callers /\ PA!Handler \in PA!Slots /\ Callers \subseteq PA!Slots
    /\ None \notin [bal : Int, peak : Int, fund : Int]
<1>1. IsFiniteSet(Coids)
  BY PaperAssumption DEF PA!ConstantsOK, PA!IsFiniteSet, IsFiniteSet
<1> QED BY <1>1, PaperAssumption DEF PA!ConstantsOK, PA!Slots, PA!Handler

\* The funding of the open positions: one is taken out, one is added, one changes.
LEMMA TotalIs == ASSUME NEW f PROVE PA!Total(f) = Weight(f, DOMAIN f)
<1> DEFINE F(g) == g = [s \in SUBSET DOMAIN f |-> IF s = {} THEN 0 ELSE f[AnyOf(s)] + g[s \ {AnyOf(s)}]]
<1>1. PA!Total(f) = (CHOOSE g : F(g))[DOMAIN f]
  BY DEF PA!Total, PA!MapThenSumSet, PA!MapThenFoldSet, AnyOf
<1>2. \A g : F(g) <=> IsSum(f, g, DOMAIN f)
  BY DEF IsSum, SumStep
<1>3. Weight(f, DOMAIN f) = (CHOOSE g : F(g))[DOMAIN f]
  BY DEF Weight, IsSum, SumStep
<1> QED BY <1>1, <1>3

IsAccrual(f) == f = [x \in DOMAIN f |-> f[x]] /\ DOMAIN f \subseteq Coids /\ \A x \in DOMAIN f : f[x] \in Int

LEMMA TotalInt == ASSUME NEW f, IsAccrual(f) PROVE PA!Total(f) \in Int /\ IsFiniteSet(DOMAIN f)
<1>1. IsFiniteSet(DOMAIN f)
  BY PaperConstants, FS_Subset DEF IsAccrual
<1> QED BY <1>1, TotalIs, WeightInt DEF IsAccrual

LEMMA TotalWithout ==
    ASSUME NEW f, IsAccrual(f), NEW z \in DOMAIN f
    PROVE  /\ IsAccrual(PA!Without(f, z)) /\ DOMAIN PA!Without(f, z) = DOMAIN f \ {z}
           /\ PA!Total(f) = f[z] + PA!Total(PA!Without(f, z))
<1> DEFINE g == PA!Without(f, z)
<1>1. g = [y \in DOMAIN f \ {z} |-> f[y]]
  BY DEF PA!Without
<1> HIDE DEF g
<1>2. DOMAIN g = DOMAIN f \ {z} /\ \A y \in DOMAIN g : g[y] = f[y]
  BY <1>1
<1>3. IsAccrual(g)
  BY <1>1, <1>2 DEF IsAccrual
<1>4. Weight(f, DOMAIN f) = f[z] + Weight(f, DOMAIN f \ {z})
  BY TotalInt, WeightTakes DEF IsAccrual
<1>5. Weight(f, DOMAIN g) = Weight(g, DOMAIN g)
  BY <1>2, <1>3, TotalInt, WeightSame
<1> QED BY <1>2, <1>3, <1>4, <1>5, TotalIs DEF g

LEMMA TotalWith ==
    ASSUME NEW f, IsAccrual(f), NEW z \in Coids, z \notin DOMAIN f, NEW a \in Int
    PROVE  /\ IsAccrual(PA!With(f, z, a)) /\ DOMAIN PA!With(f, z, a) = DOMAIN f \cup {z}
           /\ PA!Total(PA!With(f, z, a)) = a + PA!Total(f)
<1> DEFINE g == PA!With(f, z, a)
<1>1. g = [y \in DOMAIN f \union {z} |-> IF y = z THEN a ELSE f[y]]
  BY DEF PA!With
<1> HIDE DEF g
<1>2. DOMAIN g = DOMAIN f \cup {z} /\ g[z] = a /\ \A y \in DOMAIN f : g[y] = f[y]
  BY <1>1
<1>3. IsAccrual(g)
  BY <1>1, <1>2 DEF IsAccrual
<1>4. PA!Without(g, z) = f
  BY <1>2 DEF PA!Without, IsAccrual
<1>5. PA!Total(g) = g[z] + PA!Total(PA!Without(g, z))
  BY <1>2, <1>3, TotalWithout
<1> QED BY <1>2, <1>3, <1>4, <1>5 DEF g

LEMMA TotalRaised ==
    ASSUME NEW f, IsAccrual(f), NEW z \in DOMAIN f, NEW a \in Int
    PROVE  /\ IsAccrual([f EXCEPT ![z] = @ + a]) /\ DOMAIN [f EXCEPT ![z] = @ + a] = DOMAIN f
           /\ PA!Total([f EXCEPT ![z] = @ + a]) = PA!Total(f) + a
<1> DEFINE g == [f EXCEPT ![z] = @ + a]
<1>1. DOMAIN g = DOMAIN f /\ g[z] = f[z] + a /\ \A y \in DOMAIN f : y # z => g[y] = f[y]
  BY DEF IsAccrual
<1>2. g = [x \in DOMAIN g |-> g[x]]
  BY DEF IsAccrual
<1> HIDE DEF g
<1>3. IsAccrual(g)
  BY <1>1, <1>2 DEF IsAccrual
<1>4. PA!Without(g, z) = PA!Without(f, z)
  BY <1>1 DEF PA!Without
<1>5. PA!Total(g) = g[z] + PA!Total(PA!Without(g, z)) /\ PA!Total(f) = f[z] + PA!Total(PA!Without(f, z))
  BY <1>1, <1>3, TotalWithout
<1>6. PA!Total(PA!Without(f, z)) \in Int /\ f[z] \in Int
  <2>1. IsAccrual(PA!Without(f, z))
    BY TotalWithout
  <2>2. f[z] \in Int
    BY DEF IsAccrual
  <2> QED BY <2>1, <2>2, TotalInt
<1> QED BY <1>1, <1>3, <1>4, <1>5, <1>6 DEF g

\* A call is not there, or somewhere in its transaction.  The abort handler's slot holds
\* abort rows only, and nothing before the first trip.
InCall(c, k) ==
    /\ k.op \in IF c = PA!Handler THEN {"abort"} ELSE {"open", "close", "fund", "snapshot"}
    /\ k.pc \in {"waits", "locked", "committed"}
    /\ k.op \in {"open", "close", "fund"} => k.id \in Coids
    /\ k.amount \in Int /\ k.tip \in Nat /\ k.bal \in Int /\ k.peak \in Int
    /\ DOMAIN k = {"op", "id", "amount", "pc", "tip", "bal", "peak"}
CallHolds(c, k) == k = PA!Idle \/ InCall(c, k)

CallsTyped ==
    /\ call = [c \in PA!Slots |-> call[c]]
    /\ \A c \in PA!Slots : CallHolds(c, call[c])
    /\ tripped \in BOOLEAN /\ (~tripped => PA!Free(PA!Handler))

\* The lock names the one call that is past it and not committed; one call at a time is
\* between its commit and its continuation, one is a snapshot.
Exclusive ==
    /\ lock \in PA!Slots \cup {"free"}
    /\ \A c \in PA!Slots : PA!InPhase(c, "locked") <=> lock = c
    /\ \A c, d \in PA!Committed : c = d
Sole == \A c, d \in PA!Slots : ~PA!Free(c) /\ ~PA!Free(d) /\ call[c].op = "snapshot" /\ call[d].op = "snapshot" => c = d

\* The chain is a line, and who holds the lock knows its tip.
Chained ==
    /\ audit \in Seq(Nat) /\ PA!ChainIntact
    /\ \A c \in PA!Slots : PA!InPhase(c, "locked") => call[c].tip = Len(audit)

BooksTyped ==
    /\ rows \subseteq Coids /\ IsAccrual(pos)
    /\ booked \in Int /\ histFund \in Int /\ bal \in Int /\ fund \in Int /\ late \in Int /\ peak \in Nat
    /\ snap = None \/ snap \in [bal : Int, peak : Int, fund : Int]
    /\ unsaved \in BOOLEAN /\ lost \in BOOLEAN
    /\ ops \in 0..MaxOps /\ crashes \in 0..MaxCrashes

ScreenTyped ==
    /\ mark \in Marks \cup {None} /\ timer \in BOOLEAN /\ halted \in BOOLEAN /\ drifted \in BOOLEAN
    /\ view = None \/ view \subseteq Coids

\* A snapshot raises the peak, and a restart finds none below it.
Peaks ==
    /\ PA!RestoredPeak >= peak
    /\ \A c \in PA!Slots :
         (PA!InPhase(c, "locked") \/ PA!InPhase(c, "committed")) /\ call[c].op = "snapshot" => call[c].peak >= peak
    /\ \A c \in PA!Slots : PA!InPhase(c, "committed") /\ call[c].op = "snapshot" => PA!RestoredPeak >= call[c].peak

Opening(c) == PA!InPhase(c, "committed") /\ call[c].op = "open"
Closing(c) == PA!InPhase(c, "committed") /\ call[c].op = "close"

\* What memory lacks is what the one committed call still has to apply.
Cash ==
    ~lost => /\ \A c \in PA!Slots : Closing(c) => bal + call[c].bal = Start + booked
             /\ (\A c \in PA!Slots : ~Closing(c)) => bal = Start + booked
Saved == ~unsaved => IF snap = None THEN booked = 0 ELSE snap.bal = Start + booked
Named ==
    /\ \A c \in PA!Slots : Opening(c) => call[c].id \notin DOMAIN pos /\ rows = DOMAIN pos \cup {call[c].id}
    /\ \A c \in PA!Slots : Closing(c) => call[c].id \in DOMAIN pos /\ rows = DOMAIN pos \ {call[c].id}
    /\ (\A c \in PA!Slots : ~Opening(c) /\ ~Closing(c)) => rows = DOMAIN pos
Funded ==
    crashes = 0 =>
        /\ \A c \in PA!Slots : Closing(c) => fund = histFund + PA!Total(PA!Without(pos, call[c].id)) + late
        /\ (\A c \in PA!Slots : ~Closing(c)) => fund = histFund + PA!Total(pos) + late

PaperInv ==
    /\ BooksTyped /\ ScreenTyped /\ CallsTyped /\ Exclusive /\ Sole /\ Chained /\ Peaks
    /\ Cash /\ Saved /\ Named /\ Funded

LEMMA IdleCall == PA!Idle.op = "none" /\ \A c, k : InCall(c, k) => k # PA!Idle
BY DEF PA!Idle, InCall

LEMMA PaperInit ==
    ASSUME PA!Init
    PROVE  PaperInv
<1> USE PaperConstants
<1>1. \A c \in PA!Slots : PA!Free(c) /\ ~PA!InPhase(c, "locked") /\ ~PA!InPhase(c, "committed")
  BY DEF PA!Init, PA!Free, PA!InPhase
<1>2. DOMAIN pos = {} /\ IsAccrual(pos)
  BY DEF PA!Init, IsAccrual
<1>3. BooksTyped
  <2>1. /\ rows \subseteq Coids /\ snap = None /\ unsaved \in BOOLEAN /\ lost \in BOOLEAN
    BY DEF PA!Init
  <2>2. /\ booked \in Int /\ histFund \in Int /\ bal \in Int /\ fund \in Int /\ late \in Int /\ peak \in Nat
        /\ ops \in 0..MaxOps /\ crashes \in 0..MaxCrashes
    BY DEF PA!Init
  <2> QED BY <1>2, <2>1, <2>2 DEF BooksTyped
<1>4. ScreenTyped
  BY DEF PA!Init, ScreenTyped
<1>5. CallsTyped
  BY <1>1 DEF PA!Init, CallsTyped, CallHolds
<1>6. Exclusive /\ Sole
  BY <1>1 DEF PA!Init, Exclusive, Sole, PA!Committed
<1>7. Chained
  BY <1>1 DEF PA!Init, Chained, PA!ChainIntact
<1>8. Peaks
  BY <1>1 DEF PA!Init, Peaks, PA!RestoredPeak
<1>9. Cash /\ Saved /\ Named
  BY <1>1, <1>2 DEF PA!Init, Cash, Saved, Named, Opening, Closing
<1>10. Funded
  <2>1. Weight(pos, {}) = 0
    BY FS_EmptySet, WeightUnfolds
  <2>2. PA!Total(pos) = 0
    BY <1>2, <2>1, TotalIs
  <2> QED BY <1>1, <2>2 DEF PA!Init, Funded, Closing
<1> QED BY <1>3, <1>4, <1>5, <1>6, <1>7, <1>8, <1>9, <1>10 DEF PaperInv

\* Calls leave, start to wait, or stay.
Frame(d) ==
    \/ call'[d] = call[d]
    \/ PA!InPhase(d, "committed") /\ call'[d] = PA!Idle
    \/ PA!Free(d) /\ InCall(d, call'[d]) /\ call'[d].pc = "waits"

LEMMA FrameStep ==
    ASSUME CallsTyped, Exclusive, Chained, call' = [d \in PA!Slots |-> call'[d]], \A d \in PA!Slots : Frame(d),
           lock' = lock, audit' = audit
    PROVE  /\ \A d \in PA!Slots : CallHolds(d, call'[d]) /\ (PA!InPhase(d, "locked")' <=> PA!InPhase(d, "locked"))
                                  /\ (PA!InPhase(d, "committed")' => PA!InPhase(d, "committed"))
                                  /\ (PA!InPhase(d, "locked")' \/ PA!InPhase(d, "committed")' => call'[d] = call[d])
           /\ Exclusive' /\ Chained'
<1>1. ASSUME NEW d \in PA!Slots
      PROVE  /\ CallHolds(d, call'[d]) /\ (PA!InPhase(d, "locked")' <=> PA!InPhase(d, "locked"))
             /\ (PA!InPhase(d, "committed")' => PA!InPhase(d, "committed"))
             /\ (PA!InPhase(d, "locked")' \/ PA!InPhase(d, "committed")' => call'[d] = call[d])
  BY <1>1, IdleCall DEF Frame, CallsTyped, CallHolds, PA!InPhase, PA!Free
<1>2. Exclusive'
  BY <1>1 DEF Exclusive, PA!Committed
<1>3. Chained'
  BY <1>1 DEF Chained, PA!ChainIntact
<1> QED BY <1>1, <1>2, <1>3

\* Books and calls in between stay as they are.
LEMMA BooksStay ==
    ASSUME Cash, Named, Funded, UNCHANGED <<rows, booked, histFund, pos, bal, fund, crashes, late, lost>>,
           \A d \in PA!Slots : /\ Opening(d)' <=> Opening(d)
                               /\ Closing(d)' <=> Closing(d)
                               /\ Opening(d) \/ Closing(d) => call'[d] = call[d]
    PROVE  Cash' /\ Named' /\ Funded'
<1>1. Cash'
  BY DEF Cash
<1>2. Named'
  BY DEF Named
<1>3. Funded'
  BY DEF Funded
<1> QED BY <1>1, <1>2, <1>3

\* A mutator is called.
LEMMA BeginStep ==
    ASSUME PaperInv, NEW c \in Callers, NEW op \in {"open", "close", "fund", "snapshot"}, NEW id, NEW amount \in Int,
           op # "snapshot" => id \in Coids, PA!Begin(c, op, id, amount),
           op = "snapshot" => \A d \in PA!Slots : ~PA!Free(d) => call[d].op # "snapshot"
    PROVE  PaperInv' /\ peak' = peak
<1> USE PaperConstants DEF PaperInv
<1> DEFINE k == [op |-> op, id |-> id, amount |-> amount, pc |-> "waits", tip |-> 0, bal |-> 0, peak |-> 0]
<1>1. /\ PA!Free(c) /\ ops < MaxOps /\ ops' = ops + 1 /\ call' = [call EXCEPT ![c] = k]
      /\ UNCHANGED <<rows, booked, histFund, audit, snap, lock, pos, bal, fund, peak, mark, timer, tripped, halted,
                     view, drifted, crashes, unsaved, lost, late>>
  BY DEF PA!Begin, PA!db, PA!memory, PA!mtm, PA!recon, PA!history
<1>2. InCall(c, k) /\ k.pc = "waits" /\ k.op = op
  BY DEF InCall
<1> HIDE DEF k
<1>3. call' = [d \in PA!Slots |-> call'[d]] /\ call'[c] = k /\ \A d \in PA!Slots : d # c => call'[d] = call[d]
  BY <1>1 DEF CallsTyped
<1>4. \A d \in PA!Slots : Frame(d)
  BY <1>1, <1>2, <1>3 DEF Frame
<1>5. /\ \A d \in PA!Slots : CallHolds(d, call'[d]) /\ (PA!InPhase(d, "locked")' <=> PA!InPhase(d, "locked"))
                             /\ (PA!InPhase(d, "committed")' => PA!InPhase(d, "committed"))
                             /\ (PA!InPhase(d, "locked")' \/ PA!InPhase(d, "committed")' => call'[d] = call[d])
      /\ Exclusive' /\ Chained'
  BY <1>1, <1>3, <1>4, FrameStep
<1>6. CallsTyped'
  BY <1>1, <1>3, <1>5 DEF CallsTyped, PA!Free
<1>7. Sole'
  BY <1>1, <1>2, <1>3 DEF Sole, PA!Free
<1>8. BooksTyped' /\ ScreenTyped'
  BY <1>1 DEF BooksTyped, ScreenTyped
<1>9. Peaks' /\ Saved'
  BY <1>1, <1>5 DEF Peaks, PA!RestoredPeak, Saved
<1>10. \A d \in PA!Slots : d # c \/ ~PA!InPhase(d, "committed")
  BY <1>1 DEF PA!InPhase
<1>11. \A d \in PA!Slots : /\ Opening(d)' <=> Opening(d)
                           /\ Closing(d)' <=> Closing(d)
                           /\ Opening(d) \/ Closing(d) => call'[d] = call[d]
  BY <1>3, <1>5, <1>10 DEF Opening, Closing, PA!InPhase, PA!Free
<1>12. Cash' /\ Named' /\ Funded'
  BY <1>1, <1>11, BooksStay
<1> QED BY <1>1, <1>5, <1>6, <1>7, <1>8, <1>9, <1>12

LEMMA AcquireStep ==
    ASSUME PaperInv, NEW c \in PA!Slots, PA!AcquireAuditAdvisoryLock(c)
    PROVE  PaperInv' /\ peak' = peak
<1> USE PaperConstants DEF PaperInv
<1>1. /\ PA!InPhase(c, "waits") /\ lock = "free" /\ lock' = c
      /\ call' = [call EXCEPT ![c].pc = "locked", ![c].tip = Len(audit), ![c].bal = bal,
                              ![c].peak = PA!MaxOf(peak, bal + call[c].amount)]
      /\ UNCHANGED <<rows, booked, histFund, audit, snap, pos, bal, fund, peak, mark, timer, tripped, halted,
                     view, drifted, ops, crashes, unsaved, lost, late>>
  BY DEF PA!AcquireAuditAdvisoryLock, PA!LockFree, PA!db, PA!memory, PA!mtm, PA!recon, PA!history
<1>2. InCall(c, call[c]) /\ call[c] # PA!Idle /\ call[c].pc = "waits"
  BY <1>1 DEF CallsTyped, CallHolds, PA!InPhase, PA!Free
<1>3. /\ call' = [d \in PA!Slots |-> call'[d]] /\ \A d \in PA!Slots : d # c => call'[d] = call[d]
  BY <1>1 DEF CallsTyped
<1>4. /\ call'[c].op = call[c].op /\ call'[c].id = call[c].id /\ call'[c].amount = call[c].amount
      /\ call'[c].pc = "locked" /\ call'[c].tip = Len(audit) /\ call'[c].bal = bal
      /\ call'[c].peak = PA!MaxOf(peak, bal + call[c].amount)
      /\ DOMAIN call'[c] = {"op", "id", "amount", "pc", "tip", "bal", "peak"}
  BY <1>1, <1>2 DEF CallsTyped, InCall
<1>5. PA!MaxOf(peak, bal + call[c].amount) \in Int /\ PA!MaxOf(peak, bal + call[c].amount) >= peak
  BY <1>2 DEF PA!MaxOf, InCall, BooksTyped
<1>6. InCall(c, call'[c]) /\ call'[c] # PA!Idle
  <2>1. Len(audit) \in Nat
    BY DEF Chained
  <2>2. InCall(c, call'[c])
    BY <1>2, <1>4, <1>5, <2>1 DEF InCall, BooksTyped
  <2> QED BY <2>2, IdleCall
<1>7. \A d \in PA!Slots : d # c => /\ PA!InPhase(d, "locked")' <=> PA!InPhase(d, "locked")
                                   /\ PA!InPhase(d, "committed")' <=> PA!InPhase(d, "committed")
  BY <1>3 DEF PA!InPhase, PA!Free
<1>8. PA!InPhase(c, "locked")' /\ ~PA!InPhase(c, "committed")' /\ ~PA!InPhase(c, "committed")
  BY <1>1, <1>4, <1>6 DEF PA!InPhase, PA!Free
<1>9. CallsTyped'
  BY <1>1, <1>3, <1>6, <1>2 DEF CallsTyped, CallHolds, PA!Free
<1>10. Exclusive'
  BY <1>1, <1>7, <1>8 DEF Exclusive, PA!Committed
<1>11. Sole'
  BY <1>2, <1>3, <1>4, <1>6 DEF Sole, PA!Free
<1>12. Chained'
  <2>1. \A d \in PA!Slots : d # c => ~PA!InPhase(d, "locked")
    BY <1>1 DEF Exclusive
  <2> QED BY <1>1, <1>4, <1>7, <2>1 DEF Chained, PA!ChainIntact
<1>13. BooksTyped' /\ ScreenTyped'
  BY <1>1 DEF BooksTyped, ScreenTyped
<1>14. Peaks' /\ Saved'
  BY <1>1, <1>3, <1>4, <1>5, <1>7, <1>8 DEF Peaks, PA!RestoredPeak, Saved
<1>15. \A d \in PA!Slots : /\ Opening(d)' <=> Opening(d)
                           /\ Closing(d)' <=> Closing(d)
                           /\ Opening(d) \/ Closing(d) => call'[d] = call[d]
  BY <1>3, <1>7, <1>8 DEF Opening, Closing
<1>16. Cash' /\ Named' /\ Funded'
  BY <1>1, <1>15, BooksStay
<1> QED BY <1>1, <1>9, <1>10, <1>11, <1>12, <1>13, <1>14, <1>16

\* A transaction ends without a commit.
LEMMA LeaveStep ==
    ASSUME PaperInv, NEW c \in PA!Slots, PA!InPhase(c, "locked"), PA!Release(c, "done"),
           UNCHANGED <<rows, booked, histFund, audit, snap, pos, bal, fund, peak, mark, timer, tripped, halted,
                       view, drifted, ops, crashes, unsaved, lost, late>>
    PROVE  PaperInv' /\ peak' = peak
<1> USE PaperConstants DEF PaperInv
<1>1. lock = c /\ lock' = "free" /\ call' = [call EXCEPT ![c] = PA!Idle]
  BY DEF PA!Release, Exclusive
<1>2. /\ call' = [d \in PA!Slots |-> call'[d]] /\ call'[c] = PA!Idle
      /\ \A d \in PA!Slots : d # c => call'[d] = call[d]
  BY <1>1 DEF CallsTyped
<1>3. \A d \in PA!Slots : d # c => /\ PA!InPhase(d, "locked")' <=> PA!InPhase(d, "locked")
                                   /\ PA!InPhase(d, "committed")' <=> PA!InPhase(d, "committed")
  BY <1>2 DEF PA!InPhase, PA!Free
<1>4. ~PA!InPhase(c, "locked")' /\ ~PA!InPhase(c, "committed")' /\ ~PA!InPhase(c, "committed")
  BY <1>2 DEF PA!InPhase, PA!Free
<1>5. CallsTyped'
  BY <1>1, <1>2 DEF CallsTyped, CallHolds, PA!Free
<1>6. Exclusive'
  BY <1>1, <1>3, <1>4 DEF Exclusive, PA!Committed
<1>7. Sole'
  BY <1>2 DEF Sole, PA!Free
<1>8. Chained'
  BY <1>2, <1>3, <1>4 DEF Chained, PA!ChainIntact
<1>9. BooksTyped' /\ ScreenTyped'
  BY DEF BooksTyped, ScreenTyped
<1>10. Peaks' /\ Saved'
  BY <1>2, <1>3, <1>4 DEF Peaks, PA!RestoredPeak, Saved
<1>11. \A d \in PA!Slots : /\ Opening(d)' <=> Opening(d)
                           /\ Closing(d)' <=> Closing(d)
                           /\ Opening(d) \/ Closing(d) => call'[d] = call[d]
  BY <1>2, <1>3, <1>4 DEF Opening, Closing
<1>12. Cash' /\ Named' /\ Funded'
  BY <1>11, BooksStay
<1> QED BY <1>5, <1>6, <1>7, <1>8, <1>9, <1>10, <1>12

\* A transaction commits and chains its audit row; nobody else is in between.
LEMMA CommitStep ==
    ASSUME PaperInv, NEW c \in PA!Slots, PA!Answered(c), PA!AppendAuditRow(c), lock' = "free", tripped' = tripped,
           call' = [d \in PA!Slots |-> call'[d]], \A d \in PA!Slots : d # c => call'[d] = call[d],
           InCall(c, call'[c]), call'[c].pc = "committed", call'[c].op = call[c].op, call'[c].id = call[c].id
    PROVE  /\ CallsTyped' /\ Exclusive' /\ Sole' /\ Chained' /\ InCall(c, call[c])
           /\ \A d \in PA!Slots : ~PA!InPhase(d, "locked")' /\ ~Opening(d) /\ ~Closing(d)
           /\ \A d \in PA!Slots : /\ PA!InPhase(d, "committed")' <=> d = c
                                  /\ Opening(d)' <=> d = c /\ call[c].op = "open"
                                  /\ Closing(d)' <=> d = c /\ call[c].op = "close"
<1> USE PaperConstants DEF PaperInv
<1>1. PA!InPhase(c, "locked") /\ lock = c /\ audit' = Append(audit, call[c].tip) /\ call[c].tip = Len(audit)
      /\ \A d \in PA!Slots : ~PA!InPhase(d, "committed")
  BY DEF PA!Answered, PA!AppendAuditRow, PA!Committed, Exclusive, Chained
<1>2. InCall(c, call[c]) /\ ~PA!Free(c) /\ ~PA!Free(c)'
  BY <1>1, IdleCall DEF CallsTyped, CallHolds, PA!InPhase, PA!Free
<1>3. \A d \in PA!Slots : d # c => /\ PA!InPhase(d, "locked")' <=> PA!InPhase(d, "locked")
                                   /\ PA!InPhase(d, "committed")' <=> PA!InPhase(d, "committed")
                                   /\ PA!Free(d)' <=> PA!Free(d)
  BY DEF PA!InPhase, PA!Free
<1>4. PA!InPhase(c, "committed")' /\ ~PA!InPhase(c, "locked")'
  BY <1>2 DEF PA!InPhase
<1>5. \A d \in PA!Slots : ~PA!InPhase(d, "locked")' /\ ~Opening(d) /\ ~Closing(d)
  BY <1>1, <1>3, <1>4 DEF Exclusive, Opening, Closing
<1>6. \A d \in PA!Slots : /\ PA!InPhase(d, "committed")' <=> d = c
                          /\ Opening(d)' <=> d = c /\ call[c].op = "open"
                          /\ Closing(d)' <=> d = c /\ call[c].op = "close"
  BY <1>1, <1>3, <1>4 DEF Opening, Closing
<1>7. CallsTyped'
  BY <1>2, <1>3 DEF CallsTyped, CallHolds
<1>8. Exclusive'
  BY <1>5, <1>6 DEF Exclusive, PA!Committed
<1>9. Sole'
  BY <1>2, <1>3 DEF Sole
<1>10. Chained'
  <2>1. audit' \in Seq(Nat) /\ Len(audit') = Len(audit) + 1 /\ audit'[Len(audit) + 1] = Len(audit)
        /\ \A i \in 1..Len(audit) : audit'[i] = audit[i]
    BY <1>1 DEF Chained
  <2>2. \A i \in 1..Len(audit') : audit'[i] = i - 1
    <3>1. Len(audit) \in Nat
      BY DEF Chained
    <3> SUFFICES ASSUME NEW i \in 1..Len(audit') PROVE audit'[i] = i - 1
      OBVIOUS
    <3>2. CASE i \in 1..Len(audit)
      BY <2>1, <3>2 DEF Chained, PA!ChainIntact
    <3>3. CASE i = Len(audit) + 1
      BY <2>1, <3>1, <3>3
    <3> QED BY <2>1, <3>1, <3>2, <3>3
  <2> QED BY <1>5, <2>1, <2>2 DEF Chained, PA!ChainIntact
<1> QED BY <1>2, <1>5, <1>6, <1>7, <1>8, <1>9, <1>10

\* Release with a commit only moves the phase.
LEMMA ReleaseCommitted ==
    ASSUME PaperInv, NEW c \in PA!Slots, PA!InPhase(c, "locked"), PA!Release(c, "committed")
    PROVE  /\ lock' = "free" /\ call' = [d \in PA!Slots |-> call'[d]]
           /\ \A d \in PA!Slots : d # c => call'[d] = call[d]
           /\ InCall(c, call'[c]) /\ call'[c].pc = "committed" /\ call'[c].op = call[c].op
           /\ call'[c].id = call[c].id /\ call'[c].bal = call[c].bal /\ call'[c].peak = call[c].peak
<1> USE DEF PaperInv
<1>1. lock = c /\ lock' = "free" /\ call' = [call EXCEPT ![c] = [call[c] EXCEPT !.pc = "committed"]]
  BY DEF PA!Release, Exclusive
<1>2. InCall(c, call[c])
  BY DEF CallsTyped, CallHolds, PA!InPhase, PA!Free
<1>3. /\ call' = [d \in PA!Slots |-> call'[d]] /\ call'[c] = [call[c] EXCEPT !.pc = "committed"]
      /\ \A d \in PA!Slots : d # c => call'[d] = call[d]
  BY <1>1 DEF CallsTyped
<1>4. InCall(c, call'[c])
  BY <1>2, <1>3 DEF InCall
<1> QED BY <1>1, <1>2, <1>3, <1>4 DEF InCall

LEMMA CommitOpenStep ==
    ASSUME PaperInv, NEW c \in PA!Slots, PA!CommitOpen(c)
    PROVE  PaperInv' /\ peak' = peak
<1> USE PaperConstants DEF PaperInv
<1>1. /\ PA!Answered(c) /\ call[c].op = "open" /\ PA!InPhase(c, "locked")
      /\ UNCHANGED <<booked, histFund, snap, pos, bal, fund, peak, mark, timer, tripped, halted,
                     view, drifted, ops, crashes, unsaved, lost, late>>
  BY DEF PA!CommitOpen, PA!Answered, PA!memory, PA!mtm, PA!recon, PA!history
<1>2. CASE call[c].id \in rows
  BY <1>1, <1>2, LeaveStep DEF PA!CommitOpen
<1>3. CASE call[c].id \notin rows
  <2>1. PA!Release(c, "committed") /\ PA!AppendAuditRow(c) /\ rows' = rows \cup {call[c].id}
    BY <1>3 DEF PA!CommitOpen
  <2>2. /\ lock' = "free" /\ call' = [d \in PA!Slots |-> call'[d]]
        /\ \A d \in PA!Slots : d # c => call'[d] = call[d]
        /\ InCall(c, call'[c]) /\ call'[c].pc = "committed" /\ call'[c].op = call[c].op
        /\ call'[c].id = call[c].id
    BY <1>1, <2>1, ReleaseCommitted
  <2>3. /\ CallsTyped' /\ Exclusive' /\ Sole' /\ Chained' /\ InCall(c, call[c])
        /\ \A d \in PA!Slots : ~PA!InPhase(d, "locked")' /\ ~Opening(d) /\ ~Closing(d)
        /\ \A d \in PA!Slots : /\ PA!InPhase(d, "committed")' <=> d = c
                               /\ Opening(d)' <=> d = c /\ call[c].op = "open"
                               /\ Closing(d)' <=> d = c /\ call[c].op = "close"
    BY <1>1, <2>1, <2>2, CommitStep
  <2>4. call[c].id \in Coids /\ rows = DOMAIN pos
    BY <1>1, <2>3 DEF InCall, Named
  <2>5. BooksTyped' /\ ScreenTyped'
    BY <1>1, <2>1, <2>4 DEF BooksTyped, ScreenTyped
  <2>6. Peaks' /\ Saved'
    BY <1>1, <2>2, <2>3 DEF Peaks, PA!RestoredPeak, Saved
  <2>7. Cash' /\ Funded'
    BY <1>1, <2>3 DEF Cash, Funded
  <2>8. Named'
    BY <1>1, <1>3, <2>1, <2>2, <2>3, <2>4 DEF Named
  <2> QED BY <1>1, <2>3, <2>5, <2>6, <2>7, <2>8
<1> QED BY <1>2, <1>3

LEMMA CommitCloseStep ==
    ASSUME PaperInv, NEW c \in PA!Slots, PA!CommitClose(c)
    PROVE  PaperInv' /\ peak' = peak
<1> USE PaperConstants DEF PaperInv
<1>1. /\ PA!Answered(c) /\ call[c].op = "close" /\ PA!InPhase(c, "locked")
      /\ UNCHANGED <<pos, bal, fund, peak, mark, timer, tripped, halted, view, drifted, ops, crashes, lost, late>>
  BY DEF PA!CommitClose, PA!Answered, PA!memory, PA!mtm, PA!recon
<1>2. CASE call[c].id \notin rows
  BY <1>1, <1>2, LeaveStep DEF PA!CommitClose, PA!db
<1>3. CASE call[c].id \in rows
  <2> DEFINE f == PA!ClosedFunding(call[c].id)
             x == call[c].amount
  <2>1. /\ lock' = "free" /\ call' = [call EXCEPT ![c].pc = "committed", ![c].bal = x + f]
        /\ PA!AppendAuditRow(c) /\ rows' = rows \ {call[c].id} /\ booked' = booked + x + f /\ histFund' = histFund + f
        /\ unsaved' = TRUE /\ snap' = snap
    BY <1>3 DEF PA!CommitClose, PA!CashDelta
  <2>2. InCall(c, call[c])
    BY <1>1 DEF CallsTyped, CallHolds, PA!InPhase, PA!Free
  <2>3. call' = [d \in PA!Slots |-> call'[d]] /\ \A d \in PA!Slots : d # c => call'[d] = call[d]
    BY <2>1 DEF CallsTyped
  <2>4. /\ call'[c].op = call[c].op /\ call'[c].id = call[c].id /\ call'[c].amount = call[c].amount
        /\ call'[c].pc = "committed" /\ call'[c].tip = call[c].tip /\ call'[c].bal = x + f
        /\ call'[c].peak = call[c].peak
        /\ DOMAIN call'[c] = {"op", "id", "amount", "pc", "tip", "bal", "peak"}
    BY <2>1, <2>2 DEF CallsTyped, InCall
  <2>5. \A d \in PA!Slots : ~Opening(d) /\ ~Closing(d)
    BY <1>1 DEF PA!Answered, PA!Committed, Opening, Closing
  <2>6. rows = DOMAIN pos /\ call[c].id \in DOMAIN pos /\ f = pos[call[c].id] /\ f \in Int /\ x \in Int
    BY <1>3, <2>2, <2>5 DEF Named, PA!ClosedFunding, BooksTyped, IsAccrual, InCall
  <2> HIDE DEF f
  <2>7. InCall(c, call'[c])
    BY <2>2, <2>4, <2>6 DEF InCall
  <2>8. /\ CallsTyped' /\ Exclusive' /\ Sole' /\ Chained'
        /\ \A d \in PA!Slots : ~PA!InPhase(d, "locked")' /\ ~Opening(d) /\ ~Closing(d)
        /\ \A d \in PA!Slots : /\ PA!InPhase(d, "committed")' <=> d = c
                               /\ Opening(d)' <=> d = c /\ call[c].op = "open"
                               /\ Closing(d)' <=> d = c /\ call[c].op = "close"
    BY <1>1, <2>1, <2>3, <2>4, <2>7, CommitStep
  <2>9. BooksTyped'
    BY <1>1, <2>1, <2>6 DEF BooksTyped
  <2>10. ScreenTyped'
    BY <1>1 DEF ScreenTyped
  <2>11. Peaks' /\ Saved'
    BY <1>1, <2>1, <2>3, <2>4, <2>8 DEF Peaks, PA!RestoredPeak, Saved
  <2>12. Cash'
    <3>1. ~lost => bal + (x + f) = Start + booked'
      BY <2>1, <2>5, <2>6 DEF Cash, BooksTyped
    <3> QED BY <1>1, <2>4, <2>8, <3>1 DEF Cash
  <2>13. Named'
    BY <1>1, <2>1, <2>4, <2>6, <2>8 DEF Named
  <2>14. Funded'
    <3>1. /\ PA!Total(pos) = f + PA!Total(PA!Without(pos, call[c].id))
          /\ PA!Total(PA!Without(pos, call[c].id)) \in Int
      BY <2>6, TotalWithout, TotalInt DEF BooksTyped
    <3>2. crashes = 0 => fund = histFund + PA!Total(pos) + late
      BY <2>5 DEF Funded
    <3>3. crashes = 0 => fund = histFund' + PA!Total(PA!Without(pos, call[c].id)) + late
      BY <2>1, <2>6, <3>1, <3>2 DEF BooksTyped
    <3> QED BY <1>1, <2>4, <2>8, <3>3 DEF Funded
  <2> QED BY <1>1, <2>8, <2>9, <2>10, <2>11, <2>12, <2>13, <2>14
<1> QED BY <1>2, <1>3

\* A snapshot, and the rows that only add to the chain.
LEMMA CommitOtherStep ==
    ASSUME PaperInv, NEW c \in PA!Slots, PA!CommitSnapshot(c) \/ PA!CommitAuditOnly(c)
    PROVE  PaperInv' /\ peak' = peak
<1> USE PaperConstants DEF PaperInv
<1>1. /\ PA!Answered(c) /\ call[c].op \in {"snapshot", "fund", "abort"} /\ PA!InPhase(c, "locked")
      /\ PA!Release(c, "committed") /\ PA!AppendAuditRow(c)
      /\ UNCHANGED <<rows, booked, histFund, pos, bal, fund, peak, mark, timer, tripped, halted, view, drifted,
                     ops, crashes, lost, late>>
  BY DEF PA!CommitSnapshot, PA!CommitAuditOnly, PA!Answered, PA!memory, PA!mtm, PA!recon, PA!history
<1>2. /\ lock' = "free" /\ call' = [d \in PA!Slots |-> call'[d]]
      /\ \A d \in PA!Slots : d # c => call'[d] = call[d]
      /\ InCall(c, call'[c]) /\ call'[c].pc = "committed" /\ call'[c].op = call[c].op
      /\ call'[c].id = call[c].id /\ call'[c].bal = call[c].bal /\ call'[c].peak = call[c].peak
  BY <1>1, ReleaseCommitted
<1>3. /\ CallsTyped' /\ Exclusive' /\ Sole' /\ Chained' /\ InCall(c, call[c])
      /\ \A d \in PA!Slots : ~PA!InPhase(d, "locked")' /\ ~Opening(d) /\ ~Closing(d)
      /\ \A d \in PA!Slots : /\ PA!InPhase(d, "committed")' <=> d = c
                             /\ Opening(d)' <=> d = c /\ call[c].op = "open"
                             /\ Closing(d)' <=> d = c /\ call[c].op = "close"
  BY <1>1, <1>2, CommitStep
<1>4. Cash' /\ Named' /\ Funded'
  BY <1>1, <1>3, BooksStay
<1>5. ScreenTyped'
  BY <1>1 DEF ScreenTyped
<1>6. BooksTyped' /\ Peaks' /\ Saved'
  <2>1. CASE PA!CommitSnapshot(c)
    <3>1. /\ call[c].op = "snapshot" /\ snap' = [bal |-> call[c].bal, peak |-> call[c].peak, fund |-> fund]
          /\ unsaved' = (call[c].bal # Start + booked)
      BY <2>1 DEF PA!CommitSnapshot
    <3>2. snap' \in [bal : Int, peak : Int, fund : Int] /\ snap' # None
      BY <1>3, <3>1 DEF InCall, BooksTyped
    <3>3. snap'.bal = call[c].bal /\ snap'.peak = call[c].peak
      BY <3>1
    <3>4. BooksTyped'
      BY <1>1, <3>1, <3>2 DEF BooksTyped
    <3>5. call[c].peak >= peak /\ call[c].peak \in Int
      BY <1>1, <1>3, <3>1 DEF Peaks, InCall
    <3>6. PA!RestoredPeak' = PA!MaxOf(call[c].peak, Start)
      BY <3>2, <3>3 DEF PA!RestoredPeak
    <3>7. PA!RestoredPeak' >= peak /\ PA!RestoredPeak' >= call[c].peak
      BY <3>5, <3>6 DEF PA!MaxOf, BooksTyped
    <3>8. Peaks'
      BY <1>1, <1>2, <1>3, <3>5, <3>7 DEF Peaks
    <3>9. Saved'
      BY <1>1, <3>1, <3>2, <3>3 DEF Saved
    <3> QED BY <3>4, <3>8, <3>9
  <2>2. CASE PA!CommitAuditOnly(c)
    <3>1. call[c].op # "snapshot" /\ snap' = snap /\ unsaved' = unsaved
      BY <2>2 DEF PA!CommitAuditOnly, PA!history
    <3>2. BooksTyped' /\ Saved'
      BY <1>1, <3>1 DEF BooksTyped, Saved
    <3>3. Peaks'
      BY <1>1, <1>2, <1>3, <3>1 DEF Peaks, PA!RestoredPeak
    <3> QED BY <3>2, <3>3
  <2> QED BY <2>1, <2>2
<1> QED BY <1>1, <1>3, <1>4, <1>5, <1>6

\* emitMarkToMarketEvent may start the abort handler's call: its slot is free until then.
LEMMA EvaluateStep ==
    ASSUME CallsTyped, NEW b, NEW p, NEW others, PA!Evaluate(b, p, others),
           others = [d \in PA!Slots |-> others[d]], others[PA!Handler] = call[PA!Handler], halted \in BOOLEAN
    PROVE  /\ call' = [d \in PA!Slots |-> call'[d]]
           /\ \A d \in PA!Slots : d # PA!Handler => call'[d] = others[d]
           /\ Frame(PA!Handler) /\ (call'[PA!Handler] = PA!Idle => call'[PA!Handler] = call[PA!Handler])
           /\ (call'[PA!Handler] # call[PA!Handler] => PA!Free(PA!Handler) /\ call'[PA!Handler].op = "abort" /\ call'[PA!Handler].pc = "waits")
           /\ tripped' \in BOOLEAN /\ halted' \in BOOLEAN /\ (~tripped' => PA!Free(PA!Handler)')
<1> USE PaperConstants
<1> DEFINE k == [op |-> "abort", id |-> "account", amount |-> 0, pc |-> "waits", tip |-> 0, bal |-> 0, peak |-> 0]
<1>1. InCall(PA!Handler, k) /\ k.pc = "waits" /\ k.op = "abort" /\ k # PA!Idle
  <2>1. InCall(PA!Handler, k) /\ k.pc = "waits" /\ k.op = "abort"
    BY DEF InCall
  <2> QED BY <2>1, IdleCall
<1>2. \/ ~tripped /\ tripped' = TRUE /\ halted' = TRUE /\ call' = [others EXCEPT ![PA!Handler] = k]
      \/ call' = others /\ UNCHANGED <<tripped, halted>>
  BY DEF PA!Evaluate
<1> HIDE DEF k
<1>3. CASE ~tripped /\ tripped' = TRUE /\ halted' = TRUE /\ call' = [others EXCEPT ![PA!Handler] = k]
  <2>1. PA!Free(PA!Handler)
    BY <1>3 DEF CallsTyped
  <2>2. /\ call' = [d \in PA!Slots |-> call'[d]] /\ call'[PA!Handler] = k
        /\ \A d \in PA!Slots : d # PA!Handler => call'[d] = others[d]
    BY <1>3
  <2> QED BY <1>1, <1>3, <2>1, <2>2 DEF Frame
<1>4. CASE call' = others /\ UNCHANGED <<tripped, halted>>
  BY <1>4 DEF Frame, CallsTyped, PA!Free
<1> QED BY <1>2, <1>3, <1>4

\* Steps in which no transaction moves its lock or its commit, but for one continuation.
LEMMA AfterFrame ==
    ASSUME PaperInv, call' = [d \in PA!Slots |-> call'[d]], \A d \in PA!Slots : Frame(d), lock' = lock, audit' = audit,
           snap' = snap, \A d \in PA!Slots : PA!Free(d) /\ ~PA!Free(d)' => call'[d].op # "snapshot",
           tripped' \in BOOLEAN /\ (~tripped' => PA!Free(PA!Handler)')
    PROVE  /\ CallsTyped' /\ Exclusive' /\ Sole' /\ Chained'
           /\ peak' = peak => Peaks'
           /\ \A d \in PA!Slots : /\ Opening(d)' => Opening(d) /\ call'[d] = call[d]
                                  /\ Closing(d)' => Closing(d) /\ call'[d] = call[d]
                                  /\ (PA!InPhase(d, "locked")' \/ PA!InPhase(d, "committed")' => call'[d] = call[d] /\ ~PA!Free(d)')
<1> USE DEF PaperInv
<1>1. /\ \A d \in PA!Slots : CallHolds(d, call'[d]) /\ (PA!InPhase(d, "locked")' <=> PA!InPhase(d, "locked"))
                             /\ (PA!InPhase(d, "committed")' => PA!InPhase(d, "committed"))
                             /\ (PA!InPhase(d, "locked")' \/ PA!InPhase(d, "committed")' => call'[d] = call[d])
      /\ Exclusive' /\ Chained'
  BY FrameStep
<1>2. CallsTyped'
  BY <1>1 DEF CallsTyped
<1>3. Sole'
  <2>1. \A d \in PA!Slots : ~PA!Free(d)' /\ call'[d].op = "snapshot" => ~PA!Free(d) /\ call'[d] = call[d]
    BY DEF Frame, PA!Free
  <2> QED BY <2>1 DEF Sole
<1>4. ASSUME peak' = peak PROVE Peaks'
  BY <1>1, <1>4 DEF Peaks, PA!RestoredPeak
<1>5. \A d \in PA!Slots : /\ Opening(d)' => Opening(d) /\ call'[d] = call[d]
                          /\ Closing(d)' => Closing(d) /\ call'[d] = call[d]
  BY <1>1 DEF Opening, Closing
<1>6. \A d \in PA!Slots : PA!InPhase(d, "locked")' \/ PA!InPhase(d, "committed")' => ~PA!Free(d)'
  BY DEF PA!InPhase
<1> QED BY <1>1, <1>2, <1>3, <1>4, <1>5, <1>6

\* A continuation: the call that was committed is gone, so nobody is.
LEMMA Continued ==
    ASSUME PaperInv, NEW c \in PA!Slots, PA!InPhase(c, "committed"), call'[c] = PA!Idle,
           \A d \in PA!Slots : d # c => Frame(d)
    PROVE  /\ \A d \in PA!Slots : Frame(d) /\ ~Opening(d)' /\ ~Closing(d)' /\ ~PA!InPhase(d, "committed")'
           /\ \A d \in PA!Slots : d # c => ~Opening(d) /\ ~Closing(d)
<1> USE DEF PaperInv
<1>1. \A d \in PA!Slots : d # c => ~PA!InPhase(d, "committed")
  BY DEF Exclusive, PA!Committed
<1>2. ~PA!InPhase(c, "committed")' /\ Frame(c)
  BY DEF PA!InPhase, PA!Free, Frame
<1>3. \A d \in PA!Slots : d # c => ~PA!InPhase(d, "committed")'
  BY <1>1 DEF Frame, PA!InPhase, PA!Free
<1> QED BY <1>1, <1>2, <1>3 DEF Opening, Closing

LEMMA ApplyOpenStep ==
    ASSUME PaperInv, NEW c \in Callers, PA!ApplyOpen(c)
    PROVE  PaperInv' /\ peak' = peak
<1> USE PaperConstants DEF PaperInv
<1>1. /\ PA!InPhase(c, "committed") /\ call[c].op = "open" /\ Opening(c)
      /\ pos' = PA!With(pos, call[c].id, 0) /\ call' = [call EXCEPT ![c] = PA!Idle]
      /\ UNCHANGED <<rows, booked, histFund, audit, snap, lock, bal, fund, peak, mark, timer, tripped, halted,
                     view, drifted, ops, crashes, unsaved, lost, late>>
  BY DEF PA!ApplyOpen, Opening, PA!db, PA!mtm, PA!recon, PA!history
<1>2. /\ call' = [d \in PA!Slots |-> call'[d]] /\ call'[c] = PA!Idle
      /\ \A d \in PA!Slots : d # c => call'[d] = call[d]
  BY <1>1 DEF CallsTyped
<1>3. \A d \in PA!Slots : d # c => Frame(d)
  BY <1>2 DEF Frame
<1>4. /\ \A d \in PA!Slots : Frame(d) /\ ~Opening(d)' /\ ~Closing(d)' /\ ~PA!InPhase(d, "committed")'
      /\ \A d \in PA!Slots : d # c => ~Opening(d) /\ ~Closing(d)
  BY <1>1, <1>2, <1>3, Continued
<1>5. /\ CallsTyped' /\ Exclusive' /\ Sole' /\ Chained' /\ Peaks'
  <2>1. \A d \in PA!Slots : ~(PA!Free(d) /\ ~PA!Free(d)')
    BY <1>2 DEF PA!Free
  <2>2. tripped' \in BOOLEAN /\ (~tripped' => PA!Free(PA!Handler)')
    BY <1>1, <1>2 DEF CallsTyped, PA!Free
  <2> QED BY <1>1, <1>2, <1>4, <2>1, <2>2, AfterFrame
<1>6. /\ call[c].id \in Coids /\ call[c].id \notin DOMAIN pos /\ rows = DOMAIN pos \cup {call[c].id}
      /\ \A d \in PA!Slots : ~Closing(d)
  BY <1>1, <1>4 DEF Named, CallsTyped, CallHolds, InCall, PA!InPhase, PA!Free, Closing
<1>7. IsAccrual(pos') /\ DOMAIN pos' = rows /\ PA!Total(pos') = PA!Total(pos)
  <2>1. /\ IsAccrual(PA!With(pos, call[c].id, 0)) /\ DOMAIN PA!With(pos, call[c].id, 0) = DOMAIN pos \cup {call[c].id}
        /\ PA!Total(PA!With(pos, call[c].id, 0)) = 0 + PA!Total(pos)
    BY <1>6, TotalWith DEF BooksTyped
  <2> QED BY <1>1, <1>6, <2>1, TotalInt DEF BooksTyped
<1>8. BooksTyped' /\ ScreenTyped'
  BY <1>1, <1>7 DEF BooksTyped, ScreenTyped
<1>9. Saved' /\ Cash'
  BY <1>1, <1>4, <1>6 DEF Saved, Cash
<1>10. Named' /\ Funded'
  BY <1>1, <1>4, <1>6, <1>7 DEF Named, Funded
<1> QED BY <1>1, <1>5, <1>8, <1>9, <1>10

LEMMA ApplyCloseStep ==
    ASSUME PaperInv, NEW c \in Callers, PA!ApplyClose(c)
    PROVE  PaperInv' /\ peak' = peak
<1> USE PaperConstants DEF PaperInv
<1>1. /\ PA!InPhase(c, "committed") /\ call[c].op = "close" /\ Closing(c)
      /\ pos' = PA!Without(pos, call[c].id) /\ bal' = bal + call[c].bal /\ call' = [call EXCEPT ![c] = PA!Idle]
      /\ UNCHANGED <<rows, booked, histFund, audit, snap, lock, fund, peak, mark, timer, tripped, halted,
                     view, drifted, ops, crashes, unsaved, lost, late>>
  BY DEF PA!ApplyClose, Closing, PA!db, PA!mtm, PA!recon, PA!history
<1>2. /\ call' = [d \in PA!Slots |-> call'[d]] /\ call'[c] = PA!Idle
      /\ \A d \in PA!Slots : d # c => call'[d] = call[d]
  BY <1>1 DEF CallsTyped
<1>3. \A d \in PA!Slots : d # c => Frame(d)
  BY <1>2 DEF Frame
<1>4. \A d \in PA!Slots : Frame(d) /\ ~Opening(d)' /\ ~Closing(d)' /\ ~PA!InPhase(d, "committed")'
  BY <1>1, <1>2, <1>3, Continued
<1>5. /\ CallsTyped' /\ Exclusive' /\ Sole' /\ Chained' /\ Peaks'
  <2>1. \A d \in PA!Slots : ~(PA!Free(d) /\ ~PA!Free(d)')
    BY <1>2 DEF PA!Free
  <2>2. tripped' \in BOOLEAN /\ (~tripped' => PA!Free(PA!Handler)')
    BY <1>1, <1>2 DEF CallsTyped, PA!Free
  <2> QED BY <1>1, <1>2, <1>4, <2>1, <2>2, AfterFrame
<1>6. call[c].bal \in Int /\ call[c].id \in DOMAIN pos /\ rows = DOMAIN pos \ {call[c].id}
  BY <1>1 DEF Named, CallsTyped, CallHolds, InCall, PA!InPhase, PA!Free
<1>7. IsAccrual(pos') /\ DOMAIN pos' = rows
  BY <1>1, <1>6, TotalWithout DEF BooksTyped
<1>8. BooksTyped' /\ ScreenTyped'
  BY <1>1, <1>6, <1>7 DEF BooksTyped, ScreenTyped
<1>9. Saved' /\ Cash'
  BY <1>1, <1>4 DEF Saved, Cash
<1>10. Named' /\ Funded'
  BY <1>1, <1>4, <1>7 DEF Named, Funded
<1> QED BY <1>1, <1>5, <1>8, <1>9, <1>10

LEMMA ApplyFundStep ==
    ASSUME PaperInv, NEW c \in Callers, PA!ApplyFund(c)
    PROVE  PaperInv' /\ peak' = peak
<1> USE PaperConstants DEF PaperInv
<1> DEFINE others == [call EXCEPT ![c] = PA!Idle]
           a == call[c].amount
           id == call[c].id
<1>1. /\ PA!InPhase(c, "committed") /\ call[c].op = "fund" /\ fund' = fund + a /\ timer' = FALSE
      /\ id \in DOMAIN pos => pos' = [pos EXCEPT ![id] = @ + a] /\ late' = late
      /\ id \notin DOMAIN pos => pos' = pos /\ late' = late + a
      /\ PA!Evaluate(bal, pos', others)
      /\ UNCHANGED <<rows, booked, histFund, audit, snap, lock, bal, peak, mark, view, drifted, ops, crashes, unsaved, lost>>
  BY DEF PA!ApplyFund, PA!db, PA!recon
<1>2. /\ others = [d \in PA!Slots |-> others[d]] /\ others[c] = PA!Idle
      /\ \A d \in PA!Slots : d # c => others[d] = call[d]
  BY DEF CallsTyped
<1> HIDE DEF others
<1>3. /\ call' = [d \in PA!Slots |-> call'[d]]
      /\ \A d \in PA!Slots : d # PA!Handler => call'[d] = others[d]
      /\ Frame(PA!Handler)
      /\ (call'[PA!Handler] # call[PA!Handler] => PA!Free(PA!Handler) /\ call'[PA!Handler].op = "abort" /\ call'[PA!Handler].pc = "waits")
      /\ tripped' \in BOOLEAN /\ halted' \in BOOLEAN /\ (~tripped' => PA!Free(PA!Handler)')
  BY <1>1, <1>2, EvaluateStep DEF ScreenTyped
<1>4. call'[c] = PA!Idle /\ c # PA!Handler /\ \A d \in PA!Slots : d # c => Frame(d)
  BY <1>2, <1>3 DEF Frame
<1>5. /\ \A d \in PA!Slots : Frame(d) /\ ~Opening(d)' /\ ~Closing(d)' /\ ~PA!InPhase(d, "committed")'
      /\ \A d \in PA!Slots : d # c => ~Opening(d) /\ ~Closing(d)
  BY <1>1, <1>4, Continued
<1>6. /\ CallsTyped' /\ Exclusive' /\ Sole' /\ Chained' /\ Peaks'
  <2>1. \A d \in PA!Slots : PA!Free(d) /\ ~PA!Free(d)' => call'[d].op # "snapshot"
    BY <1>2, <1>3, <1>4 DEF PA!Free
  <2> QED BY <1>1, <1>3, <1>5, <2>1, AfterFrame
<1>7. \A d \in PA!Slots : ~Opening(d) /\ ~Closing(d)
  BY <1>1, <1>5 DEF Opening, Closing
<1>8. a \in Int
  BY <1>1 DEF CallsTyped, CallHolds, InCall, PA!InPhase, PA!Free
<1>9. /\ IsAccrual(pos') /\ DOMAIN pos' = DOMAIN pos /\ late' \in Int /\ fund' \in Int
      /\ PA!Total(pos') + late' = PA!Total(pos) + late + a /\ PA!Total(pos) \in Int /\ PA!Total(pos') \in Int
  <2>1. PA!Total(pos) \in Int
    BY TotalInt DEF BooksTyped
  <2>2. CASE id \in DOMAIN pos
    <3>1. IsAccrual(pos') /\ DOMAIN pos' = DOMAIN pos /\ PA!Total(pos') = PA!Total(pos) + a
      BY <1>1, <1>8, <2>2, TotalRaised DEF BooksTyped
    <3> QED BY <1>1, <1>8, <2>1, <2>2, <3>1 DEF BooksTyped
  <2>3. CASE id \notin DOMAIN pos
    BY <1>1, <1>8, <2>1, <2>3 DEF BooksTyped
  <2> QED BY <2>2, <2>3
<1>10. BooksTyped' /\ ScreenTyped'
  BY <1>1, <1>3, <1>9 DEF BooksTyped, ScreenTyped
<1>11. Saved' /\ Cash' /\ Named'
  BY <1>1, <1>5, <1>7, <1>9 DEF Saved, Cash, Named
<1>12. Funded'
  <2>1. crashes = 0 => fund = histFund + PA!Total(pos) + late
    BY <1>7 DEF Funded
  <2>2. crashes = 0 => fund' = histFund + PA!Total(pos') + late'
    BY <1>1, <1>8, <1>9, <2>1 DEF BooksTyped
  <2> QED BY <1>1, <1>5, <2>2 DEF Funded
<1> QED BY <1>1, <1>6, <1>10, <1>11, <1>12

\* The continuation of a snapshot, and of the abort row.
LEMMA ApplyOtherStep ==
    ASSUME PaperInv, NEW c \in PA!Slots,
           (c \in Callers /\ PA!ApplySnapshot(c)) \/ (c = PA!Handler /\ PA!ApplyAbort)
    PROVE  PaperInv' /\ peak' >= peak
<1> USE PaperConstants DEF PaperInv
<1>1. /\ PA!InPhase(c, "committed") /\ call[c].op \in {"snapshot", "abort"} /\ call' = [call EXCEPT ![c] = PA!Idle]
      /\ peak' = peak \/ (peak' = call[c].peak /\ call[c].op = "snapshot")
      /\ UNCHANGED <<rows, booked, histFund, audit, snap, lock, pos, bal, fund, mark, timer, tripped, halted,
                     view, drifted, ops, crashes, unsaved, lost, late>>
  <2>1. CASE c \in Callers /\ PA!ApplySnapshot(c)
    BY <2>1 DEF PA!ApplySnapshot, PA!db, PA!mtm, PA!recon, PA!history
  <2>2. CASE c = PA!Handler /\ PA!ApplyAbort
    <3>1. PA!InPhase(c, "committed")
      BY <2>2 DEF PA!ApplyAbort
    <3>2. call[c].op = "abort"
      BY <2>2, <3>1 DEF CallsTyped, CallHolds, InCall, PA!InPhase, PA!Free
    <3> QED BY <2>2, <3>2 DEF PA!ApplyAbort, PA!memory, PA!db, PA!mtm, PA!recon, PA!history
  <2> QED BY <2>1, <2>2
<1>2. /\ call' = [d \in PA!Slots |-> call'[d]] /\ call'[c] = PA!Idle
      /\ \A d \in PA!Slots : d # c => call'[d] = call[d]
  BY <1>1 DEF CallsTyped
<1>3. \A d \in PA!Slots : d # c => Frame(d)
  BY <1>2 DEF Frame
<1>4. /\ \A d \in PA!Slots : Frame(d) /\ ~Opening(d)' /\ ~Closing(d)' /\ ~PA!InPhase(d, "committed")'
      /\ \A d \in PA!Slots : d # c => ~Opening(d) /\ ~Closing(d)
  BY <1>1, <1>2, <1>3, Continued
<1>5. /\ CallsTyped' /\ Exclusive' /\ Sole' /\ Chained' /\ (peak' = peak => Peaks')
      /\ \A d \in PA!Slots : PA!InPhase(d, "locked")' => call'[d] = call[d] /\ ~PA!Free(d)'
  <2>1. \A d \in PA!Slots : ~(PA!Free(d) /\ ~PA!Free(d)')
    BY <1>2 DEF PA!Free
  <2>2. tripped' \in BOOLEAN /\ (~tripped' => PA!Free(PA!Handler)')
    BY <1>1, <1>2 DEF CallsTyped, PA!Free
  <2> QED BY <1>1, <1>2, <1>4, <2>1, <2>2, AfterFrame
<1>6. \A d \in PA!Slots : ~Opening(d) /\ ~Closing(d)
  BY <1>1, <1>4 DEF Opening, Closing
<1>7. Cash' /\ Named' /\ Funded'
  BY <1>1, <1>4, <1>6, BooksStay
<1>8. peak' \in Nat /\ peak' >= peak
  BY <1>1 DEF Peaks, BooksTyped, CallsTyped, CallHolds, InCall, PA!InPhase, PA!Free
<1>9. BooksTyped' /\ ScreenTyped' /\ Saved'
  BY <1>1, <1>8 DEF BooksTyped, ScreenTyped, Saved
<1>10. Peaks'
  <2>1. CASE peak' = peak
    BY <1>5, <2>1
  <2>2. CASE peak' = call[c].peak /\ call[c].op = "snapshot"
    <3>1. PA!RestoredPeak' >= peak'
      BY <1>1, <2>2 DEF Peaks, PA!RestoredPeak
    <3>2. \A d \in PA!Slots : PA!InPhase(d, "locked")' /\ call'[d].op = "snapshot" => FALSE
      <4> SUFFICES ASSUME NEW d \in PA!Slots, PA!InPhase(d, "locked")', call'[d].op = "snapshot" PROVE FALSE
        OBVIOUS
      <4>1. d # c
        BY <1>2 DEF PA!InPhase, PA!Free
      <4>2. ~PA!Free(d) /\ call[d].op = "snapshot" /\ ~PA!Free(c)
        BY <1>1, <1>2, <4>1 DEF PA!InPhase, PA!Free
      <4> QED BY <2>2, <4>1, <4>2 DEF Sole
    <3> QED BY <1>4, <3>1, <3>2 DEF Peaks
  <2> QED BY <1>1, <2>1, <2>2
<1> QED BY <1>5, <1>7, <1>8, <1>9, <1>10

\* Steps of the screen: marks, the reconciliation pass, the operator.
LEMMA ScreenStep ==
    ASSUME PaperInv, \/ \E m \in Marks : PA!NotifyMarkPrice(m)
                     \/ PA!FlushMtm \/ PA!ReadMemory \/ PA!CompareRows \/ PA!Resume
    PROVE  PaperInv' /\ peak' = peak
<1> USE PaperConstants DEF PaperInv
<1>1. UNCHANGED <<rows, booked, histFund, audit, snap, lock, pos, bal, fund, peak, ops, crashes, unsaved, lost, late>>
  BY DEF PA!NotifyMarkPrice, PA!FlushMtm, PA!ReadMemory, PA!CompareRows, PA!Resume, PA!db, PA!memory, PA!history
<1>2. /\ call' = [d \in PA!Slots |-> call'[d]] /\ ScreenTyped'
      /\ tripped' \in BOOLEAN /\ (~tripped' => PA!Free(PA!Handler)')
      /\ \A d \in PA!Slots : call'[d] = call[d] \/ (Frame(d) /\ PA!Free(d) /\ call'[d].op = "abort" /\ call'[d].pc = "waits")
  <2>1. CASE \E m \in Marks : PA!NotifyMarkPrice(m)
    <3>1. PICK m \in Marks : PA!NotifyMarkPrice(m)
      BY <2>1
    <3>2. call' = call /\ mark' = m /\ timer' = TRUE /\ UNCHANGED <<tripped, halted, view, drifted>>
      BY <3>1 DEF PA!NotifyMarkPrice, PA!recon
    <3> QED BY <3>2 DEF ScreenTyped, CallsTyped, PA!Free
  <2>2. CASE PA!FlushMtm
    <3>1. PA!Evaluate(bal, pos, call) /\ timer' = FALSE /\ UNCHANGED <<mark, view, drifted>>
      BY <2>2 DEF PA!FlushMtm, PA!recon
    <3>2. /\ call' = [d \in PA!Slots |-> call'[d]]
          /\ \A d \in PA!Slots : d # PA!Handler => call'[d] = call[d]
          /\ Frame(PA!Handler)
          /\ (call'[PA!Handler] # call[PA!Handler] =>
                PA!Free(PA!Handler) /\ call'[PA!Handler].op = "abort" /\ call'[PA!Handler].pc = "waits")
          /\ tripped' \in BOOLEAN /\ halted' \in BOOLEAN /\ (~tripped' => PA!Free(PA!Handler)')
      <4>1. call = [d \in PA!Slots |-> call[d]] /\ halted \in BOOLEAN
        BY DEF CallsTyped, ScreenTyped
      <4> QED BY <3>1, <4>1, EvaluateStep
    <3> QED BY <3>1, <3>2 DEF ScreenTyped
  <2>3. CASE PA!ReadMemory
    <3>1. call' = call /\ view' = DOMAIN pos /\ UNCHANGED <<mark, timer, tripped, halted, drifted>>
      BY <2>3 DEF PA!ReadMemory, PA!mtm
    <3> QED BY <3>1 DEF ScreenTyped, CallsTyped, PA!Free, BooksTyped, IsAccrual
  <2>4. CASE PA!CompareRows
    <3>1. call' = call /\ view' = None /\ UNCHANGED <<mark, timer, tripped>>
          /\ ((drifted' = TRUE /\ halted' = TRUE) \/ UNCHANGED <<drifted, halted>>)
      BY <2>4 DEF PA!CompareRows, PA!CriticalAbort, PA!mtm
    <3> QED BY <3>1 DEF ScreenTyped, CallsTyped, PA!Free
  <2>5. CASE PA!Resume
    <3>1. call' = call /\ halted' = FALSE /\ UNCHANGED <<mark, timer, tripped, view, drifted>>
      BY <2>5 DEF PA!Resume, PA!mtm, PA!recon
    <3> QED BY <3>1 DEF ScreenTyped, CallsTyped, PA!Free
  <2> QED BY <2>1, <2>2, <2>3, <2>4, <2>5
<1>3. /\ \A d \in PA!Slots : Frame(d)
      /\ \A d \in PA!Slots : PA!Free(d) /\ ~PA!Free(d)' => call'[d].op # "snapshot"
  BY <1>2 DEF Frame, PA!Free
<1>4. /\ CallsTyped' /\ Exclusive' /\ Sole' /\ Chained' /\ Peaks'
  BY <1>1, <1>2, <1>3, AfterFrame
<1>5. \A d \in PA!Slots : /\ Opening(d)' <=> Opening(d)
                          /\ Closing(d)' <=> Closing(d)
                          /\ Opening(d) \/ Closing(d) => call'[d] = call[d]
  BY <1>2 DEF Opening, Closing, PA!InPhase, PA!Free
<1>6. Cash' /\ Named' /\ Funded'
  BY <1>1, <1>5, BooksStay
<1>7. BooksTyped' /\ Saved'
  BY <1>1 DEF BooksTyped, Saved
<1> QED BY <1>1, <1>2, <1>4, <1>6, <1>7

LEMMA RestoreStep ==
    ASSUME PaperInv, PA!RestoreFromPersisted
    PROVE  PaperInv' /\ peak' >= peak
<1> USE PaperConstants DEF PaperInv
<1>1. /\ crashes < MaxCrashes /\ crashes' = crashes + 1 /\ pos' = [id \in rows |-> 0]
      /\ bal' = (IF snap = None THEN Start ELSE snap.bal) /\ fund' = (IF snap = None THEN 0 ELSE snap.fund)
      /\ peak' = PA!RestoredPeak /\ lost' = (lost \/ unsaved)
      /\ lock' = "free" /\ call' = [c \in PA!Slots |-> PA!Idle]
      /\ mark' = None /\ timer' = FALSE /\ tripped' = FALSE /\ halted' = FALSE /\ view' = None /\ drifted' = FALSE
      /\ UNCHANGED <<rows, booked, histFund, audit, snap, ops, unsaved, late>>
  BY DEF PA!RestoreFromPersisted, PA!db
<1>2. \A c \in PA!Slots : PA!Free(c)' /\ ~PA!InPhase(c, "locked")' /\ ~PA!InPhase(c, "committed")'
  BY <1>1 DEF PA!Free, PA!InPhase
<1>3. DOMAIN pos' = rows /\ IsAccrual(pos')
  BY <1>1 DEF IsAccrual, BooksTyped
<1>4. peak' \in Nat /\ peak' >= peak
  BY <1>1 DEF Peaks, PA!RestoredPeak, PA!MaxOf, BooksTyped
<1>5. BooksTyped'
  <2>1. bal' \in Int /\ fund' \in Int
    BY <1>1 DEF BooksTyped
  <2>2. crashes' \in 0..MaxCrashes
    BY <1>1 DEF BooksTyped
  <2>3. lost' \in BOOLEAN
    BY <1>1 DEF BooksTyped
  <2> QED BY <1>1, <1>3, <1>4, <2>1, <2>2, <2>3 DEF BooksTyped
<1>6. ScreenTyped'
  BY <1>1 DEF ScreenTyped
<1>7. CallsTyped'
  BY <1>1, <1>2 DEF CallsTyped, CallHolds
<1>8. Exclusive' /\ Sole'
  BY <1>1, <1>2 DEF Exclusive, Sole, PA!Committed
<1>9. Chained'
  BY <1>1, <1>2 DEF Chained, PA!ChainIntact
<1>10. Peaks'
  <2>1. PA!RestoredPeak' = PA!RestoredPeak
    BY <1>1 DEF PA!RestoredPeak
  <2> QED BY <1>1, <1>2, <1>4, <2>1 DEF Peaks
<1>11. Saved' /\ Named'
  BY <1>1, <1>2, <1>3 DEF Saved, Named, Opening, Closing
<1>12. Cash'
  BY <1>1, <1>2 DEF Cash, Saved, Closing, BooksTyped
<1>13. Funded'
  BY <1>1 DEF Funded, BooksTyped
<1> QED BY <1>4, <1>5, <1>6, <1>7, <1>8, <1>9, <1>10, <1>11, <1>12, <1>13

LEMMA PaperStep ==
    ASSUME PaperInv, PA!Next
    PROVE  PaperInv' /\ peak' >= peak
<1> USE PaperConstants
<1>0. peak \in Nat
  BY DEF PaperInv, BooksTyped
<1>1. ASSUME NEW c \in Callers, NEW id \in Coids,
             PA!OpenPosition(c, id) \/ (\E x \in Pnls : PA!ClosePosition(c, id, x)) \/ (\E a \in Fundings : PA!ApplyFunding(c, id, a))
      PROVE  PaperInv' /\ peak' = peak
  <2>1. PICK op \in {"open", "close", "fund"}, amount \in Int : PA!Begin(c, op, id, amount)
    BY <1>1 DEF PA!OpenPosition, PA!ClosePosition, PA!ApplyFunding
  <2> QED BY <2>1, BeginStep
<1>2. ASSUME NEW c \in Callers, PA!RecordSnapshot(c)
      PROVE  PaperInv' /\ peak' = peak
  <2>1. mark \in Int /\ PA!Cardinality(DOMAIN pos) \in Int
    <3>1. PA!Cardinality(DOMAIN pos) = Cardinality(DOMAIN pos)
      BY DEF PA!Cardinality, Cardinality
    <3>2. Cardinality(DOMAIN pos) \in Nat
      BY TotalInt, FS_CardinalityType DEF PaperInv, BooksTyped
    <3>3. mark \in Marks
      BY <1>2 DEF PA!RecordSnapshot, PaperInv, ScreenTyped
    <3> QED BY <3>1, <3>2, <3>3
  <2>2. mark * PA!Cardinality(DOMAIN pos) \in Int
    BY <2>1
  <2>3. PA!Begin(c, "snapshot", "account", mark * PA!Cardinality(DOMAIN pos))
        /\ \A d \in PA!Slots : ~PA!Free(d) => call[d].op # "snapshot"
    BY <1>2 DEF PA!RecordSnapshot
  <2> QED BY <2>2, <2>3, BeginStep
<1>3. ASSUME NEW c \in PA!Slots, PA!RollBack(c)
      PROVE  PaperInv' /\ peak' = peak
  BY <1>3, LeaveStep DEF PA!RollBack, PA!db, PA!memory, PA!mtm, PA!recon, PA!history
<1>4. ASSUME PA!ApplyAbort PROVE PaperInv' /\ peak' >= peak
  BY <1>4, ApplyOtherStep
<1>5. ASSUME NEW c \in Callers, PA!ApplySnapshot(c) PROVE PaperInv' /\ peak' >= peak
  <2>1. c \in PA!Slots
    OBVIOUS
  <2> QED BY <1>5, <2>1, ApplyOtherStep
<1> QED
  BY <1>0, <1>1, <1>2, <1>3, <1>4, <1>5, AcquireStep, CommitOpenStep, CommitCloseStep, CommitOtherStep,
     ApplyOpenStep, ApplyCloseStep, ApplyFundStep, ScreenStep, RestoreStep DEF PA!Next

LEMMA PaperQuiet ==
    ASSUME PaperInv, UNCHANGED PA!vars
    PROVE  PaperInv' /\ peak' >= peak
<1> USE DEF PaperInv
<1>1. UNCHANGED <<rows, booked, histFund, audit, snap, lock, call, pos, bal, fund, peak,
                  mark, timer, tripped, halted, view, drifted, ops, crashes, unsaved, lost, late>>
  BY DEF PA!vars
<1>2. \A c \in PA!Slots : /\ PA!Free(c)' <=> PA!Free(c)
                          /\ PA!InPhase(c, "locked")' <=> PA!InPhase(c, "locked")
                          /\ PA!InPhase(c, "committed")' <=> PA!InPhase(c, "committed")
  BY <1>1 DEF PA!Free, PA!InPhase
<1>3. BooksTyped' /\ ScreenTyped' /\ peak' >= peak
  BY <1>1 DEF BooksTyped, ScreenTyped
<1>4. CallsTyped'
  BY <1>1 DEF CallsTyped, PA!Free
<1>5. Exclusive' /\ Sole' /\ Chained'
  BY <1>1, <1>2 DEF Exclusive, Sole, Chained, PA!Committed, PA!ChainIntact
<1>6. Peaks' /\ Saved'
  BY <1>1, <1>2 DEF Peaks, Saved, PA!RestoredPeak
<1>7. Cash' /\ Named' /\ Funded'
  BY <1>1, <1>2, BooksStay DEF Opening, Closing
<1> QED BY <1>3, <1>4, <1>5, <1>6, <1>7

PaperPart == part = "paper" => PaperInv

LEMMA PaperInitial == Init => PaperPart
BY PaperInit DEF Init, PaperPart

LEMMA PaperStays == PaperPart /\ [Next]_vars => PaperPart'
<1> SUFFICES ASSUME PaperPart, [Next]_vars, part' = "paper" PROVE PaperInv'
  BY DEF PaperPart
<1>1. CASE Next
  <2>1. part = "paper" /\ PA!Next
    BY <1>1 DEF Next
  <2> QED BY <2>1, PaperStep DEF PaperPart
<1>2. CASE UNCHANGED vars
  <2>1. part = "paper" /\ UNCHANGED PA!vars
    BY <1>2 DEF vars
  <2> QED BY <2>1, PaperQuiet DEF PaperPart
<1> QED BY <1>1, <1>2

\* Concurrent mutators of the paper account keep one audit chain, and whenever nobody is between a
\* commit and its continuation the cash, the open positions and the funding in memory are those of the
\* committed rows (PaperAccountStateService.withAuditedTransaction and its callers).
THEOREM PaperBooksAreSound == Spec => []PaperBooksSound
<1>1. ASSUME PaperPart PROVE PaperBooksSound
  <2> SUFFICES ASSUME part = "paper", PaperInv
               PROVE  PA!TypeOK /\ PA!ChainLinear /\ PA!LedgerMatchesHistory /\ PA!MemoryMatchesRows /\ PA!FundingAccounted
    BY <1>1 DEF PaperPart, PaperBooksSound
  <2> USE DEF PaperInv
  <2>1. PA!TypeOK
    <3>1. snap = None \/ DOMAIN snap = {"bal", "peak", "fund"}
      BY DEF BooksTyped
    <3>2. /\ lock \in PA!Slots \cup {"free"} /\ (lock # "free" => PA!InPhase(lock, "locked"))
      BY DEF Exclusive
    <3>3. \A b \in {timer, tripped, halted, drifted, unsaved, lost} : b \in BOOLEAN
      BY DEF ScreenTyped, CallsTyped, BooksTyped
    <3> QED BY <3>1, <3>2, <3>3 DEF PA!TypeOK, BooksTyped, ScreenTyped, Chained, IsAccrual
  <2>2. PA!ChainLinear
    BY DEF PA!ChainLinear, Chained
  <2>3. PA!LedgerMatchesHistory /\ PA!FundingAccounted
    <3>1. PA!InFlight = {} => \A c \in PA!Slots : ~Closing(c)
      BY DEF PA!InFlight, Closing, PA!InPhase
    <3> QED BY <3>1 DEF PA!LedgerMatchesHistory, PA!FundingAccounted, Cash, Funded
  <2>4. PA!MemoryMatchesRows
    BY DEF PA!MemoryMatchesRows, PA!Committed, Named, Opening, Closing
  <2> QED BY <2>1, <2>2, <2>3, <2>4
<1> QED BY <1>1, PaperInitial, PaperStays, PTL DEF Spec

-----------------------------------------------------------------------------
(***************************************************************************)
(* The momentum portfolio.  That a symbol is opened at most twice in a     *)
(* cycle follows from where its second open can come from: a report, an    *)
(* arm or a firing, of which there is one, which exists only while the     *)
(* symbol was opened once.  That the basket is not overfilled follows from *)
(* counting claims: a live leg, a report, an arm of the current cycle and  *)
(* a firing each claim their symbol, no symbol twice, and only the cascade *)
(* makes a new claim, on a symbol it retains.                              *)
(***************************************************************************)

Legs == [symbol: BasketSymbols, cycle: RB!Cycles, state: {"sent", "open", "closing", "closed"}]

DispatchTyped ==
    /\ now \in 0..MaxTime /\ cron \in -1..now /\ emitted \in -1..MaxTime /\ asked \in 0..MaxManual
    /\ manual \subseteq [at: 0..MaxTime, n: 1..asked]

WalkTyped ==
    /\ orch \in [pc: {"idle", "resolving", "ranking", "definite", "walking", "residual"},
                 due: RB!Cycles \cup {RB!NoCycle}, ranked: Seq(BasketSymbols), found: SUBSET DOMAIN orders,
                 survivors: SUBSET BasketSymbols, retained: SUBSET BasketSymbols, filled: 0..TopN]
    /\ orch.pc = "resolving" => orch.due \in RB!Cycles
    /\ orch.pc \notin {"idle", "resolving"} => cycle \in RB!Cycles
    /\ orch.pc \in {"idle", "resolving", "ranking"} => orch.retained = {}

RetryTyped ==
    /\ cycle \in RB!Cycles \cup {RB!NoCycle}
    /\ attempts \subseteq BasketSymbols
    /\ armed \in [BasketSymbols -> [cycle: RB!Cycles \cup {RB!NoCycle}, at: -1..MaxTime]]
    /\ reports \subseteq [symbol: BasketSymbols, cycle: RB!Cycles]
    /\ firing \subseteq [symbol: BasketSymbols, cycle: RB!Cycles, at: {"counting", "opening"}]
    /\ blurred \in BOOLEAN

OrdersTyped == orders \in Seq(Legs) /\ Len(orders) <= MaxOrders

RebalanceTyped == DispatchTyped /\ WalkTyped /\ RetryTyped /\ OrdersTyped

\* No event that is still to come carries the cycle c.
Past(c) == IF c.by = 0 THEN c.at <= cron ELSE c.by <= asked /\ \A t \in manual : t.n # c.by

\* A rebalance that starts brings a cycle no leg was sent under.
CyclesFresh ==
    /\ Past(cycle) /\ Past(orch.due)
    /\ \A i \in DOMAIN orders : Past(orders[i].cycle)
    /\ orch.pc = "resolving" => \A i \in DOMAIN orders : orders[i].cycle # orch.due
    /\ \A t, u \in manual : t.n = u.n => t = u

\* The legs of symbol s in cycle c among the orders o.
LegsOf(o, s, c) == {i \in DOMAIN o : o[i].symbol = s /\ o[i].cycle = c}
Opened(s, c) == LegsOf(orders, s, c) # {}
OpenedOnce(s, c) == Opened(s, c) /\ \A i, j \in LegsOf(orders, s, c) : i = j

\* The symbols the cascade may still open.
Unwalked ==
    IF orch.pc = "ranking" THEN BasketSymbols
    ELSE IF orch.pc \in {"definite", "walking"} THEN {orch.ranked[i] : i \in DOMAIN orch.ranked} ELSE {}

\* The symbols armed for a retry in the current cycle.
Armed == {s \in BasketSymbols : armed[s] # RB!NoArm /\ armed[s].cycle = cycle}

\* Whatever may still open a symbol in a cycle does so alone, and leaves room for it.
OneRetry ==
    /\ \A s \in Unwalked : ~Opened(s, cycle)
    /\ \A i, j \in DOMAIN orch.ranked : orch.ranked[i] = orch.ranked[j] => i = j
    /\ \A s \in BasketSymbols : Opened(s, cycle) /\ s \notin attempts => OpenedOnce(s, cycle)
    /\ \A r \in reports : OpenedOnce(r.symbol, r.cycle) /\ (r.cycle = cycle => r.symbol \notin attempts)
    /\ \A f \in firing : OpenedOnce(f.symbol, f.cycle) /\ (f.cycle = cycle => f.symbol \in attempts)
    /\ \A f, g \in firing : f.symbol = g.symbol /\ f.cycle = g.cycle => f = g
    /\ \A r \in reports, f \in firing : r.symbol = f.symbol => r.cycle # f.cycle
    /\ \A s \in Armed : OpenedOnce(s, cycle) /\ s \in attempts
    /\ \A s \in Armed, f \in firing : f.symbol = s => f.cycle # cycle

\* A claim on a symbol: a leg that holds or will hold a position, or that may yet be
\* sent by a retry.
Reported == {r.symbol : r \in reports}
Refiring == {f.symbol : f \in firing}
Holding == {orders[i].symbol : i \in RB!Live}
Retrying == Reported \cup Refiring \cup Armed
Claimed == Holding \cup Retrying

\* No symbol is claimed twice.
ClaimsApart ==
    /\ RB!OneLegPerSymbol
    /\ \A r, q \in reports : r.symbol = q.symbol => r = q
    /\ \A f, g \in firing : f.symbol = g.symbol => f = g
    /\ \A s \in Reported : s \notin Refiring /\ s \notin Armed
    /\ \A s \in Refiring : s \notin Armed
    /\ \A s \in Holding : s \notin Retrying

\* Nor is one claimed that the cascade may still open.
OneClaim ==
    /\ ClaimsApart
    /\ orch.pc \in {"definite", "walking"} => \A s \in Unwalked \ orch.survivors : s \notin Claimed

\* Between rebalances at most top_n symbols are claimed; during one, the claims are
\* on the legs it found, which it closes unless it retains them, and on what it retains.
BasketFits ==
    /\ orch.pc \in {"idle", "resolving", "ranking"} => Cardinality(Claimed) <= TopN
    /\ orch.pc \in {"definite", "walking", "residual"} =>
          /\ \A i \in RB!Live : i \in orch.found \/ orders[i].symbol \in orch.retained
          /\ Retrying \subseteq orch.retained
          /\ Cardinality(orch.retained) <= orch.filled
          /\ \A i \in orch.found : orders[i].state # "sent"

Seen == ~blurred => OneClaim /\ BasketFits

BasketInv == RebalanceTyped /\ CyclesFresh /\ OneRetry /\ RB!RetriedOnce /\ Seen

LEMMA BasketCount == \A S : (RB!IsFiniteSet(S) <=> IsFiniteSet(S)) /\ RB!Cardinality(S) = Cardinality(S)
BY DEF RB!IsFiniteSet, IsFiniteSet, RB!Cardinality, Cardinality

LEMMA BasketConstants ==
    /\ TopN \in Nat /\ MaxTime \in Nat /\ MaxOrders \in Nat /\ MaxManual \in Nat
    /\ IsFiniteSet(BasketSymbols)
    /\ RB!Cycles = [at: 0..MaxTime, by: 0..MaxManual]
    /\ RB!NoCycle = [at |-> -1, by |-> 0] /\ RB!NoCycle \notin RB!Cycles
    /\ RB!NoArm = [cycle |-> RB!NoCycle, at |-> -1]
<1>1. {TopN, MaxTime, MaxOrders, MaxManual} \subseteq Nat /\ IsFiniteSet(BasketSymbols)
  BY BasketAssumption, BasketCount DEF RB!ConstantsOK
<1>2. [at |-> -1, by |-> 0] \notin [at: 0..MaxTime, by: 0..MaxManual]
  BY <1>1
<1> QED BY <1>1, <1>2 DEF RB!Cycles, RB!NoCycle, RB!NoArm

LEMMA LegFields ==
    ASSUME NEW o \in Seq(Legs), NEW i \in DOMAIN o
    PROVE  /\ o[i] \in Legs /\ o[i].symbol \in BasketSymbols /\ o[i].cycle \in RB!Cycles
           /\ o[i].state \in {"sent", "open", "closing", "closed"}
<1>1. o[i] \in Legs
  OBVIOUS
<1> QED BY <1>1 DEF Legs

\* Of the orders o, which become q, leg i alone changes, and only its state.
Moves(o, q, i, st) ==
    /\ q \in Seq(Legs) /\ Len(q) = Len(o) /\ DOMAIN q = DOMAIN o
    /\ \A j \in DOMAIN o : q[j].symbol = o[j].symbol /\ q[j].cycle = o[j].cycle
    /\ \A j \in DOMAIN o : q[j].state = IF j = i THEN st ELSE o[j].state
    /\ \A s, c : LegsOf(q, s, c) = LegsOf(o, s, c)

LEMMA LegMoves ==
    ASSUME NEW o \in Seq(Legs), NEW i \in DOMAIN o, NEW st \in {"sent", "open", "closing", "closed"}
    PROVE  Moves(o, [o EXCEPT ![i].state = st], i, st)
<1> DEFINE q == [o EXCEPT ![i].state = st]
<1>1. DOMAIN o = 1..Len(o) /\ \A j \in DOMAIN o : o[j] \in Legs
  OBVIOUS
<1>2. DOMAIN q = DOMAIN o /\ \A j \in DOMAIN o : q[j] \in Legs
  BY <1>1 DEF Legs
<1>3. q \in Seq(Legs) /\ Len(q) = Len(o)
  BY <1>1, <1>2
<1>4. \A j \in DOMAIN o : q[j].symbol = o[j].symbol /\ q[j].cycle = o[j].cycle /\ q[j].state = IF j = i THEN st ELSE o[j].state
  BY <1>1 DEF Legs
<1> HIDE DEF q
<1>5. \A s, c : LegsOf(q, s, c) = LegsOf(o, s, c)
  BY <1>2, <1>4 DEF LegsOf
<1>6. Moves(o, q, i, st)
  BY <1>2, <1>3, <1>4, <1>5 DEF Moves
<1> QED BY <1>6 DEF q

\* The orders o become q by one leg that is sent for symbol s in cycle c.
Grows(o, q, s, c) ==
    /\ q \in Seq(Legs) /\ Len(q) = Len(o) + 1 /\ DOMAIN q = DOMAIN o \cup {Len(q)}
    /\ Len(q) \notin DOMAIN o
    /\ \A j \in DOMAIN o : q[j] = o[j]
    /\ q[Len(q)] = [symbol |-> s, cycle |-> c, state |-> "sent"]
    /\ LegsOf(q, s, c) = LegsOf(o, s, c) \cup {Len(q)}
    /\ \A t, d : t # s \/ d # c => LegsOf(q, t, d) = LegsOf(o, t, d)

LEMMA LegSent ==
    ASSUME NEW o \in Seq(Legs), NEW s \in BasketSymbols, NEW c \in RB!Cycles
    PROVE  Grows(o, Append(o, [symbol |-> s, cycle |-> c, state |-> "sent"]), s, c)
<1> DEFINE q == Append(o, [symbol |-> s, cycle |-> c, state |-> "sent"])
<1>1. [symbol |-> s, cycle |-> c, state |-> "sent"] \in Legs
  BY DEF Legs
<1>2. q \in Seq(Legs) /\ Len(q) = Len(o) + 1 /\ DOMAIN q = DOMAIN o \cup {Len(q)} /\ Len(q) \notin DOMAIN o
  BY <1>1
<1>3. (\A j \in DOMAIN o : q[j] = o[j]) /\ q[Len(q)] = [symbol |-> s, cycle |-> c, state |-> "sent"]
  BY <1>1
<1> HIDE DEF q
<1>4. Grows(o, q, s, c)
  BY <1>2, <1>3 DEF LegsOf, Grows
<1> QED BY <1>4 DEF q

LEMMA BasketInit == ASSUME RB!Init PROVE BasketInv
<1>1. RebalanceTyped
  <2>1. DispatchTyped
    BY BasketConstants DEF DispatchTyped, RB!Init
  <2>2. WalkTyped
    BY BasketConstants DEF WalkTyped, RB!Init, RB!Idle
  <2>3. RetryTyped
    <3>1. RB!NoArm \in [cycle: RB!Cycles \cup {RB!NoCycle}, at: -1..MaxTime]
      BY BasketConstants
    <3> QED BY <3>1 DEF RetryTyped, RB!Init
  <2>4. OrdersTyped
    BY BasketConstants DEF OrdersTyped, RB!Init
  <2> QED BY <2>1, <2>2, <2>3, <2>4 DEF RebalanceTyped
<1>2. CyclesFresh
  BY BasketConstants DEF CyclesFresh, Past, RB!Init, RB!Idle
<1>3. \A s, c : LegsOf(orders, s, c) = {}
  BY DEF RB!Init, LegsOf
<1>4. Unwalked = {} /\ Armed = {}
  BY DEF Unwalked, Armed, RB!Init, RB!Idle
<1>5. OneRetry
  BY <1>3, <1>4 DEF OneRetry, RB!Init, RB!Idle, Opened
<1>6. RB!RetriedOnce
  BY <1>3, BasketCount, FS_EmptySet DEF RB!RetriedOnce, LegsOf
<1>7. Claimed = {} /\ RB!Live = {}
  BY <1>4 DEF Claimed, Holding, Retrying, Reported, Refiring, RB!Init, RB!Live
<1>8. OneClaim
  BY <1>4, <1>7 DEF OneClaim, ClaimsApart, Claimed, Reported, Refiring, Holding, RB!OneLegPerSymbol, RB!Init, RB!Idle
<1>9. BasketFits
  <2>1. Cardinality(Claimed) = 0 /\ TopN \in Nat
    BY <1>7, FS_EmptySet, BasketConstants
  <2> QED BY <2>1 DEF BasketFits, RB!Init, RB!Idle
<1> QED BY <1>1, <1>2, <1>5, <1>6, <1>8, <1>9 DEF BasketInv, Seen

\* The legs stay as they are: the steps of the scheduler, and an end of the rebalance
\* that closes nothing.
LEMMA LegsStay ==
    ASSUME BasketInv,
           UNCHANGED <<cycle, attempts, armed, reports, firing, orders>>,
           blurred' = blurred \/ blurred' = TRUE,
           \/ orch' = orch
           \/ /\ orch'.pc \in {"idle", "resolving"} /\ orch'.ranked = <<>>
              /\ orch.pc \in {"idle", "resolving"} \/ blurred'
    PROVE  OneRetry' /\ RB!RetriedOnce' /\ Seen'
<1>1. RB!RetriedOnce' /\ Armed' = Armed /\ RB!Live' = RB!Live /\ Reported' = Reported /\ Refiring' = Refiring
  BY DEF BasketInv, RB!RetriedOnce, Armed, RB!Live, Reported, Refiring
<1>2. Holding' = Holding /\ Retrying' = Retrying /\ Claimed' = Claimed
  BY <1>1 DEF Claimed, Holding, Retrying
<1>3. \A s, c : (Opened(s, c)' <=> Opened(s, c)) /\ (OpenedOnce(s, c)' <=> OpenedOnce(s, c))
  BY DEF Opened, OpenedOnce, LegsOf
<1>4. Unwalked' = Unwalked \/ Unwalked' = {}
  BY DEF Unwalked
<1>5. OneRetry'
  BY <1>1, <1>3, <1>4 DEF BasketInv, OneRetry
<1>6. Seen'
  <2> SUFFICES ASSUME ~blurred' PROVE OneClaim' /\ BasketFits'
    BY DEF Seen
  <2>0. OneClaim /\ BasketFits
    BY DEF BasketInv, Seen, RebalanceTyped, RetryTyped
  <2>1. OneClaim'
    BY <2>0, <1>1, <1>2 DEF OneClaim, ClaimsApart, Unwalked, RB!OneLegPerSymbol
  <2>2. BasketFits'
    BY <2>0, <1>1, <1>2 DEF BasketFits
  <2> QED BY <2>1, <2>2
<1> QED BY <1>1, <1>5, <1>6

\* What an event brings when the orchestrator is idle.
Woken(d) == [RB!Idle EXCEPT !.pc = "resolving", !.due = d]

LEMMA WokenTyped ==
    ASSUME NEW d \in RB!Cycles
    PROVE  /\ Woken(d) \in [pc: {"resolving"}, due: RB!Cycles, ranked: {<<>>}, found: {{}},
                            survivors: {{}}, retained: {{}}, filled: {0}]
           /\ Woken(d).due = d
BY DEF Woken, RB!Idle

LEMMA EventTyped ==
    ASSUME WalkTyped, NEW d \in RB!Cycles, orch' = orch \/ orch' = Woken(d), UNCHANGED <<cycle, orders>>
    PROVE  WalkTyped'
<1>1. CASE orch' = orch
  BY <1>1 DEF WalkTyped
<1>2. CASE orch' = Woken(d)
  <2>1. 0 \in 0..TopN
    BY BasketConstants
  <2>2. <<>> \in Seq(BasketSymbols)
    OBVIOUS
  <2> QED BY <1>2, <2>1, <2>2, WokenTyped DEF WalkTyped
<1> QED BY <1>1, <1>2

\* An event with a new cycle d, as the scheduler emits it.
LEMMA EventFresh ==
    ASSUME BasketInv, NEW d \in RB!Cycles, orch' = orch \/ orch' = Woken(d), UNCHANGED <<cycle, orders>>,
           \A c \in RB!Cycles \cup {RB!NoCycle} : Past(c) => Past(c)' /\ c # d,
           Past(d)', manual' \subseteq manual
    PROVE  CyclesFresh'
<1>1. \A i \in DOMAIN orders : orders[i].cycle \in RB!Cycles
  BY LegFields DEF BasketInv, RebalanceTyped, OrdersTyped
<1>2. cycle \in RB!Cycles \cup {RB!NoCycle} /\ orch.due \in RB!Cycles \cup {RB!NoCycle}
  BY DEF BasketInv, RebalanceTyped, WalkTyped, RetryTyped
<1>3. orch' # orch => orch'.due = d
  BY WokenTyped
<1>4. CyclesFresh
  BY DEF BasketInv
<1>5. Past(orch.due)' \/ orch' # orch
  BY <1>2, <1>4 DEF CyclesFresh, Past
<1>6. \A i \in DOMAIN orders : Past(orders[i].cycle)' /\ orders[i].cycle # d
  BY <1>1, <1>4 DEF CyclesFresh
<1> QED BY <1>1, <1>2, <1>3, <1>4, <1>6 DEF CyclesFresh, Past

LEMMA SchedulerStep ==
    ASSUME BasketInv,
           RB!CronFires \/ RB!TriggerRebalance
           \/ \E t \in manual : RB!TriggerValidated(t) \/ RB!TriggerRejected(t)
    PROVE  BasketInv'
<1>1. UNCHANGED <<now, cycle, attempts, armed, reports, firing, orders, blurred>>
  BY DEF RB!CronFires, RB!TriggerRebalance, RB!TriggerValidated, RB!TriggerRejected
<1>2. orch' = orch \/ (orch.pc = "idle" /\ \E d : orch' = Woken(d))
  BY DEF RB!CronFires, RB!TriggerRebalance, RB!TriggerValidated, RB!TriggerRejected, RB!EmitDue, Woken
<1>3. OneRetry' /\ RB!RetriedOnce' /\ Seen'
  BY <1>1, <1>2, LegsStay DEF RB!Idle, Woken
<1>0. DispatchTyped /\ WalkTyped /\ RetryTyped' /\ OrdersTyped' /\ CyclesFresh
  BY <1>1 DEF BasketInv, RebalanceTyped, RetryTyped, OrdersTyped
<1>4. DispatchTyped' /\ WalkTyped' /\ CyclesFresh'
  <2>1. CASE RB!CronFires
    <3>0. PICK d : d = [at |-> now, by |-> 0]
      OBVIOUS
    <3>1. /\ cron' = now /\ emitted' = now /\ UNCHANGED <<manual, asked>> /\ cron < now
          /\ orch' = orch \/ orch' = Woken(d)
      BY <1>0, <2>1, <3>0 DEF RB!CronFires, RB!EmitDue, DispatchTyped, Woken
    <3>2. d \in RB!Cycles
      BY <1>0, <3>0, BasketConstants DEF DispatchTyped
    <3>3. DispatchTyped'
      BY <1>0, <1>1, <3>1, BasketConstants DEF DispatchTyped
    <3>4. ASSUME NEW c \in RB!Cycles \cup {RB!NoCycle}, Past(c) PROVE Past(c)' /\ c # d
      <4>1. c.at \in Int
        BY BasketConstants
      <4> QED BY <1>0, <3>0, <3>1, <3>4, <4>1 DEF Past, DispatchTyped
    <3>5. Past(d)'
      BY <1>0, <3>0, <3>1 DEF Past, DispatchTyped
    <3> QED BY <1>0, <1>1, <3>1, <3>2, <3>3, <3>4, <3>5, EventTyped, EventFresh
  <2>2. CASE RB!TriggerRebalance
    <3> DEFINE t == [at |-> now, n |-> asked + 1]
    <3>1. /\ UNCHANGED <<cron, emitted, orch>> /\ manual' = manual \cup {t} /\ asked' = asked + 1
          /\ asked < MaxManual
      BY <2>2 DEF RB!TriggerRebalance
    <3>2. DispatchTyped'
      BY <1>0, <1>1, <3>1, BasketConstants DEF DispatchTyped
    <3>3. \A c : c.by \in Nat /\ Past(c) => Past(c)'
      BY <1>0, <3>1 DEF Past, DispatchTyped
    <3>4. \A c \in RB!Cycles \cup {RB!NoCycle} : c.by \in Nat
      BY BasketConstants
    <3>5. \A i \in DOMAIN orders : orders[i].cycle \in RB!Cycles
      BY LegFields DEF BasketInv, RebalanceTyped, OrdersTyped
    <3>6. \A u, v \in manual' : u.n = v.n => u = v
      BY <1>0, <3>1 DEF CyclesFresh, DispatchTyped
    <3>7. cycle \in RB!Cycles \cup {RB!NoCycle} /\ orch.due \in RB!Cycles \cup {RB!NoCycle}
      BY DEF BasketInv, RebalanceTyped, WalkTyped, RetryTyped
    <3>8. Past(cycle)' /\ Past(orch.due)' /\ \A i \in DOMAIN orders : Past(orders[i].cycle)'
      BY <1>0, <1>1, <3>1, <3>3, <3>4, <3>5, <3>7 DEF CyclesFresh, Past
    <3>9. CyclesFresh'
      BY <1>0, <1>1, <3>1, <3>6, <3>8 DEF CyclesFresh
    <3> QED BY <1>0, <1>1, <3>1, <3>2, <3>9 DEF WalkTyped
  <2>3. ASSUME NEW t \in manual, RB!TriggerValidated(t) \/ RB!TriggerRejected(t)
        PROVE  DispatchTyped' /\ WalkTyped' /\ CyclesFresh'
    <3> DEFINE d == [at |-> t.at, by |-> t.n]
    <3>0. t.at \in 0..MaxTime /\ t.n \in 1..asked /\ asked \in 0..MaxManual
      BY <1>0 DEF DispatchTyped
    <3>1. /\ UNCHANGED <<cron, asked>> /\ manual' = manual \ {t} /\ emitted' \in {emitted, t.at}
          /\ orch' = orch \/ orch' = Woken(d)
      BY <2>3 DEF RB!TriggerValidated, RB!TriggerRejected, RB!EmitDue, Woken
    <3>2. d \in RB!Cycles
      BY <3>0, BasketConstants
    <3>3. DispatchTyped'
      BY <1>0, <1>1, <3>0, <3>1, BasketConstants DEF DispatchTyped
    <3>4. \A c \in RB!Cycles \cup {RB!NoCycle} : Past(c) => Past(c)' /\ c # d
      BY <3>0, <3>1 DEF Past
    <3>5. Past(d)'
      BY <1>0, <3>0, <3>1 DEF Past, CyclesFresh
    <3> HIDE DEF d
    <3> QED BY <1>0, <1>1, <3>1, <3>2, <3>3, <3>4, <3>5, EventTyped, EventFresh
  <2> QED BY <2>1, <2>2, <2>3
<1> QED BY <1>0, <1>3, <1>4 DEF BasketInv, RebalanceTyped

\* What only looks at the orders' symbols and cycles, or at less of what may open a
\* symbol, stays.
LEMMA RetryShrinks ==
    ASSUME BasketInv, UNCHANGED <<cycle, attempts>>,
           \A s, c : LegsOf(orders', s, c) = LegsOf(orders, s, c),
           Unwalked' \subseteq Unwalked, reports' \subseteq reports, firing' \subseteq firing,
           Armed' \subseteq Armed,
           \A i, j \in DOMAIN orch'.ranked : orch'.ranked[i] = orch'.ranked[j] => i = j
    PROVE  OneRetry' /\ RB!RetriedOnce'
<1>1. \A s, c : (Opened(s, c)' <=> Opened(s, c)) /\ (OpenedOnce(s, c)' <=> OpenedOnce(s, c))
  BY DEF Opened, OpenedOnce
<1>2. OneRetry
  BY DEF BasketInv
<1>3. OneRetry'
  BY <1>1, <1>2 DEF OneRetry
<1>4. RB!RetriedOnce'
  BY DEF RB!RetriedOnce, LegsOf, BasketInv
<1> QED BY <1>3, <1>4

LEMMA ClaimsTyped ==
    ASSUME RebalanceTyped
    PROVE  /\ Claimed \subseteq BasketSymbols /\ IsFiniteSet(Claimed)
           /\ \A A : A \subseteq Claimed => Cardinality(A) \in Nat /\ Cardinality(A) <= Cardinality(Claimed)
           /\ Cardinality(Claimed) \in Nat
<1>1. Holding \subseteq BasketSymbols
  BY LegFields DEF Holding, RB!Live, RebalanceTyped, OrdersTyped
<1>2. Claimed \subseteq BasketSymbols
  BY <1>1 DEF Claimed, Retrying, Reported, Refiring, Armed, RebalanceTyped, RetryTyped
<1>3. IsFiniteSet(Claimed)
  BY <1>2, BasketConstants, FS_Subset
<1> QED BY <1>2, <1>3, FS_Subset, FS_CardinalityType

\* Fewer claims: legs end, reports, firings and arms are dropped, found legs are closed.
LEMMA SeenShrinks ==
    ASSUME BasketInv, blurred' = blurred,
           orch'.pc = orch.pc, orch'.ranked = orch.ranked, orch'.survivors = orch.survivors,
           orch'.retained = orch.retained, orch'.filled = orch.filled, orch'.found \subseteq orch.found,
           RB!Live' \subseteq RB!Live, \A i \in DOMAIN orders : orders'[i].symbol = orders[i].symbol,
           ~blurred => \A i \in RB!Live' : i \in orch.found => i \in orch'.found,
           \A i \in DOMAIN orders : orders[i].state # "sent" => orders'[i].state # "sent",
           reports' \subseteq reports, firing' \subseteq firing, Armed' \subseteq Armed
    PROVE  Seen'
<1> SUFFICES ASSUME ~blurred PROVE OneClaim' /\ BasketFits'
  BY DEF Seen
<1>0. OneClaim /\ BasketFits /\ RebalanceTyped
  BY DEF BasketInv, Seen
<1>1. \A i \in RB!Live : i \in DOMAIN orders
  BY DEF RB!Live
<1>2. Reported' \subseteq Reported /\ Refiring' \subseteq Refiring
  BY DEF Reported, Refiring
<1>3. Holding' \subseteq Holding
  BY <1>1 DEF Holding
<1>4. Retrying' \subseteq Retrying /\ Claimed' \subseteq Claimed
  BY <1>2, <1>3 DEF Retrying, Claimed
<1>5. RB!OneLegPerSymbol'
  BY <1>0, <1>1 DEF OneClaim, ClaimsApart, RB!OneLegPerSymbol
<1>6. ClaimsApart'
  BY <1>0, <1>2, <1>3, <1>4, <1>5 DEF OneClaim, ClaimsApart
<1>7. Unwalked' = Unwalked
  BY DEF Unwalked
<1>8. OneClaim'
  BY <1>0, <1>4, <1>6, <1>7 DEF OneClaim
<1>9. Cardinality(Claimed) <= TopN => Cardinality(Claimed') <= TopN
  BY <1>0, <1>4, ClaimsTyped, BasketConstants
<1>10. ASSUME orch.pc \in {"definite", "walking", "residual"}
       PROVE  /\ \A i \in RB!Live' : i \in orch'.found \/ orders'[i].symbol \in orch'.retained
              /\ Retrying' \subseteq orch'.retained /\ Cardinality(orch'.retained) <= orch'.filled
              /\ \A i \in orch'.found : orders'[i].state # "sent"
  <2>1. orch.found \subseteq DOMAIN orders
    BY <1>0 DEF RebalanceTyped, WalkTyped
  <2> QED BY <1>0, <1>1, <1>4, <1>10, <2>1 DEF BasketFits
<1>11. orch.pc \in {"idle", "resolving", "ranking"} => Cardinality(Claimed') <= TopN
  BY <1>0, <1>9 DEF BasketFits
<1>12. BasketFits'
  BY <1>10, <1>11 DEF BasketFits
<1> QED BY <1>8, <1>12

\* The events to come are the same, and every leg carries the cycle of a leg there was
\* or of the rebalance.
LEMMA FreshStays ==
    ASSUME BasketInv, UNCHANGED <<cron, asked, manual, cycle>>,
           orch'.due = orch.due \/ orch'.due = RB!NoCycle, orch'.pc = "resolving" => orch.pc = "resolving" /\ orch'.due = orch.due,
           \A i \in DOMAIN orders' :
              \/ \E j \in DOMAIN orders : orders'[i].cycle = orders[j].cycle
              \/ orders'[i].cycle = cycle /\ orch'.pc # "resolving"
    PROVE  CyclesFresh'
<1>1. CyclesFresh /\ DispatchTyped
  BY DEF BasketInv, RebalanceTyped
<1>2. \A c : Past(c)' <=> Past(c)
  BY DEF Past
<1>3. Past(RB!NoCycle)
  BY <1>1, BasketConstants DEF Past, DispatchTyped
<1> QED BY <1>1, <1>2, <1>3 DEF CyclesFresh

LEMMA DispatchStays == DispatchTyped /\ UNCHANGED <<now, cron, emitted, manual, asked>> => DispatchTyped'
BY DEF DispatchTyped

\* A bar passes, a rebalance does not start or is cut short.
LEMMA EndsStep ==
    ASSUME BasketInv,
           \/ RB!Tick
           \/ RB!RebalanceThrows
           \/ /\ orch.pc = "resolving" /\ orch' = RB!Idle
              /\ UNCHANGED <<now, cron, emitted, manual, asked, cycle, attempts, armed, reports, firing, orders, blurred>>
    PROVE  BasketInv'
<1>0. DispatchTyped /\ WalkTyped /\ RetryTyped /\ OrdersTyped
  BY DEF BasketInv, RebalanceTyped
<1>1. /\ UNCHANGED <<cron, emitted, manual, asked, cycle, attempts, armed, reports, firing, orders>>
      /\ blurred' = blurred \/ blurred' = TRUE
      /\ orch' = orch \/ orch' = RB!Idle
      /\ orch' # orch => orch.pc = "resolving" \/ blurred'
  BY DEF RB!Tick, RB!RebalanceThrows, RB!scheduler
<1>2. OneRetry' /\ RB!RetriedOnce' /\ Seen'
  <2>1. RB!Idle.pc = "idle" /\ RB!Idle.ranked = <<>>
    BY DEF RB!Idle
  <2>2. \/ orch' = orch
        \/ /\ orch'.pc \in {"idle", "resolving"} /\ orch'.ranked = <<>>
           /\ orch.pc \in {"idle", "resolving"} \/ blurred'
    BY <1>1, <2>1
  <2> QED BY <1>1, <2>2, LegsStay
<1>3. DispatchTyped'
  <2>1. CASE RB!Tick
    <3>1. now' = now + 1 /\ now < MaxTime
      BY <2>1 DEF RB!Tick
    <3> QED BY <1>0, <1>1, <3>1, BasketConstants DEF DispatchTyped
  <2>2. CASE now' = now
    BY <1>0, <1>1, <2>2 DEF DispatchTyped
  <2> QED BY <2>1, <2>2 DEF RB!RebalanceThrows
<1>4. WalkTyped'
  <2>1. 0 \in 0..TopN /\ <<>> \in Seq(BasketSymbols)
    BY BasketConstants
  <2>2. CASE orch' = orch
    BY <1>0, <1>1, <2>2 DEF WalkTyped
  <2>3. CASE orch' = RB!Idle
    BY <1>0, <1>1, <2>1, <2>3 DEF WalkTyped, RB!Idle
  <2> QED BY <1>1, <2>2, <2>3
<1>5. RetryTyped' /\ OrdersTyped'
  BY <1>0, <1>1 DEF RetryTyped, OrdersTyped
<1>6. CyclesFresh'
  BY <1>1, FreshStays DEF RB!Idle
<1> QED BY <1>2, <1>3, <1>4, <1>5, <1>6 DEF BasketInv, RebalanceTyped

LEMMA ResolveStep == ASSUME BasketInv, RB!ResolveVersion PROVE BasketInv'
<1>0. DispatchTyped /\ WalkTyped /\ RetryTyped /\ OrdersTyped /\ OneRetry /\ CyclesFresh
  BY DEF BasketInv, RebalanceTyped
<1>1. orch.pc = "resolving" /\ UNCHANGED <<now, cron, emitted, manual, asked, reports, firing, orders, blurred>>
  BY DEF RB!ResolveVersion, RB!scheduler
<1>2. CASE orch' = RB!Idle /\ UNCHANGED <<cycle, attempts, armed>>
  BY <1>1, <1>2, EndsStep
<1>3. CASE cycle' = orch.due /\ RB!Supersede /\ orch' = [orch EXCEPT !.pc = "ranking"]
  <2>1. /\ orch.due \in RB!Cycles /\ attempts' = {} /\ armed' = [s \in BasketSymbols |-> RB!NoArm]
        /\ orch'.pc = "ranking" /\ orch'.ranked = orch.ranked /\ orch'.due = orch.due /\ orch'.retained = {}
    BY <1>0, <1>1, <1>3 DEF RB!Supersede, WalkTyped
  <2>2. DispatchTyped' /\ WalkTyped' /\ OrdersTyped'
    BY <1>0, <1>1, <1>3, <2>1, DispatchStays DEF WalkTyped, OrdersTyped
  <2>3. RetryTyped'
    <3>1. RB!NoArm \in [cycle: RB!Cycles \cup {RB!NoCycle}, at: -1..MaxTime]
      BY BasketConstants
    <3> QED BY <1>0, <1>1, <1>3, <2>1, <3>1 DEF RetryTyped
  <2>4. CyclesFresh'
    BY <1>0, <1>1, <1>3, <2>1 DEF CyclesFresh, Past
  <2>5. \A s : ~Opened(s, cycle')
    BY <1>0, <1>1, <1>3 DEF CyclesFresh, Opened, LegsOf
  <2>6. Armed' = {}
    BY <2>1 DEF Armed
  <2>7. \A s, c : (Opened(s, c)' <=> Opened(s, c)) /\ (OpenedOnce(s, c)' <=> OpenedOnce(s, c))
    BY <1>1 DEF Opened, OpenedOnce, LegsOf
  <2>8. OneRetry'
    <3>1. \A f \in firing : f.cycle # cycle'
      BY <1>0, <2>5 DEF OneRetry, OpenedOnce
    <3> QED BY <1>0, <1>1, <2>1, <2>5, <2>6, <2>7, <3>1 DEF OneRetry
  <2>9. RB!RetriedOnce'
    BY <1>1 DEF BasketInv, RB!RetriedOnce
  <2>10. Seen'
    <3> SUFFICES ASSUME ~blurred PROVE OneClaim' /\ BasketFits'
      BY <1>1 DEF Seen
    <3>0. OneClaim /\ BasketFits /\ RebalanceTyped
      BY DEF BasketInv, Seen
    <3>1. Reported' = Reported /\ Refiring' = Refiring /\ RB!Live' = RB!Live /\ Holding' = Holding
      BY <1>1 DEF Reported, Refiring, RB!Live, Holding
    <3>2. Retrying' \subseteq Retrying /\ Claimed' \subseteq Claimed
      BY <2>6, <3>1 DEF Retrying, Claimed
    <3>3. RB!OneLegPerSymbol'
      BY <1>1, <3>0, <3>1 DEF OneClaim, ClaimsApart, RB!OneLegPerSymbol
    <3>4. ClaimsApart'
      BY <1>1, <2>6, <3>0, <3>1, <3>2, <3>3 DEF OneClaim, ClaimsApart
    <3>5. OneClaim'
      BY <2>1, <3>4 DEF OneClaim
    <3>6. Cardinality(Claimed') <= TopN
      BY <1>1, <3>0, <3>2, ClaimsTyped, BasketConstants DEF BasketFits
    <3> QED BY <2>1, <3>5, <3>6 DEF BasketFits
  <2> QED BY <2>2, <2>3, <2>4, <2>8, <2>9, <2>10 DEF BasketInv, RebalanceTyped
<1> QED BY <1>2, <1>3 DEF RB!ResolveVersion

\* What a ranking is.
LEMMA RankingIs ==
    ASSUME NEW f \in RB!Rankings
    PROVE  /\ f \in Seq(BasketSymbols)
           /\ \A i, j \in DOMAIN f : f[i] = f[j] => i = j
<1>1. PICK S \in SUBSET BasketSymbols : f \in RB!SetToSeqs(S)
  BY DEF RB!Rankings
<1>2. RB!Cardinality(S) \in Nat
  BY BasketConstants, BasketCount, FS_Subset, FS_CardinalityType
<1>3. f \in [1..RB!Cardinality(S) -> S] /\ \A i, j \in 1..RB!Cardinality(S) : i # j => f[i] # f[j]
  BY <1>1 DEF RB!SetToSeqs
<1> QED BY <1>2, <1>3

LEMMA ReadStep == ASSUME BasketInv, RB!ReadRows PROVE BasketInv'
<1>0. DispatchTyped /\ WalkTyped /\ RetryTyped /\ OrdersTyped /\ OneRetry /\ CyclesFresh
  BY DEF BasketInv, RebalanceTyped
<1>1. /\ orch.pc = "ranking"
      /\ UNCHANGED <<now, cron, emitted, manual, asked, cycle, attempts, armed, reports, firing, orders>>
      /\ blurred' = (blurred \/ RB!LegsOut)
  BY DEF RB!ReadRows, RB!scheduler
<1>2. PICK ranked \in RB!Rankings :
          orch' = [orch EXCEPT !.pc = "definite", !.ranked = ranked, !.found = RB!Rows,
                               !.survivors = {orders[i].symbol : i \in RB!Rows} \cap RB!ToSet(ranked)]
  BY DEF RB!ReadRows
<1>3. ranked \in Seq(BasketSymbols) /\ \A i, j \in DOMAIN ranked : ranked[i] = ranked[j] => i = j
  BY RankingIs
<1>4. RB!ToSet(ranked) = {ranked[i] : i \in DOMAIN ranked} /\ RB!ToSet(ranked) \subseteq BasketSymbols
  BY <1>3 DEF RB!ToSet
<1>5. /\ orch'.pc = "definite" /\ orch'.ranked = ranked /\ orch'.found = RB!Rows /\ orch'.due = orch.due
      /\ orch'.survivors = {orders[i].symbol : i \in RB!Rows} \cap RB!ToSet(ranked)
      /\ orch'.retained = {} /\ orch'.filled = orch.filled
  BY <1>0, <1>1, <1>2 DEF WalkTyped
<1>6. WalkTyped'
  <2>1. RB!Rows \subseteq DOMAIN orders
    BY DEF RB!Rows
  <2> QED BY <1>0, <1>1, <1>2, <1>3, <1>4, <1>5, <2>1 DEF WalkTyped
<1>7. DispatchTyped' /\ RetryTyped' /\ OrdersTyped'
  <2>1. blurred' \in BOOLEAN
    BY <1>0, <1>1 DEF RetryTyped, RB!LegsOut, RB!InFlight
  <2> QED BY <1>0, <1>1, <2>1, DispatchStays DEF RetryTyped, OrdersTyped
<1>8. CyclesFresh'
  BY <1>1, <1>5, FreshStays
<1>9. Unwalked = BasketSymbols /\ Unwalked' = RB!ToSet(ranked)
  BY <1>1, <1>4, <1>5 DEF Unwalked
<1>10. OneRetry' /\ RB!RetriedOnce'
  <2>1. Armed' = Armed /\ \A s, c : LegsOf(orders', s, c) = LegsOf(orders, s, c)
    BY <1>1 DEF Armed
  <2> QED BY <1>1, <1>3, <1>4, <1>5, <1>9, <2>1, RetryShrinks
<1>11. Seen'
  <2> SUFFICES ASSUME ~blurred' PROVE OneClaim' /\ BasketFits'
    BY DEF Seen
  <2>0. ~blurred /\ ~RB!InFlight /\ reports = {} /\ firing = {} /\ OneClaim
    BY <1>0, <1>1 DEF BasketInv, Seen, RB!LegsOut, RetryTyped
  <2>1. Armed = {} /\ Armed' = {}
    BY <1>0, <1>1, <1>9 DEF OneRetry, OpenedOnce, Armed
  <2>2. Reported' = {} /\ Refiring' = {} /\ Retrying' = {}
    BY <1>1, <2>0, <2>1 DEF Reported, Refiring, Retrying
  <2>3. RB!Live' = RB!Live /\ Holding' = Holding /\ Claimed' = Holding
    BY <1>1, <2>2 DEF RB!Live, Holding, Claimed
  <2>4. RB!Live \subseteq RB!Rows
    BY <2>0 DEF RB!Live, RB!Rows, RB!InFlight
  <2>5. RB!OneLegPerSymbol'
    BY <1>1, <2>0, <2>3 DEF OneClaim, ClaimsApart, RB!OneLegPerSymbol
  <2>6. ClaimsApart'
    BY <1>1, <2>0, <2>1, <2>2, <2>5 DEF ClaimsApart
  <2>7. \A s \in RB!ToSet(ranked) \ orch'.survivors : s \notin Holding
    BY <1>5, <2>4 DEF Holding
  <2>8. OneClaim'
    BY <1>9, <2>3, <2>6, <2>7 DEF OneClaim
  <2>9. Cardinality({}) <= orch'.filled
    BY <1>0, <1>5, FS_EmptySet, BasketConstants DEF WalkTyped
  <2>10. \A i \in RB!Rows : orders'[i].state # "sent"
    BY <1>1 DEF RB!Rows
  <2>11. BasketFits'
    BY <1>5, <2>2, <2>3, <2>4, <2>9, <2>10 DEF BasketFits
  <2> QED BY <2>8, <2>11
<1> QED BY <1>6, <1>7, <1>8, <1>10, <1>11 DEF BasketInv, RebalanceTyped

\* A leg that was found is closed.
LEMMA LegClosed ==
    ASSUME BasketInv, orch.pc \in {"definite", "residual"}, NEW i \in orch.found,
           orch' = [orch EXCEPT !.found = @ \ {i}], RB!Close(i),
           UNCHANGED <<now, cron, emitted, manual, asked, cycle, attempts, armed, reports, firing, blurred>>
    PROVE  BasketInv'
<1>0. DispatchTyped /\ WalkTyped /\ RetryTyped /\ OrdersTyped /\ OneRetry /\ CyclesFresh
  BY DEF BasketInv, RebalanceTyped
<1>1. i \in DOMAIN orders /\ orders \in Seq(Legs) /\ orders[i].state \in {"sent", "open", "closing", "closed"}
  BY <1>0, LegFields DEF WalkTyped, OrdersTyped
<1> DEFINE st == IF orders[i].state = "open" THEN "closing" ELSE orders[i].state
<1>2. st \in {"sent", "open", "closing", "closed"} /\ orders' = [orders EXCEPT ![i].state = st]
  BY <1>1 DEF RB!Close, OrdersTyped
<1>3. st # "open" /\ (st = "sent" => orders[i].state = "sent")
  BY <1>1
<1> HIDE DEF st
<1>4. /\ orders' \in Seq(Legs) /\ Len(orders') = Len(orders) /\ DOMAIN orders' = DOMAIN orders
      /\ \A j \in DOMAIN orders : orders'[j].symbol = orders[j].symbol /\ orders'[j].cycle = orders[j].cycle
      /\ \A j \in DOMAIN orders : orders'[j].state = IF j = i THEN st ELSE orders[j].state
      /\ \A s, c : LegsOf(orders', s, c) = LegsOf(orders, s, c)
  <2>1. orders \in Seq(Legs) /\ i \in DOMAIN orders /\ st \in {"sent", "open", "closing", "closed"}
    BY <1>1, <1>2
  <2>2. Moves(orders, [orders EXCEPT ![i].state = st], i, st)
    BY <2>1, LegMoves
  <2>3. Moves(orders, orders', i, st)
    BY <1>2, <2>2
  <2> QED BY <2>3 DEF Moves
<1>5. /\ orch'.pc = orch.pc /\ orch'.ranked = orch.ranked /\ orch'.survivors = orch.survivors
      /\ orch'.due = orch.due /\ orch'.retained = orch.retained /\ orch'.filled = orch.filled
      /\ orch'.found = orch.found \ {i}
  BY <1>0 DEF WalkTyped
<1>6. DispatchTyped' /\ WalkTyped' /\ RetryTyped' /\ OrdersTyped'
  BY <1>0, <1>4, <1>5, DispatchStays DEF WalkTyped, RetryTyped, OrdersTyped
<1>7. CyclesFresh'
  BY <1>4, <1>5, FreshStays
<1>8. Unwalked' = Unwalked /\ Armed' = Armed
  BY <1>5 DEF Unwalked, Armed
<1>9. OneRetry' /\ RB!RetriedOnce'
  BY <1>0, <1>4, <1>5, <1>8, RetryShrinks DEF OneRetry
<1>10. Seen'
  <2>1. \A j \in DOMAIN orders : orders[j].state # "sent" => orders'[j].state # "sent"
    BY <1>3, <1>4
  <2>2. RB!Live' \subseteq RB!Live
    BY <1>3, <1>4 DEF RB!Live
  <2>3. ~blurred => \A j \in RB!Live' : j \in orch.found => j \in orch'.found
    <3>1. ASSUME ~blurred PROVE orders[i].state # "sent"
      BY <3>1 DEF BasketInv, Seen, BasketFits
    <3> QED BY <1>1, <1>3, <1>4, <1>5, <3>1 DEF RB!Live
  <2> QED BY <1>4, <1>5, <1>8, <2>1, <2>2, <2>3, SeenShrinks
<1> QED BY <1>6, <1>7, <1>9, <1>10 DEF BasketInv, RebalanceTyped

\* The closes are through: the walk begins, or the rebalance ends with what it retained.
LEMMA ClosesEnd ==
    ASSUME BasketInv, orders' = orders,
           \/ orch.pc = "definite" /\ orch' = [orch EXCEPT !.pc = "walking"]
           \/ /\ orch.pc = "residual" /\ orch' = RB!Idle
              /\ \A i \in orch.found : orders[i].symbol \in orch.retained,
           UNCHANGED <<now, cron, emitted, manual, asked, cycle, attempts, armed, reports, firing, blurred>>
    PROVE  BasketInv'
<1>0. DispatchTyped /\ WalkTyped /\ RetryTyped /\ OrdersTyped /\ OneRetry /\ CyclesFresh
  BY DEF BasketInv, RebalanceTyped
<1>1. DispatchTyped' /\ RetryTyped' /\ OrdersTyped'
  BY <1>0, DispatchStays DEF RetryTyped, OrdersTyped
<1>2. Armed' = Armed /\ \A s, c : LegsOf(orders', s, c) = LegsOf(orders, s, c)
  BY DEF Armed
<1>3. CASE orch.pc = "definite" /\ orch' = [orch EXCEPT !.pc = "walking"]
  <2>1. /\ orch'.pc = "walking" /\ orch'.ranked = orch.ranked /\ orch'.survivors = orch.survivors
        /\ orch'.due = orch.due /\ orch'.retained = orch.retained /\ orch'.filled = orch.filled
        /\ orch'.found = orch.found
    BY <1>0, <1>3 DEF WalkTyped
  <2>2. WalkTyped'
    BY <1>0, <1>3, <2>1 DEF WalkTyped
  <2>3. CyclesFresh'
    BY <2>1, FreshStays
  <2>4. Unwalked' = Unwalked
    BY <1>3, <2>1 DEF Unwalked
  <2>5. OneRetry' /\ RB!RetriedOnce'
    BY <1>0, <1>2, <2>1, <2>4, RetryShrinks DEF OneRetry
  <2>6. Seen'
    <3> SUFFICES ASSUME ~blurred PROVE OneClaim' /\ BasketFits'
      BY DEF Seen
    <3>0. OneClaim /\ BasketFits
      BY DEF BasketInv, Seen
    <3>1. Reported' = Reported /\ Refiring' = Refiring /\ RB!Live' = RB!Live /\ Holding' = Holding
      BY DEF Reported, Refiring, RB!Live, Holding
    <3>2. Retrying' = Retrying /\ Claimed' = Claimed
      BY <1>2, <3>1 DEF Retrying, Claimed
    <3>3. ClaimsApart'
      BY <1>2, <3>0, <3>1, <3>2 DEF OneClaim, ClaimsApart, RB!OneLegPerSymbol
    <3>4. OneClaim'
      BY <1>3, <2>1, <2>4, <3>0, <3>2, <3>3 DEF OneClaim
    <3>5. BasketFits'
      BY <1>3, <2>1, <3>0, <3>1, <3>2 DEF BasketFits
    <3> QED BY <3>4, <3>5
  <2> QED BY <1>1, <2>2, <2>3, <2>5, <2>6 DEF BasketInv, RebalanceTyped
<1>4. CASE orch.pc = "residual" /\ orch' = RB!Idle /\ \A i \in orch.found : orders[i].symbol \in orch.retained
  <2>1. orch'.pc = "idle" /\ orch'.ranked = <<>> /\ orch'.due = RB!NoCycle
    BY <1>4 DEF RB!Idle
  <2>2. WalkTyped'
    <3>1. 0 \in 0..TopN /\ <<>> \in Seq(BasketSymbols)
      BY BasketConstants
    <3> QED BY <1>4, <3>1 DEF WalkTyped, RB!Idle
  <2>3. CyclesFresh'
    BY <2>1, FreshStays
  <2>4. Unwalked' = {}
    BY <2>1 DEF Unwalked
  <2>5. OneRetry' /\ RB!RetriedOnce'
    BY <1>2, <2>1, <2>4, RetryShrinks
  <2>6. Seen'
    <3> SUFFICES ASSUME ~blurred PROVE OneClaim' /\ BasketFits'
      BY DEF Seen
    <3>0. OneClaim /\ BasketFits
      BY DEF BasketInv, Seen
    <3>1. Reported' = Reported /\ Refiring' = Refiring /\ RB!Live' = RB!Live /\ Holding' = Holding
      BY DEF Reported, Refiring, RB!Live, Holding
    <3>2. Retrying' = Retrying /\ Claimed' = Claimed
      BY <1>2, <3>1 DEF Retrying, Claimed
    <3>3. ClaimsApart'
      BY <1>2, <3>0, <3>1, <3>2 DEF OneClaim, ClaimsApart, RB!OneLegPerSymbol
    <3>4. OneClaim'
      BY <2>1, <3>3 DEF OneClaim
    <3>5. Claimed \subseteq orch.retained /\ Cardinality(orch.retained) <= orch.filled
      BY <1>4, <3>0 DEF BasketFits, Claimed, Holding
    <3>6. /\ orch.filled \in 0..TopN
          /\ Cardinality(Claimed) \in Nat /\ Cardinality(orch.retained) \in Nat
          /\ Cardinality(Claimed) <= Cardinality(orch.retained)
      <4>1. IsFiniteSet(orch.retained) /\ orch.filled \in 0..TopN
        BY <1>0, BasketConstants, FS_Subset DEF WalkTyped
      <4> QED BY <3>5, <4>1, FS_Subset, FS_CardinalityType
    <3>7. Cardinality(Claimed') <= TopN
      BY <3>2, <3>5, <3>6, BasketConstants
    <3>8. BasketFits'
      BY <2>1, <3>7 DEF BasketFits
    <3> QED BY <3>4, <3>8
  <2> QED BY <1>1, <2>2, <2>3, <2>5, <2>6 DEF BasketInv, RebalanceTyped
<1> QED BY <1>3, <1>4

LEMMA ClosesStep == ASSUME BasketInv, RB!DefiniteCloses \/ RB!ResidualCloses PROVE BasketInv'
<1>1. UNCHANGED <<now, cron, emitted, manual, asked, cycle, attempts, armed, reports, firing, blurred>>
  BY DEF RB!DefiniteCloses, RB!ResidualCloses, RB!CloseLeg, RB!scheduler
<1>2. CASE RB!DefiniteCloses
  <2>1. orch.pc = "definite"
    BY <1>2 DEF RB!DefiniteCloses, RB!CloseLeg
  <2>2. \/ \E i \in orch.found : orch' = [orch EXCEPT !.found = @ \ {i}] /\ RB!Close(i)
        \/ orch' = [orch EXCEPT !.pc = "walking"] /\ orders' = orders
    BY <1>2 DEF RB!DefiniteCloses, RB!CloseLeg
  <2> QED BY <1>1, <2>1, <2>2, LegClosed, ClosesEnd
<1>3. CASE RB!ResidualCloses
  <2>1. orch.pc = "residual"
    BY <1>3 DEF RB!ResidualCloses, RB!CloseLeg
  <2>2. \/ \E i \in orch.found : orch' = [orch EXCEPT !.found = @ \ {i}] /\ RB!Close(i)
        \/ /\ orch' = RB!Idle /\ orders' = orders
           /\ \A i \in orch.found : orders[i].symbol \in orch.retained
    BY <1>3 DEF RB!ResidualCloses, RB!CloseLeg
  <2> QED BY <1>1, <2>1, <2>2, LegClosed, ClosesEnd
<1> QED BY <1>2, <1>3

\* A leg goes on or ends: filled, refused, closed.
LEMMA LegEnds ==
    ASSUME BasketInv, NEW i \in DOMAIN orders, NEW st \in {"open", "closing", "closed"},
           orders' = [orders EXCEPT ![i].state = st], st = "open" => orders[i].state = "sent",
           UNCHANGED <<now, cron, emitted, manual, asked, orch, cycle, attempts, armed, reports, firing, blurred>>
    PROVE  BasketInv'
<1>0. DispatchTyped /\ WalkTyped /\ RetryTyped /\ OrdersTyped /\ OneRetry /\ CyclesFresh
  BY DEF BasketInv, RebalanceTyped
<1>1. Moves(orders, orders', i, st)
  <2>1. Moves(orders, [orders EXCEPT ![i].state = st], i, st)
    BY <1>0, LegMoves DEF OrdersTyped
  <2> QED BY <2>1
<1>2. DispatchTyped' /\ WalkTyped' /\ RetryTyped' /\ OrdersTyped'
  BY <1>0, <1>1, DispatchStays DEF WalkTyped, RetryTyped, OrdersTyped, Moves
<1>3. CyclesFresh'
  BY <1>1, FreshStays DEF Moves
<1>4. Unwalked' = Unwalked /\ Armed' = Armed
  BY DEF Unwalked, Armed
<1>5. OneRetry' /\ RB!RetriedOnce'
  BY <1>0, <1>1, <1>4, RetryShrinks DEF OneRetry, Moves
<1>6. Seen'
  <2>1. \A j \in DOMAIN orders : orders[j].state # "sent" => orders'[j].state # "sent"
    BY <1>1 DEF Moves
  <2>2. RB!Live' \subseteq RB!Live
    BY <1>1 DEF RB!Live, Moves
  <2>3. \A j \in DOMAIN orders : orders'[j].symbol = orders[j].symbol
    BY <1>1 DEF Moves
  <2> QED BY <1>4, <2>1, <2>2, <2>3, SeenShrinks
<1> QED BY <1>2, <1>3, <1>5, <1>6 DEF BasketInv, RebalanceTyped

\* A report, an arm or a firing comes to nothing.
LEMMA DropStep ==
    ASSUME BasketInv, UNCHANGED <<now, cron, emitted, manual, asked, orch, cycle, attempts, orders, blurred>>,
           reports' \subseteq reports, firing' \subseteq firing,
           armed' \in [BasketSymbols -> [cycle: RB!Cycles \cup {RB!NoCycle}, at: -1..MaxTime]],
           Armed' \subseteq Armed
    PROVE  BasketInv'
<1>0. DispatchTyped /\ WalkTyped /\ RetryTyped /\ OrdersTyped /\ OneRetry /\ CyclesFresh
  BY DEF BasketInv, RebalanceTyped
<1>1. DispatchTyped' /\ WalkTyped' /\ RetryTyped' /\ OrdersTyped'
  BY <1>0, DispatchStays DEF WalkTyped, RetryTyped, OrdersTyped
<1>2. CyclesFresh'
  BY FreshStays
<1>3. Unwalked' = Unwalked /\ RB!Live' = RB!Live
  BY DEF Unwalked, RB!Live
<1>4. OneRetry' /\ RB!RetriedOnce'
  BY <1>0, <1>3, RetryShrinks DEF OneRetry
<1>5. Seen'
  BY <1>3, SeenShrinks
<1> QED BY <1>1, <1>2, <1>4, <1>5 DEF BasketInv, RebalanceTyped

\* Claims change hands without a new one.
LEMMA SeenClaims ==
    ASSUME BasketInv, ~blurred, orch' = orch, ClaimsApart', Claimed' \subseteq Claimed,
           orch.pc \in {"definite", "walking", "residual"} =>
              /\ \A i \in RB!Live' : i \in orch.found \/ orders'[i].symbol \in orch.retained
              /\ Retrying' \subseteq orch.retained
              /\ \A i \in orch.found : orders'[i].state # "sent"
    PROVE  OneClaim' /\ BasketFits'
<1>0. OneClaim /\ BasketFits /\ RebalanceTyped
  BY DEF BasketInv, Seen
<1>1. OneClaim'
  BY <1>0 DEF OneClaim, Unwalked
<1>2. Cardinality(Claimed) <= TopN => Cardinality(Claimed') <= TopN
  BY <1>0, ClaimsTyped, BasketConstants
<1>3. BasketFits'
  BY <1>0, <1>2 DEF BasketFits
<1> QED BY <1>1, <1>3

\* A force-closed leg is reported for its retry.
LEMMA ForcedStep == ASSUME BasketInv, NEW i \in DOMAIN orders, RB!ForceClosed(i) PROVE BasketInv'
<1>0. DispatchTyped /\ WalkTyped /\ RetryTyped /\ OrdersTyped /\ OneRetry /\ CyclesFresh
  BY DEF BasketInv, RebalanceTyped
<1>1. /\ orders[i].state = "sent" /\ orders' = [orders EXCEPT ![i].state = "closing"]
      /\ UNCHANGED <<now, cron, emitted, manual, asked, orch, cycle, attempts, armed, firing, blurred>>
  BY DEF RB!ForceClosed, RB!scheduler
<1>2. CASE reports' = reports
  BY <1>1, <1>2, LegEnds
<1> DEFINE s == orders[i].symbol
           r == [symbol |-> s, cycle |-> cycle]
<1>3. CASE RB!Retriable(orders[i]) /\ reports' = reports \cup {[symbol |-> orders[i].symbol, cycle |-> orders[i].cycle]}
  <2>1. /\ orders[i].cycle = cycle /\ s \notin attempts /\ s \in BasketSymbols /\ cycle \in RB!Cycles
        /\ reports' = reports \cup {r}
    BY <1>0, <1>3, LegFields DEF RB!Retriable, OrdersTyped
  <2>2. Moves(orders, orders', i, "closing")
    <3>1. Moves(orders, [orders EXCEPT ![i].state = "closing"], i, "closing")
      BY <1>0, LegMoves DEF OrdersTyped
    <3> QED BY <1>1, <3>1
  <2>3. DispatchTyped' /\ WalkTyped' /\ RetryTyped' /\ OrdersTyped'
    BY <1>0, <1>1, <2>1, <2>2, DispatchStays DEF WalkTyped, RetryTyped, OrdersTyped, Moves
  <2>4. CyclesFresh'
    BY <1>1, <2>2, FreshStays DEF Moves
  <2>5. Unwalked' = Unwalked /\ Armed' = Armed
    BY <1>1 DEF Unwalked, Armed
  <2>6. \A t, d : (Opened(t, d)' <=> Opened(t, d)) /\ (OpenedOnce(t, d)' <=> OpenedOnce(t, d))
    BY <2>2 DEF Opened, OpenedOnce, Moves
  <2>7. OpenedOnce(s, cycle)
    BY <1>0, <2>1 DEF OneRetry, Opened, LegsOf
  <2> HIDE DEF s
  <2>8. OneRetry'
    BY <1>0, <1>1, <2>1, <2>5, <2>6, <2>7 DEF OneRetry
  <2>9. RB!RetriedOnce'
    BY <2>2 DEF BasketInv, RB!RetriedOnce, LegsOf, Moves
  <2>10. Seen'
    <3> SUFFICES ASSUME ~blurred PROVE OneClaim' /\ BasketFits'
      BY <1>1 DEF Seen
    <3>0. OneClaim /\ BasketFits
      BY DEF BasketInv, Seen
    <3>1. RB!Live' = RB!Live \ {i} /\ i \in RB!Live
      BY <1>1, <2>2 DEF RB!Live, Moves
    <3>2. \A j \in RB!Live : j \in DOMAIN orders /\ orders'[j].symbol = orders[j].symbol
      BY <2>2 DEF RB!Live, Moves
    <3>3. Holding' \subseteq Holding /\ s \in Holding /\ s \notin Holding'
      <4>1. \A j \in RB!Live : orders[j].symbol = s => j = i
        BY <3>0, <3>1 DEF OneClaim, ClaimsApart, RB!OneLegPerSymbol, s
      <4> QED BY <3>1, <3>2, <4>1 DEF Holding, s
    <3>4. Reported' = Reported \cup {s} /\ Refiring' = Refiring
      <4>1. r.symbol = s
        OBVIOUS
      <4> HIDE DEF r
      <4>2. Reported' = Reported \cup {s}
        BY <2>1, <4>1 DEF Reported
      <4> QED BY <1>1, <4>2 DEF Refiring
    <3>5. s \notin Retrying
      BY <3>0, <3>3 DEF OneClaim, ClaimsApart
    <3>6. Retrying' = Retrying \cup {s} /\ Claimed' \subseteq Claimed
      BY <2>5, <3>3, <3>4 DEF Retrying, Claimed
    <3>7. RB!OneLegPerSymbol'
      BY <1>1, <3>0, <3>1, <3>2 DEF OneClaim, ClaimsApart, RB!OneLegPerSymbol
    <3>8. \A q \in reports : q.symbol # s
      BY <3>5 DEF Retrying, Reported
    <3>9. ClaimsApart'
      BY <1>1, <2>1, <2>5, <3>0, <3>3, <3>4, <3>5, <3>6, <3>7, <3>8 DEF OneClaim, ClaimsApart, Retrying
    <3>10. orch.pc \in {"definite", "walking", "residual"} =>
              /\ \A j \in RB!Live' : j \in orch.found \/ orders'[j].symbol \in orch.retained
              /\ Retrying' \subseteq orch.retained
              /\ \A j \in orch.found : orders'[j].state # "sent"
      <4> SUFFICES ASSUME orch.pc \in {"definite", "walking", "residual"}
                   PROVE  /\ \A j \in RB!Live' : j \in orch.found \/ orders'[j].symbol \in orch.retained
                          /\ Retrying' \subseteq orch.retained
                          /\ \A j \in orch.found : orders'[j].state # "sent"
        OBVIOUS
      <4>1. s \in orch.retained
        BY <1>1, <3>0, <3>1 DEF BasketFits, s
      <4>2. \A j \in orch.found : j \in DOMAIN orders
        BY <1>0 DEF WalkTyped
      <4>3. \A j \in orch.found : orders'[j].state # "sent"
        BY <2>2, <3>0, <4>2 DEF BasketFits, Moves
      <4> QED BY <3>0, <3>1, <3>2, <3>6, <4>1, <4>3 DEF BasketFits
    <3> QED BY <1>1, <3>6, <3>9, <3>10, SeenClaims
  <2> QED BY <2>3, <2>4, <2>8, <2>9, <2>10 DEF BasketInv, RebalanceTyped
<1> QED BY <1>2, <1>3 DEF RB!ForceClosed

\* A report that finds room arms its symbol, and uses its attempt up while its cycle
\* is the current one.
LEMMA CountedStep == ASSUME BasketInv, NEW r \in reports, RB!ReportCounted(r) PROVE BasketInv'
<1>0. DispatchTyped /\ WalkTyped /\ RetryTyped /\ OrdersTyped /\ OneRetry /\ CyclesFresh
  BY DEF BasketInv, RebalanceTyped
<1>1. /\ reports' = reports \ {r}
      /\ UNCHANGED <<now, cron, emitted, manual, asked, orch, cycle, firing, orders, blurred>>
  BY DEF RB!ReportCounted, RB!scheduler
<1>2. CASE UNCHANGED <<attempts, armed>>
  BY <1>0, <1>1, <1>2, DropStep DEF Armed, RetryTyped
<1>3. CASE /\ attempts' = IF r.cycle = cycle THEN attempts \cup {r.symbol} ELSE attempts
           /\ armed' = [armed EXCEPT ![r.symbol] = [cycle |-> r.cycle, at |-> cycle.at]]
  <2> DEFINE s == r.symbol
  <2>1. s \in BasketSymbols /\ r.cycle \in RB!Cycles /\ r.cycle # RB!NoCycle /\ cycle.at \in -1..MaxTime
    BY <1>0, BasketConstants DEF RetryTyped
  <2>2. [cycle |-> r.cycle, at |-> cycle.at] \in [cycle: RB!Cycles \cup {RB!NoCycle}, at: -1..MaxTime]
    BY <2>1
  <2>3. armed' \in [BasketSymbols -> [cycle: RB!Cycles \cup {RB!NoCycle}, at: -1..MaxTime]]
    BY <1>0, <1>3, <2>1, <2>2 DEF RetryTyped
  <2>4. /\ armed'[s].cycle = r.cycle /\ armed'[s] # RB!NoArm
        /\ \A t \in BasketSymbols : t # s => armed'[t] = armed[t]
    BY <1>0, <1>3, <2>1, BasketConstants DEF RetryTyped
  <2>5. CASE r.cycle # cycle
    <3>1. Armed' \subseteq Armed
      BY <1>1, <2>4, <2>5 DEF Armed
    <3> QED BY <1>1, <1>3, <2>3, <2>5, <3>1, DropStep
  <2>6. CASE r.cycle = cycle
    <3>1. Armed' = Armed \cup {s} /\ attempts' = attempts \cup {s}
      BY <1>1, <1>3, <2>1, <2>4, <2>6 DEF Armed
    <3>2. DispatchTyped' /\ WalkTyped' /\ OrdersTyped'
      BY <1>0, <1>1, DispatchStays DEF WalkTyped, OrdersTyped
    <3>3. RetryTyped'
      BY <1>0, <1>1, <2>1, <2>3, <3>1 DEF RetryTyped
    <3>4. CyclesFresh'
      BY <1>1, FreshStays
    <3>5. Unwalked' = Unwalked
      BY <1>1 DEF Unwalked
    <3>6. \A t, d : (Opened(t, d)' <=> Opened(t, d)) /\ (OpenedOnce(t, d)' <=> OpenedOnce(t, d))
      BY <1>1 DEF Opened, OpenedOnce, LegsOf
    <3>7. \A q \in reports : q.symbol = s /\ q.cycle = cycle => q = r
      BY <1>0, <2>6 DEF RetryTyped
    <3>8. OpenedOnce(s, cycle) /\ \A f \in firing : f.symbol = s => f.cycle # cycle
      BY <1>0, <2>6 DEF OneRetry
    <3> HIDE DEF s
    <3>9. OneRetry'
      BY <1>0, <1>1, <3>1, <3>5, <3>6, <3>7, <3>8 DEF OneRetry
    <3>10. RB!RetriedOnce'
      BY <1>1 DEF BasketInv, RB!RetriedOnce
    <3>11. Seen'
      <4> SUFFICES ASSUME ~blurred PROVE OneClaim' /\ BasketFits'
        BY <1>1 DEF Seen
      <4>0. OneClaim /\ BasketFits
        BY DEF BasketInv, Seen
      <4>1. s \in Reported /\ Refiring' = Refiring /\ RB!Live' = RB!Live /\ Holding' = Holding
        BY <1>1 DEF Reported, Refiring, RB!Live, Holding, s
      <4>2. \A q \in reports : q.symbol = s => q = r
        BY <4>0 DEF OneClaim, ClaimsApart, s
      <4>3. Reported' = Reported \ {s}
        BY <1>1, <4>2 DEF Reported, s
      <4>4. Retrying' = Retrying /\ Claimed' = Claimed
        BY <3>1, <4>1, <4>3 DEF Retrying, Claimed
      <4>5. ClaimsApart'
        BY <1>1, <3>1, <4>0, <4>1, <4>3, <4>4 DEF OneClaim, ClaimsApart, RB!OneLegPerSymbol
      <4> QED BY <1>1, <4>0, <4>1, <4>4, <4>5, SeenClaims DEF BasketFits
    <3> QED BY <3>2, <3>3, <3>4, <3>9, <3>10, <3>11 DEF BasketInv, RebalanceTyped
  <2> QED BY <2>5, <2>6
<1> QED BY <1>2, <1>3 DEF RB!ReportCounted

\* What may still open a symbol is handed on under the same symbol and cycle: an arm
\* becomes a firing, a firing goes on.
LEMMA HandedOn ==
    ASSUME BasketInv, NEW g \in [symbol: BasketSymbols, cycle: RB!Cycles, at: {"counting", "opening"}],
           NEW F \in SUBSET firing, firing' = F \cup {g},
           UNCHANGED <<now, cron, emitted, manual, asked, orch, cycle, attempts, reports, orders, blurred>>,
           armed' \in [BasketSymbols -> [cycle: RB!Cycles \cup {RB!NoCycle}, at: -1..MaxTime]],
           \/ Armed' = Armed /\ \E f \in firing : f.symbol = g.symbol /\ f.cycle = g.cycle /\ F = firing \ {f}
           \/ g.symbol \in Armed /\ g.cycle = cycle /\ Armed' = Armed \ {g.symbol} /\ F = firing
    PROVE  BasketInv'
<1>0. DispatchTyped /\ WalkTyped /\ RetryTyped /\ OrdersTyped /\ OneRetry /\ CyclesFresh
  BY DEF BasketInv, RebalanceTyped
<1> DEFINE s == g.symbol
<1>1. DispatchTyped' /\ WalkTyped' /\ RetryTyped' /\ OrdersTyped'
  BY <1>0, DispatchStays DEF WalkTyped, RetryTyped, OrdersTyped
<1>2. CyclesFresh'
  BY FreshStays
<1>3. Unwalked' = Unwalked /\ Armed' \subseteq Armed
  BY DEF Unwalked
<1>4. \A t, d : (Opened(t, d)' <=> Opened(t, d)) /\ (OpenedOnce(t, d)' <=> OpenedOnce(t, d))
  BY DEF Opened, OpenedOnce, LegsOf
<1>5. /\ OpenedOnce(s, g.cycle) /\ (g.cycle = cycle => s \in attempts)
      /\ \A q \in reports : q.symbol = s => q.cycle # g.cycle
      /\ g.cycle = cycle => s \notin Armed'
      /\ \A f \in F : f.symbol = s => f.cycle # g.cycle
  BY <1>0 DEF OneRetry
<1>6. OneRetry'
  BY <1>0, <1>3, <1>4, <1>5 DEF OneRetry
<1>7. RB!RetriedOnce'
  BY DEF BasketInv, RB!RetriedOnce
<1>8. Seen'
  <2> SUFFICES ASSUME ~blurred PROVE OneClaim' /\ BasketFits'
    BY DEF Seen
  <2>0. OneClaim /\ BasketFits
    BY DEF BasketInv, Seen
  <2>1. Reported' = Reported /\ RB!Live' = RB!Live /\ Holding' = Holding
    BY DEF Reported, RB!Live, Holding
  <2>2. Refiring' = {f.symbol : f \in F} \cup {s}
    BY DEF Refiring
  <2>3. /\ s \notin Reported /\ s \notin Armed' /\ \A f \in F : f.symbol # s
        /\ Refiring' \cup Armed' = Refiring \cup Armed
    <3>1. CASE \E f \in firing : f.symbol = g.symbol /\ f.cycle = g.cycle /\ Armed' = Armed /\ F = firing \ {f}
      <4>1. PICK f \in firing : f.symbol = g.symbol /\ Armed' = Armed /\ F = firing \ {f}
        BY <3>1
      <4>2. s \in Refiring /\ Refiring' = Refiring /\ \A h \in F : h.symbol # s
        BY <2>0, <2>2, <4>1 DEF OneClaim, ClaimsApart, Refiring
      <4> QED BY <2>0, <4>1, <4>2 DEF OneClaim, ClaimsApart
    <3>2. CASE g.symbol \in Armed /\ Armed' = Armed \ {g.symbol} /\ F = firing
      <4>1. s \notin Refiring /\ s \notin Reported
        BY <2>0, <3>2 DEF OneClaim, ClaimsApart
      <4> QED BY <2>2, <3>2, <4>1 DEF Refiring
    <3> QED BY <3>1, <3>2
  <2>4. Retrying' = Retrying /\ Claimed' = Claimed
    BY <2>1, <2>3 DEF Retrying, Claimed
  <2> HIDE DEF s
  <2>5. \A t \in Refiring' : t \notin Armed' /\ t \notin Reported
    <3>1. \A t \in Refiring' : t = s \/ t \in Refiring
      BY <2>2 DEF Refiring
    <3> QED BY <1>3, <2>0, <2>3, <3>1 DEF OneClaim, ClaimsApart
  <2>6. \A f, h \in firing' : f.symbol = h.symbol => f = h
    BY <2>0, <2>3 DEF OneClaim, ClaimsApart, s
  <2>7. ClaimsApart'
    BY <1>3, <2>0, <2>1, <2>4, <2>5, <2>6 DEF OneClaim, ClaimsApart, RB!OneLegPerSymbol
  <2> QED BY <2>0, <2>1, <2>4, <2>7, SeenClaims DEF BasketFits
<1> QED BY <1>1, <1>2, <1>6, <1>7, <1>8 DEF BasketInv, RebalanceTyped

\* A closed bar claims an arm, and fires it unless it is stale.
LEMMA CandleStep == ASSUME BasketInv, NEW s \in BasketSymbols, RB!CandleClosed(s) PROVE BasketInv'
<1>0. RetryTyped /\ OneRetry /\ OrdersTyped
  BY DEF BasketInv, RebalanceTyped
<1>1. /\ armed[s] # RB!NoArm /\ armed' = [armed EXCEPT ![s] = RB!NoArm]
      /\ UNCHANGED <<now, cron, emitted, manual, asked, orch, cycle, attempts, reports, orders, blurred>>
  BY DEF RB!CandleClosed, RB!Claim, RB!scheduler
<1>2. RB!NoArm \in [cycle: RB!Cycles \cup {RB!NoCycle}, at: -1..MaxTime]
  BY BasketConstants
<1>3. /\ armed' \in [BasketSymbols -> [cycle: RB!Cycles \cup {RB!NoCycle}, at: -1..MaxTime]]
      /\ Armed' = Armed \ {s}
  BY <1>0, <1>1, <1>2 DEF RetryTyped, Armed
<1>4. CASE firing' = firing
  BY <1>1, <1>3, <1>4, DropStep
<1>5. CASE armed[s].cycle = cycle /\ firing' = firing \cup {[symbol |-> s, cycle |-> armed[s].cycle, at |-> "counting"]}
  <2>1. s \in Armed
    BY <1>1, <1>5 DEF Armed
  <2>2. cycle \in RB!Cycles
    BY <1>0, <2>1, LegFields DEF OneRetry, OpenedOnce, Opened, LegsOf, OrdersTyped
  <2> DEFINE g == [symbol |-> s, cycle |-> cycle, at |-> "counting"]
  <2>3. g \in [symbol: BasketSymbols, cycle: RB!Cycles, at: {"counting", "opening"}] /\ g.symbol = s /\ g.cycle = cycle
    BY <2>2
  <2>4. firing' = firing \cup {g}
    BY <1>5
  <2> HIDE DEF g
  <2> QED BY <1>1, <1>3, <2>1, <2>3, <2>4, HandedOn
<1> QED BY <1>4, <1>5 DEF RB!CandleClosed

LEMMA RecountStep == ASSUME BasketInv, NEW f \in firing, RB!RetryCounted(f) PROVE BasketInv'
<1>0. RetryTyped
  BY DEF BasketInv, RebalanceTyped
<1>1. UNCHANGED <<now, cron, emitted, manual, asked, orch, cycle, attempts, armed, reports, orders, blurred>>
  BY DEF RB!RetryCounted, RB!scheduler
<1>2. Armed' = Armed /\ armed' \in [BasketSymbols -> [cycle: RB!Cycles \cup {RB!NoCycle}, at: -1..MaxTime]]
  BY <1>0, <1>1 DEF Armed, RetryTyped
<1>3. CASE firing' = firing \ {f}
  BY <1>1, <1>2, <1>3, DropStep
<1> DEFINE g == [f EXCEPT !.at = "opening"]
<1>4. CASE firing' = (firing \ {f}) \cup {g}
  <2>1. /\ g \in [symbol: BasketSymbols, cycle: RB!Cycles, at: {"counting", "opening"}]
        /\ g.symbol = f.symbol /\ g.cycle = f.cycle
    BY <1>0 DEF RetryTyped
  <2> HIDE DEF g
  <2> DEFINE F == firing \ {f}
  <2>2. F \in SUBSET firing /\ firing' = F \cup {g} /\ F = firing \ {f}
    BY <1>4
  <2> HIDE DEF F
  <2>3. Armed' = Armed /\ \E h \in firing : h.symbol = g.symbol /\ h.cycle = g.cycle /\ F = firing \ {h}
    BY <1>2, <2>1, <2>2
  <2> QED BY <1>1, <1>2, <2>1, <2>2, <2>3, HandedOn
<1> QED BY <1>3, <1>4 DEF RB!RetryCounted

\* One more leg, for a symbol opened at most once in its cycle.
LEMMA LegsGrown ==
    ASSUME BasketInv, NEW s \in BasketSymbols, NEW c \in RB!Cycles, Grows(orders, orders', s, c),
           Opened(s, c) => OpenedOnce(s, c)
    PROVE  /\ \A t, d : t # s \/ d # c => (Opened(t, d)' <=> Opened(t, d)) /\ (OpenedOnce(t, d)' <=> OpenedOnce(t, d))
           /\ ~Opened(s, c) => OpenedOnce(s, c)'
           /\ RB!RetriedOnce'
           /\ RB!Live' = RB!Live \cup {Len(orders')} /\ Len(orders') \notin RB!Live
           /\ orders'[Len(orders')].symbol = s
           /\ \A i \in RB!Live : orders'[i].symbol = orders[i].symbol
           /\ Holding' = Holding \cup {s}
<1>1. \A t, d : t # s \/ d # c => (Opened(t, d)' <=> Opened(t, d)) /\ (OpenedOnce(t, d)' <=> OpenedOnce(t, d))
  BY DEF Grows, Opened, OpenedOnce
<1>2. ~Opened(s, c) => OpenedOnce(s, c)'
  BY DEF Grows, Opened, OpenedOnce
<1>3. LegsOf(orders', s, c) = LegsOf(orders, s, c) \cup {Len(orders')}
  BY DEF Grows
<1>4. Cardinality(LegsOf(orders, s, c)) <= 1 /\ Cardinality(LegsOf(orders, s, c)) \in Nat /\ IsFiniteSet(LegsOf(orders, s, c))
  <2>1. CASE LegsOf(orders, s, c) = {}
    BY <2>1, FS_EmptySet
  <2>2. ASSUME NEW k, LegsOf(orders, s, c) = {k}
        PROVE  /\ Cardinality(LegsOf(orders, s, c)) <= 1 /\ Cardinality(LegsOf(orders, s, c)) \in Nat
               /\ IsFiniteSet(LegsOf(orders, s, c))
    BY <2>2, FS_Singleton
  <2>3. LegsOf(orders, s, c) = {} \/ \E k : LegsOf(orders, s, c) = {k}
    BY DEF Opened, OpenedOnce
  <2> QED BY <2>1, <2>2, <2>3
<1>5. Cardinality(LegsOf(orders', s, c)) <= 2
  <2>1. ASSUME NEW S, IsFiniteSet(S), Cardinality(S) <= 1, Cardinality(S) \in Nat, NEW x PROVE Cardinality(S \cup {x}) <= 2
    <3>1. Cardinality(S \cup {x}) = Cardinality(S) \/ Cardinality(S \cup {x}) = Cardinality(S) + 1
      BY <2>1, FS_AddElement
    <3> QED BY <2>1, <3>1
  <2> QED BY <1>3, <1>4, <2>1
<1>6. RB!RetriedOnce'
  <2> SUFFICES ASSUME NEW t \in BasketSymbols, NEW d \in RB!Cycles PROVE Cardinality(LegsOf(orders', t, d)) <= 2
    BY BasketCount DEF RB!RetriedOnce, LegsOf
  <2>1. CASE t = s /\ d = c
    BY <1>5, <2>1
  <2>2. CASE t # s \/ d # c
    <3>1. LegsOf(orders', t, d) = LegsOf(orders, t, d)
      BY <2>2 DEF Grows
    <3>2. Cardinality(LegsOf(orders, t, d)) <= 2
      BY BasketCount DEF BasketInv, RB!RetriedOnce, LegsOf
    <3> QED BY <3>1, <3>2
  <2> QED BY <2>1, <2>2
<1>7. RB!Live' = RB!Live \cup {Len(orders')} /\ Len(orders') \notin RB!Live
  BY DEF Grows, RB!Live
<1>8. orders'[Len(orders')].symbol = s /\ \A i \in RB!Live : orders'[i].symbol = orders[i].symbol
  BY DEF Grows, RB!Live
<1>9. Holding' = Holding \cup {s}
  BY <1>7, <1>8 DEF Holding
<1> QED BY <1>1, <1>2, <1>6, <1>7, <1>8, <1>9

\* A retry of an open is sent, or comes to nothing.
LEMMA OpensStep == ASSUME BasketInv, NEW f \in firing, RB!RetryOpens(f) PROVE BasketInv'
<1>0. DispatchTyped /\ WalkTyped /\ RetryTyped /\ OrdersTyped /\ OneRetry /\ CyclesFresh
  BY DEF BasketInv, RebalanceTyped
<1>1. /\ firing' = firing \ {f} /\ orders' \in RB!ProcessOpen(f.symbol, f.cycle)
      /\ UNCHANGED <<now, cron, emitted, manual, asked, orch, cycle, attempts, armed, reports, blurred>>
  BY DEF RB!RetryOpens, RB!scheduler
<1>2. Armed' = Armed /\ Unwalked' = Unwalked
  BY <1>1 DEF Armed, Unwalked
<1>3. CASE orders' = orders
  BY <1>0, <1>1, <1>2, <1>3, DropStep DEF RetryTyped
<1>4. CASE Len(orders) < MaxOrders /\ orders' = RB!Sent(f.symbol, f.cycle)
  <2>1. PICK s, c : s = f.symbol /\ c = f.cycle
    OBVIOUS
  <2>2. s \in BasketSymbols /\ c \in RB!Cycles
    BY <1>0, <2>1 DEF RetryTyped
  <2>3. Grows(orders, orders', s, c)
    <3>1. Grows(orders, Append(orders, [symbol |-> s, cycle |-> c, state |-> "sent"]), s, c)
      BY <1>0, <2>2, LegSent DEF OrdersTyped
    <3> QED BY <1>4, <2>1, <3>1 DEF RB!Sent
  <2>4. OpenedOnce(s, c) /\ Opened(s, c)
    BY <1>0, <2>1 DEF OneRetry, OpenedOnce
  <2>5. /\ \A t, d : t # s \/ d # c => (Opened(t, d)' <=> Opened(t, d)) /\ (OpenedOnce(t, d)' <=> OpenedOnce(t, d))
        /\ RB!RetriedOnce'
        /\ RB!Live' = RB!Live \cup {Len(orders')} /\ Len(orders') \notin RB!Live
        /\ orders'[Len(orders')].symbol = s
        /\ \A i \in RB!Live : orders'[i].symbol = orders[i].symbol
        /\ Holding' = Holding \cup {s}
    BY <2>2, <2>3, <2>4, LegsGrown
  <2>6. DispatchTyped' /\ RetryTyped'
    BY <1>0, <1>1, DispatchStays DEF RetryTyped
  <2>7. WalkTyped' /\ OrdersTyped'
    <3>1. orders' \in Seq(Legs) /\ Len(orders') = Len(orders) + 1 /\ DOMAIN orders \subseteq DOMAIN orders'
      BY <2>3 DEF Grows
    <3>2. Len(orders') <= MaxOrders
      BY <1>0, <1>4, <3>1, BasketConstants DEF OrdersTyped
    <3> QED BY <1>0, <1>1, <3>1, <3>2 DEF WalkTyped, OrdersTyped
  <2>8. CyclesFresh'
    <3>1. \E j \in DOMAIN orders : orders[j].cycle = c
      BY <2>4 DEF Opened, LegsOf
    <3>2. ASSUME NEW i \in DOMAIN orders' PROVE \E j \in DOMAIN orders : orders'[i].cycle = orders[j].cycle
      <4>1. CASE i \in DOMAIN orders
        BY <2>3, <4>1 DEF Grows
      <4>2. CASE i = Len(orders')
        BY <2>3, <3>1, <4>2 DEF Grows
      <4> QED BY <2>3, <4>1, <4>2 DEF Grows
    <3> QED BY <1>1, <3>2, FreshStays
  <2>9. OneRetry'
    <3>1. \A t \in Unwalked : t # s \/ cycle # c
      BY <1>0, <2>4 DEF OneRetry
    <3>2. \A g \in firing' : g.symbol # s \/ g.cycle # c
      BY <1>0, <1>1, <2>1 DEF OneRetry
    <3>3. \A q \in reports : q.symbol # s \/ q.cycle # c
      BY <1>0, <2>1 DEF OneRetry
    <3>4. \A t \in Armed : t # s \/ cycle # c
      BY <1>0, <2>1 DEF OneRetry
    <3>5. c = cycle => s \in attempts
      BY <1>0, <2>1 DEF OneRetry
    <3> QED BY <1>0, <1>1, <1>2, <2>5, <3>1, <3>2, <3>3, <3>4, <3>5 DEF OneRetry
  <2>10. Seen'
    <3> SUFFICES ASSUME ~blurred PROVE OneClaim' /\ BasketFits'
      BY <1>1 DEF Seen
    <3>0. OneClaim /\ BasketFits
      BY DEF BasketInv, Seen
    <3>1. s \in Refiring /\ Reported' = Reported
      BY <1>1, <2>1 DEF Refiring, Reported
    <3>2. s \notin Reported /\ s \notin Armed /\ s \notin Holding
      BY <3>0, <3>1 DEF OneClaim, ClaimsApart, Retrying
    <3>3. Refiring' = Refiring \ {s}
      <4>1. \A g \in firing : g.symbol = s => g = f
        BY <2>1, <3>0 DEF OneClaim, ClaimsApart
      <4> QED BY <1>1, <2>1, <4>1 DEF Refiring
    <3>4. Retrying' = Retrying \ {s} /\ Claimed' = Claimed
      BY <1>2, <2>5, <3>1, <3>2, <3>3 DEF Retrying, Claimed
    <3>5. RB!OneLegPerSymbol'
      <4>1. \A i \in RB!Live : orders[i].symbol # s
        BY <3>2 DEF Holding
      <4> QED BY <1>1, <2>5, <3>0, <4>1 DEF OneClaim, ClaimsApart, RB!OneLegPerSymbol
    <3>6. ClaimsApart'
      BY <1>1, <1>2, <2>5, <3>0, <3>1, <3>2, <3>3, <3>4, <3>5 DEF OneClaim, ClaimsApart
    <3>7. orch.pc \in {"definite", "walking", "residual"} =>
              /\ \A i \in RB!Live' : i \in orch.found \/ orders'[i].symbol \in orch.retained
              /\ Retrying' \subseteq orch.retained
              /\ \A i \in orch.found : orders'[i].state # "sent"
      <4> SUFFICES ASSUME orch.pc \in {"definite", "walking", "residual"}
                   PROVE  /\ \A i \in RB!Live' : i \in orch.found \/ orders'[i].symbol \in orch.retained
                          /\ Retrying' \subseteq orch.retained
                          /\ \A i \in orch.found : orders'[i].state # "sent"
        OBVIOUS
      <4>1. s \in orch.retained
        BY <3>0, <3>1 DEF BasketFits, Retrying
      <4>2. \A i \in orch.found : orders'[i] = orders[i]
        BY <1>0, <2>3 DEF WalkTyped, Grows
      <4> QED BY <2>5, <3>0, <3>4, <4>1, <4>2 DEF BasketFits
    <3> QED BY <1>1, <3>4, <3>6, <3>7, SeenClaims
  <2> QED BY <2>5, <2>6, <2>7, <2>8, <2>9, <2>10 DEF BasketInv, RebalanceTyped
<1> QED BY <1>1, <1>3, <1>4 DEF RB!ProcessOpen

LEMMA TailFacts ==
    ASSUME NEW w \in Seq(BasketSymbols), w # <<>>, \A i, j \in DOMAIN w : w[i] = w[j] => i = j
    PROVE  /\ Head(w) \in BasketSymbols /\ Tail(w) \in Seq(BasketSymbols)
           /\ \A i, j \in DOMAIN Tail(w) : Tail(w)[i] = Tail(w)[j] => i = j
           /\ \E k \in DOMAIN w : w[k] = Head(w)
           /\ \A i \in DOMAIN Tail(w) : Tail(w)[i] # Head(w) /\ \E k \in DOMAIN w : w[k] = Tail(w)[i]
<1>1. /\ Head(w) \in BasketSymbols /\ Tail(w) \in Seq(BasketSymbols)
      /\ Len(w) \in Nat /\ Len(w) > 0 /\ DOMAIN w = 1..Len(w) /\ Head(w) = w[1]
  OBVIOUS
<1>2. DOMAIN Tail(w) = 1..(Len(w) - 1) /\ \A i \in 1..(Len(w) - 1) : Tail(w)[i] = w[i + 1]
  OBVIOUS
<1>3. \A i \in 1..(Len(w) - 1) : i + 1 \in DOMAIN w /\ 1 \in DOMAIN w /\ i + 1 # 1
  BY <1>1
<1>4. \A i, j \in DOMAIN Tail(w) : Tail(w)[i] = Tail(w)[j] => i = j
  <2> SUFFICES ASSUME NEW i \in DOMAIN Tail(w), NEW j \in DOMAIN Tail(w), Tail(w)[i] = Tail(w)[j] PROVE i = j
    OBVIOUS
  <2>1. w[i + 1] = w[j + 1] /\ i + 1 \in DOMAIN w /\ j + 1 \in DOMAIN w /\ i \in Int /\ j \in Int
    BY <1>1, <1>2, <1>3
  <2>2. i + 1 = j + 1
    BY <2>1
  <2> QED BY <2>1, <2>2
<1>5. \A i \in DOMAIN Tail(w) : Tail(w)[i] # Head(w) /\ \E k \in DOMAIN w : w[k] = Tail(w)[i]
  BY <1>1, <1>2, <1>3
<1>6. \E k \in DOMAIN w : w[k] = Head(w)
  <2>1. 1 \in DOMAIN w
    BY <1>1
  <2> QED BY <1>1, <2>1
<1> QED BY <1>1, <1>4, <1>5, <1>6

\* The cascade goes on without sending a leg.
LEMMA PassStep ==
    ASSUME BasketInv, WalkTyped', orch.pc = "walking", orch'.pc \in {"walking", "residual"},
           orch'.due = orch.due, orch'.found = orch.found, orch'.survivors = orch.survivors,
           orch.retained \subseteq orch'.retained,
           Cardinality(orch.retained) <= orch.filled => Cardinality(orch'.retained) <= orch'.filled,
           Unwalked' \subseteq Unwalked, \A i, j \in DOMAIN orch'.ranked : orch'.ranked[i] = orch'.ranked[j] => i = j,
           UNCHANGED <<now, cron, emitted, manual, asked, cycle, attempts, armed, reports, firing, orders, blurred>>
    PROVE  BasketInv'
<1>0. DispatchTyped /\ WalkTyped /\ RetryTyped /\ OrdersTyped /\ OneRetry /\ CyclesFresh
  BY DEF BasketInv, RebalanceTyped
<1>1. DispatchTyped' /\ RetryTyped' /\ OrdersTyped'
  BY <1>0, DispatchStays DEF RetryTyped, OrdersTyped
<1>2. CyclesFresh'
  BY FreshStays
<1>3. Armed' = Armed /\ \A s, c : LegsOf(orders', s, c) = LegsOf(orders, s, c)
  BY DEF Armed
<1>4. OneRetry' /\ RB!RetriedOnce'
  BY <1>3, RetryShrinks
<1>5. Seen'
  <2> SUFFICES ASSUME ~blurred PROVE OneClaim' /\ BasketFits'
    BY DEF Seen
  <2>0. OneClaim /\ BasketFits
    BY DEF BasketInv, Seen
  <2>1. Reported' = Reported /\ Refiring' = Refiring /\ RB!Live' = RB!Live /\ Holding' = Holding
    BY DEF Reported, Refiring, RB!Live, Holding
  <2>2. Retrying' = Retrying /\ Claimed' = Claimed
    BY <1>3, <2>1 DEF Retrying, Claimed
  <2>3. ClaimsApart'
    BY <1>3, <2>0, <2>1, <2>2 DEF OneClaim, ClaimsApart, RB!OneLegPerSymbol
  <2>4. OneClaim'
    BY <2>0, <2>2, <2>3 DEF OneClaim
  <2>5. BasketFits'
    BY <2>0, <2>1, <2>2 DEF BasketFits
  <2> QED BY <2>4, <2>5
<1> QED BY <1>1, <1>2, <1>4, <1>5 DEF BasketInv, RebalanceTyped

\* What the cascade retains stays within what it filled.
LEMMA RetainFits ==
    ASSUME WalkTyped, ~RB!BasketFull, NEW s \in BasketSymbols
    PROVE  /\ orch.filled + 1 \in 0..TopN /\ orch.retained \cup {s} \subseteq BasketSymbols
           /\ Cardinality(orch.retained) <= orch.filled => Cardinality(orch.retained \cup {s}) <= orch.filled + 1
<1>1. orch.filled \in 0..TopN /\ ~(orch.filled >= TopN) /\ TopN \in Nat
  BY BasketConstants DEF WalkTyped, RB!BasketFull
<1>2. IsFiniteSet(orch.retained) /\ orch.retained \subseteq BasketSymbols
  BY BasketConstants, FS_Subset DEF WalkTyped
<1>3. Cardinality(orch.retained) \in Nat
  BY <1>2, FS_CardinalityType
<1>4. \/ Cardinality(orch.retained \cup {s}) = Cardinality(orch.retained)
      \/ Cardinality(orch.retained \cup {s}) = Cardinality(orch.retained) + 1
  BY <1>2, FS_AddElement
<1> QED BY <1>1, <1>2, <1>3, <1>4

LEMMA WalkStep == ASSUME BasketInv, RB!Walk PROVE BasketInv'
<1>0. DispatchTyped /\ WalkTyped /\ RetryTyped /\ OrdersTyped /\ OneRetry /\ CyclesFresh
  BY DEF BasketInv, RebalanceTyped
<1>1. /\ orch.pc = "walking" /\ cycle \in RB!Cycles
      /\ UNCHANGED <<now, cron, emitted, manual, asked, cycle, attempts, armed, reports, firing, blurred>>
  BY <1>0 DEF RB!Walk, RB!scheduler, WalkTyped
<1> DEFINE w == orch.ranked
           s == Head(w)
<1>2. w \in Seq(BasketSymbols) /\ \A i, j \in DOMAIN w : w[i] = w[j] => i = j
  BY <1>0 DEF OneRetry, WalkTyped
<1>3. Unwalked = {w[i] : i \in DOMAIN w}
  BY <1>1 DEF Unwalked
<1>4. CASE orch' = [orch EXCEPT !.pc = "residual"] /\ orders' = orders
  <2>1. /\ orch'.pc = "residual" /\ orch'.ranked = orch.ranked /\ orch'.survivors = orch.survivors
        /\ orch'.due = orch.due /\ orch'.retained = orch.retained /\ orch'.filled = orch.filled
        /\ orch'.found = orch.found
    BY <1>0, <1>4 DEF WalkTyped
  <2>2. WalkTyped'
    BY <1>0, <1>1, <1>4, <2>1 DEF WalkTyped
  <2>3. Unwalked' \subseteq Unwalked
    BY <2>1 DEF Unwalked
  <2> QED BY <1>1, <1>2, <1>4, <2>1, <2>2, <2>3, PassStep
<1>5. CASE ~RB!BasketFull /\ w # <<>>
  <2>1. /\ s \in BasketSymbols /\ Tail(w) \in Seq(BasketSymbols)
        /\ \A i, j \in DOMAIN Tail(w) : Tail(w)[i] = Tail(w)[j] => i = j
        /\ \E k \in DOMAIN w : w[k] = s
        /\ \A i \in DOMAIN Tail(w) : Tail(w)[i] # s /\ \E k \in DOMAIN w : w[k] = Tail(w)[i]
    BY <1>2, <1>5, TailFacts
  <2>2. s \in Unwalked /\ \A i \in DOMAIN Tail(w) : Tail(w)[i] \in Unwalked \ {s}
    BY <1>3, <2>1
  <2>3. ASSUME orch'.pc = "walking", orch'.ranked = Tail(w)
        PROVE  Unwalked' \subseteq Unwalked \ {s}
    BY <2>2, <2>3 DEF Unwalked
  <2>4. CASE orch' = [orch EXCEPT !.ranked = Tail(@)] /\ orders' = orders
    <3>1. /\ orch'.pc = "walking" /\ orch'.ranked = Tail(w) /\ orch'.survivors = orch.survivors
          /\ orch'.due = orch.due /\ orch'.retained = orch.retained /\ orch'.filled = orch.filled
          /\ orch'.found = orch.found
      BY <1>0, <1>1, <2>4 DEF WalkTyped
    <3>2. WalkTyped'
      BY <1>0, <1>1, <2>1, <2>4, <3>1 DEF WalkTyped
    <3> HIDE DEF s, w
    <3> QED BY <1>1, <2>1, <2>3, <2>4, <3>1, <3>2, PassStep
  <2>5. CASE orch' = RB!Retain(s)
    <3>1. /\ orch'.pc = "walking" /\ orch'.ranked = Tail(w) /\ orch'.survivors = orch.survivors
          /\ orch'.due = orch.due /\ orch'.retained = orch.retained \cup {s} /\ orch'.filled = orch.filled + 1
          /\ orch'.found = orch.found
      BY <1>0, <1>1, <2>5 DEF WalkTyped, RB!Retain
    <3>2. /\ orch.filled + 1 \in 0..TopN /\ orch.retained \cup {s} \subseteq BasketSymbols
          /\ Cardinality(orch.retained) <= orch.filled => Cardinality(orch.retained \cup {s}) <= orch.filled + 1
      BY <1>0, <1>5, <2>1, RetainFits
    <3>3. ASSUME DOMAIN orders \subseteq DOMAIN orders' PROVE WalkTyped'
      BY <1>0, <1>1, <2>1, <2>5, <3>1, <3>2, <3>3 DEF WalkTyped, RB!Retain
    <3> HIDE DEF s, w
    <3>4. CASE orders' = orders
      BY <1>1, <2>1, <2>3, <3>1, <3>2, <3>3, <3>4, PassStep
    <3>5. CASE s \notin orch.survivors /\ Len(orders) < MaxOrders /\ orders' = RB!Sent(s, cycle)
      <4>0. PICK x, c : x = s /\ c = cycle
        OBVIOUS
      <4>1. Grows(orders, orders', x, c) /\ x \in BasketSymbols /\ c \in RB!Cycles
        BY <1>0, <1>1, <2>1, <3>5, <4>0, LegSent DEF OrdersTyped, RB!Sent
      <4>2. ~Opened(x, c)
        BY <1>0, <2>2, <4>0 DEF OneRetry
      <4>3. /\ \A t, d : t # x \/ d # c => (Opened(t, d)' <=> Opened(t, d)) /\ (OpenedOnce(t, d)' <=> OpenedOnce(t, d))
            /\ OpenedOnce(x, c)'
            /\ RB!RetriedOnce'
            /\ RB!Live' = RB!Live \cup {Len(orders')} /\ Len(orders') \notin RB!Live
            /\ orders'[Len(orders')].symbol = x
            /\ \A i \in RB!Live : orders'[i].symbol = orders[i].symbol
            /\ Holding' = Holding \cup {x}
        BY <4>1, <4>2, LegsGrown
      <4>4. orders' \in Seq(Legs) /\ Len(orders') = Len(orders) + 1 /\ DOMAIN orders \subseteq DOMAIN orders'
        BY <4>1 DEF Grows
      <4>5. OrdersTyped'
        BY <1>0, <3>5, <4>4, BasketConstants DEF OrdersTyped
      <4>6. DispatchTyped' /\ WalkTyped' /\ RetryTyped'
        BY <1>0, <1>1, <3>3, <4>4, DispatchStays DEF RetryTyped
      <4>7. CyclesFresh'
        <5>1. ASSUME NEW i \in DOMAIN orders'
              PROVE  (\E j \in DOMAIN orders : orders'[i].cycle = orders[j].cycle) \/ orders'[i].cycle = cycle
          <6>1. CASE i \in DOMAIN orders
            BY <4>1, <6>1 DEF Grows
          <6>2. CASE i = Len(orders')
            BY <4>0, <4>1, <6>2 DEF Grows
          <6> QED BY <4>1, <6>1, <6>2 DEF Grows
        <5> QED BY <1>1, <3>1, <5>1, FreshStays
      <4>8. Unwalked' \subseteq Unwalked \ {x} /\ Armed' = Armed
        BY <1>1, <2>3, <3>1, <4>0 DEF Armed
      <4>9. OneRetry'
        <5>1. \A t, d : OpenedOnce(t, d) => OpenedOnce(t, d)'
          BY <4>2, <4>3 DEF OpenedOnce
        <5> QED BY <1>0, <1>1, <2>1, <3>1, <4>0, <4>3, <4>8, <5>1 DEF OneRetry
      <4>10. Seen'
        <5> SUFFICES ASSUME ~blurred PROVE OneClaim' /\ BasketFits'
          BY <1>1 DEF Seen
        <5>0. OneClaim /\ BasketFits
          BY DEF BasketInv, Seen
        <5>1. x \notin Claimed
          BY <1>1, <2>2, <3>5, <4>0, <5>0 DEF OneClaim
        <5>2. Reported' = Reported /\ Refiring' = Refiring
          BY <1>1 DEF Reported, Refiring
        <5>3. Retrying' = Retrying /\ Claimed' = Claimed \cup {x}
          BY <4>3, <4>8, <5>2 DEF Retrying, Claimed
        <5>4. RB!OneLegPerSymbol'
          <6>1. \A i \in RB!Live : orders[i].symbol # x
            BY <5>1 DEF Holding, Claimed
          <6> QED BY <1>1, <4>3, <5>0, <6>1 DEF OneClaim, ClaimsApart, RB!OneLegPerSymbol
        <5>5. ClaimsApart'
          BY <1>1, <4>3, <4>8, <5>0, <5>1, <5>2, <5>3, <5>4 DEF OneClaim, ClaimsApart, Claimed
        <5>6. OneClaim'
          BY <1>1, <3>1, <4>8, <5>0, <5>3, <5>5 DEF OneClaim
        <5>7. BasketFits'
          <6>1. \A i \in orch.found : orders'[i] = orders[i]
            BY <1>0, <4>1 DEF WalkTyped, Grows
          <6> QED BY <1>1, <3>1, <3>2, <4>0, <4>3, <5>0, <5>3, <6>1 DEF BasketFits
        <5> QED BY <5>6, <5>7
      <4> QED BY <4>3, <4>5, <4>6, <4>7, <4>9, <4>10 DEF BasketInv, RebalanceTyped
    <3>6. orders' = orders \/ (s \notin orch.survivors /\ Len(orders) < MaxOrders /\ orders' = RB!Sent(s, cycle))
      <4>1. \/ orders' = orders
            \/ s \notin orch.survivors /\ orders' \in RB!ProcessOpen(s, cycle)
        BY <1>5 DEF RB!Walk, RB!Held, s, w
      <4> QED BY <4>1 DEF RB!ProcessOpen
    <3> QED BY <3>4, <3>5, <3>6
  <2>6. orch' = RB!Retain(s) \/ (orch' = [orch EXCEPT !.ranked = Tail(@)] /\ orders' = orders)
    BY <1>5 DEF RB!Walk
  <2> QED BY <2>4, <2>5, <2>6
<1>6. \/ orch' = [orch EXCEPT !.pc = "residual"] /\ orders' = orders
      \/ ~RB!BasketFull /\ w # <<>>
  BY DEF RB!Walk
<1> QED BY <1>4, <1>5, <1>6

LEMMA BasketStep == ASSUME BasketInv, RB!Next PROVE BasketInv'
<1>1. CASE RB!CronFires \/ RB!TriggerRebalance \/ \E t \in manual : RB!TriggerValidated(t) \/ RB!TriggerRejected(t)
  BY <1>1, SchedulerStep
<1>2. CASE RB!ResolveVersion \/ RB!ReadRows
  BY <1>2, ResolveStep, ReadStep
<1>3. CASE RB!DefiniteCloses \/ RB!Walk \/ RB!ResidualCloses
  BY <1>3, ClosesStep, WalkStep
<1>4. CASE RB!RebalanceThrows \/ RB!Tick
  BY <1>4, EndsStep
<1>5. CASE \E r \in reports : RB!ReportCounted(r)
  BY <1>5, CountedStep
<1>6. CASE \E s \in BasketSymbols : RB!CandleClosed(s)
  BY <1>6, CandleStep
<1>7. CASE \E f \in firing : RB!RetryCounted(f) \/ RB!RetryOpens(f)
  BY <1>7, RecountStep, OpensStep
<1>8. ASSUME NEW i \in DOMAIN orders, RB!ForceClosed(i) \/ RB!Settle(i) \/ RB!RowCloses(i) PROVE BasketInv'
  <2>1. CASE RB!ForceClosed(i)
    BY <2>1, ForcedStep
  <2>2. CASE RB!Settle(i)
    <3>1. PICK st \in {"open", "closed"} : orders' = [orders EXCEPT ![i].state = st]
      BY <2>2 DEF RB!Settle
    <3> QED BY <2>2, <3>1, LegEnds DEF RB!Settle, RB!scheduler
  <2>3. CASE RB!RowCloses(i)
    BY <2>3, LegEnds DEF RB!RowCloses, RB!scheduler
  <2> QED BY <1>8, <2>1, <2>2, <2>3
<1> QED BY <1>1, <1>2, <1>3, <1>4, <1>5, <1>6, <1>7, <1>8 DEF RB!Next

LEMMA BasketQuiet == ASSUME BasketInv, UNCHANGED RB!vars PROVE BasketInv'
<1>1. UNCHANGED <<now, cron, emitted, manual, asked, orch, cycle, attempts, armed, reports, firing, orders, blurred>>
  BY DEF RB!vars, RB!scheduler
<1>2. Armed' = Armed /\ armed' \in [BasketSymbols -> [cycle: RB!Cycles \cup {RB!NoCycle}, at: -1..MaxTime]]
  BY <1>1 DEF Armed, BasketInv, RebalanceTyped, RetryTyped
<1> QED BY <1>1, <1>2, DropStep

BasketPart == part = "rebalance" => BasketInv

LEMMA BasketInitial == Init => BasketPart
BY BasketInit DEF Init, BasketPart

LEMMA BasketStays == BasketPart /\ [Next]_vars => BasketPart'
<1> SUFFICES ASSUME BasketPart, [Next]_vars, part' = "rebalance" PROVE BasketInv'
  BY DEF BasketPart
<1>1. CASE Next
  <2>1. part = "rebalance" /\ RB!Next
    BY <1>1 DEF Next
  <2> QED BY <2>1, BasketStep DEF BasketPart
<1>2. CASE UNCHANGED vars
  <2>1. part = "rebalance" /\ UNCHANGED RB!vars
    BY <1>2 DEF vars, RB!vars, RB!scheduler
  <2> QED BY <2>1, BasketQuiet DEF BasketPart
<1> QED BY <1>1, <1>2

\* However the cron, manual triggers, fills, force-closes, closed bars and retries
\* interleave, a symbol is opened at most twice in a cycle; and as long as every
\* rebalance saw the legs of the earlier ones and came to its end, no symbol is bought
\* twice and at most top_n positions are open once all have settled.
THEOREM BasketIsSound == Spec => []BasketSound
<1>1. BasketPart => BasketSound
  <2> SUFFICES ASSUME part = "rebalance", BasketInv
               PROVE  RB!TypeOK /\ RB!BasketBounded /\ RB!RetriedOnce /\ RB!OneLegPerSymbol
    BY DEF BasketPart, BasketSound
  <2>1. DispatchTyped /\ WalkTyped /\ RetryTyped /\ OrdersTyped /\ RebalanceTyped
    BY DEF BasketInv, RebalanceTyped
  <2>2. RB!TypeOK
    BY <2>1, BasketConstants DEF RB!TypeOK, DispatchTyped, WalkTyped, RetryTyped, OrdersTyped
  <2>3. RB!OneLegPerSymbol
    BY DEF BasketInv, Seen, OneClaim, ClaimsApart, RB!OneLegPerSymbol
  <2>4. RB!BasketBounded
    <3> DEFINE P == {i \in DOMAIN orders : orders[i].state = "open"}
    <3> SUFFICES ASSUME ~blurred, orch.pc = "idle" PROVE Cardinality(P) <= TopN
      BY BasketCount DEF RB!BasketBounded, RB!Settled
    <3>1. OneClaim /\ Cardinality(Claimed) <= TopN
      BY DEF BasketInv, Seen, BasketFits
    <3>2. P \subseteq RB!Live /\ \A i, j \in P : orders[i].symbol = orders[j].symbol => i = j
      BY <3>1 DEF RB!Live, OneClaim, ClaimsApart, RB!OneLegPerSymbol
    <3> DEFINE Q == {orders[i].symbol : i \in P}
               f == [i \in P |-> orders[i].symbol]
    <3>3. Q \subseteq Claimed
      BY <3>2 DEF Claimed, Holding
    <3>4. f \in Injection(P, Q)
      <4> HIDE DEF P
      <4>1. f \in [P -> Q] /\ \A i, j \in P : f[i] = f[j] => i = j
        BY <3>2
      <4> HIDE DEF Q, f
      <4> QED BY <4>1 DEF Injection, IsInjective
    <3>5. IsFiniteSet(Q) /\ Cardinality(Q) <= TopN
      <4> HIDE DEF Q
      <4>1. IsFiniteSet(Q)
        BY <2>1, <3>3, ClaimsTyped, FS_Subset
      <4>2. Cardinality(Q) \in Nat /\ Cardinality(Q) <= Cardinality(Claimed) /\ Cardinality(Claimed) \in Nat
        BY <2>1, <3>3, ClaimsTyped
      <4> QED BY <3>1, <4>1, <4>2, BasketConstants
    <3> HIDE DEF P, Q, f
    <3>6. IsFiniteSet(P) /\ Cardinality(P) <= Cardinality(Q)
      BY <3>4, <3>5, FS_Injection
    <3>7. Cardinality(P) \in Nat /\ Cardinality(Q) \in Nat
      BY <3>5, <3>6, FS_CardinalityType
    <3> QED BY <3>5, <3>6, <3>7, BasketConstants DEF P
  <2> QED BY <2>2, <2>3, <2>4 DEF BasketInv
<1> QED BY <1>1, BasketInitial, BasketStays, PTL DEF Spec

-----------------------------------------------------------------------------
(***************************************************************************)
(* The entry rules.  Quotients are bounded by products (DivFacts), and the *)
(* products compared factor by factor.                                     *)
(***************************************************************************)

LEMMA DivFacts ==
    ASSUME NEW a \in Int, NEW b \in Nat \ {0}
    PROVE  a \div b \in Int /\ b * (a \div b) <= a /\ a < b * ((a \div b) + 1)
OBVIOUS

LEMMA DivNat ==
    ASSUME NEW a \in Nat, NEW b \in Nat \ {0}
    PROVE  a \div b \in Nat /\ a \div b <= a
OBVIOUS

LEMMA TimesMono ==
    ASSUME NEW x \in Int, NEW y \in Int, NEW n \in Nat, x <= y
    PROVE  n * x <= n * y
OBVIOUS

LEMMA TimesCancel ==
    ASSUME NEW x \in Int, NEW y \in Int, NEW n \in Nat, n * x < n * y
    PROVE  x < y
OBVIOUS

LEMMA TimesLess ==
    ASSUME NEW x \in Int, NEW y \in Int, NEW n \in Nat \ {0}, x < y
    PROVE  n * x < n * y
OBVIOUS

Trades ==
    [core: {"fade", "follow", "xmom"}, side: {"long", "short"}, ref: Nat \ {0}, anchor: Nat \ {0}, proposed: Int,
     stop: Int, target: Int, qty: Nat, policy: {"none", "maker", "ioc"}, limit: Int, fill: Nat]

\* The price an entry is sized from: the signal price, or for a buy what it pays of the spread above it.
Anchored(t, spread) ==
    t.anchor = t.ref \/ (t.side = "long" /\ t.anchor >= t.ref /\ 20000 * (t.anchor - t.ref) <= t.ref * spread)

\* What the sizer grants.
Granted(t) ==
    /\ t.qty \in 1..ER!Budget
    /\ t.qty * ER!Abs(t.anchor - t.stop) <= ER!Budget
    /\ t.qty * t.anchor <= ER!Leverage * Capital /\ t.qty * t.anchor <= PerCoin

EntryInv ==
    /\ bar \in Bars /\ snap \in Snapshots /\ stage \in ER!Stages
    /\ stage = "idle" => trade = ER!NoTrade
    /\ stage # "idle" =>
          trade \in Trades /\ trade.ref = bar.ref /\ Anchored(trade, snap.spread) /\ trade.stop = trade.proposed
    /\ stage \notin {"idle", "signalled"} => Granted(trade)
    /\ stage \in {"approved", "planned", "open", "unwound"} => ER!Gain(trade.side, trade.ref, trade.stop) < 0
    /\ stage \in {"planned", "open", "unwound"} /\ trade.policy = "ioc" =>
          100 * ER!Gain(trade.side, trade.ref, trade.limit) <= 25 * ER!Abs(trade.ref - trade.stop)
    /\ stage \in {"open", "unwound"} =>
          trade.fill \in FillPrices /\ (trade.policy = "ioc" => ER!Gain(trade.side, trade.fill, trade.limit) >= 0)
    /\ stage = "open" => ER!FillAccepted(trade, trade.fill)

LEMMA EntryConstants ==
    /\ Capital \in Nat \ {0} /\ PerCoin \in Nat \ {0} /\ MinNotional \in Nat \ {0} /\ Relax \in BOOLEAN
    /\ Bars \subseteq ER!BarRecord /\ Snapshots \subseteq ER!SnapshotRecord /\ FillPrices \subseteq Nat \ {0}
    /\ ER!Budget \in Nat /\ 100 * ER!Budget <= Capital /\ ER!Budget <= Capital /\ ER!Leverage = 3
<1>1. /\ Capital \in Nat \ {0} /\ PerCoin \in Nat \ {0} /\ MinNotional \in Nat \ {0} /\ Relax \in BOOLEAN
      /\ Bars \subseteq ER!BarRecord /\ Snapshots \subseteq ER!SnapshotRecord /\ FillPrices \subseteq Nat \ {0}
  BY EntryAssumption DEF ER!ConstantsOK
<1>2. ER!Budget \in Nat /\ 100 * ER!Budget <= Capital
  BY <1>1, DivFacts DEF ER!Budget
<1> QED BY <1>1, <1>2 DEF ER!Leverage

LEMMA BarFields ==
    ASSUME NEW b \in Bars
    PROVE  /\ b.version \in ER!Versions /\ b.vwap \in Nat /\ b.ref \in Nat \ {0} /\ b.atr \in Nat \ {0} /\ b.wick \in Int
           /\ b.oi \in -1..1 /\ b.vol \in 0..3 /\ b.regime \in {"calm", "up", "down", "ranging"}
           /\ b.idio \in BOOLEAN /\ b.young \in BOOLEAN /\ b.inside \in BOOLEAN
BY EntryConstants DEF ER!BarRecord

LEMMA SnapshotFields ==
    ASSUME NEW s \in Snapshots
    PROVE  /\ s.tier \in ER!Tiers /\ s.spread \in Nat /\ s.depth \in Nat /\ s.slippage \in Nat /\ s.oi \in BOOLEAN
           /\ s.buying \in BOOLEAN /\ s.funding \in -3..3 /\ s.breadth \in Int /\ s.sameBar \in Nat
           /\ s.shock \in BOOLEAN /\ s.finite \in BOOLEAN
BY EntryConstants DEF ER!SnapshotRecord

LEMMA FlowTyped ==
    ASSUME NEW b \in Bars, NEW s \in Snapshots
    PROVE  /\ ER!FlowType(b, s) \in ER!Flows
           /\ ER!Core(b, s) \in {"fade", "follow", "xmom", "skip"}
           /\ ER!Core(b, s) = "xmom" <=> b.version = "xmom"
<1>1. b.version \in ER!Versions /\ b.oi \in -1..1 /\ b.idio \in BOOLEAN
  BY BarFields
<1>2. ER!FlowType(b, s) \in ER!Flows
  <2>1. CASE b.version = "xmom"
    BY <2>1 DEF ER!FlowType, ER!Flows
  <2>2. CASE b.version # "xmom" /\ ER!Trap(b)
    <3>1. ~(b.oi < 0)
      BY <1>1, <2>2 DEF ER!Trap
    <3> QED BY <2>2, <3>1 DEF ER!FlowType, ER!Flows
  <2>3. CASE b.version # "xmom" /\ ~ER!Trap(b)
    BY <2>3 DEF ER!FlowType, ER!Flows
  <2> QED BY <2>1, <2>2, <2>3
<1>3. /\ ER!Core(b, s) \in {"fade", "follow", "xmom", "skip"}
      /\ ER!Core(b, s) = "xmom" <=> b.version = "xmom"
  <2>1. CASE b.version = "v3"
    BY <2>1 DEF ER!Core
  <2>2. CASE b.version # "v3"
    BY <1>1, <2>2 DEF ER!Core, ER!Versions
  <2> QED BY <2>1, <2>2
<1> QED BY <1>2, <1>3

\* The prices a core proposes are whole ticks, and the anchor lies where it should.
LEMMA ExitTyped ==
    ASSUME NEW b \in Bars, NEW s \in Snapshots, NEW core \in {"fade", "follow", "xmom"}
    PROVE  /\ ER!Side(core, b) \in {"long", "short"}
           /\ ER!Proposed(core, b, s).stop \in Int /\ ER!Proposed(core, b, s).target \in Int
           /\ ER!Proposed(core, b, s).anchor \in Nat \ {0}
           /\ \/ ER!Proposed(core, b, s).anchor = b.ref
              \/ /\ ER!Side(core, b) = "long" /\ ER!Proposed(core, b, s).anchor >= b.ref
                 /\ 20000 * (ER!Proposed(core, b, s).anchor - b.ref) <= b.ref * s.spread
<1>1. b.vwap \in Nat /\ b.ref \in Nat \ {0} /\ b.atr \in Nat \ {0} /\ b.wick \in Int /\ s.spread \in Nat
  BY BarFields, SnapshotFields
<1>2. CASE core = "fade"
  <2>1. ER!FadeTarget(b) \in Int
    BY <1>1, DivFacts DEF ER!FadeTarget
  <2>2. ER!FadeCap(b) \in Int
    BY <1>1, <2>1, DivFacts DEF ER!FadeCap, ER!Abs
  <2>3. ER!StructuralStop(b) \in Int
    <3>1. /\ (b.wick * 999) \div 1000 \in Int /\ (b.ref * 98) \div 100 \in Int
          /\ (b.wick * 1001) \div 1000 \in Int /\ (b.ref * 102) \div 100 \in Int
      BY <1>1, DivFacts
    <3> QED BY <1>1, <2>2, <3>1 DEF ER!StructuralStop, ER!Greater, ER!Lesser
  <2>4. ER!Proposed(core, b, s) = ER!FadeExit(b) /\ ER!Side(core, b) \in {"long", "short"}
    BY <1>2 DEF ER!Proposed, ER!Side, ER!FadeSide
  <2> QED BY <1>1, <2>1, <2>3, <2>4 DEF ER!FadeExit
<1>3. CASE core = "follow"
  <2>1. ER!FollowDistance(b) \in Int
    <3>1. ER!Abs(b.ref - b.vwap) \in Int
      BY <1>1 DEF ER!Abs
    <3>2. (7 * b.atr) \div 2 \in Int /\ (b.ref * 48) \div 10000 \in Int /\ (3 * ER!Abs(b.ref - b.vwap)) \div 2 \in Int
      BY <1>1, <3>1, DivFacts
    <3> QED BY <1>1, <3>1, <3>2 DEF ER!FollowDistance, ER!BaseTarget, ER!Greater, ER!Lesser
  <2>2. ER!Proposed(core, b, s) = ER!FollowExit(b) /\ ER!Side(core, b) \in {"long", "short"}
    BY <1>3 DEF ER!Proposed, ER!Side, ER!FollowSide
  <2> QED BY <1>1, <2>1, <2>2 DEF ER!FollowExit, ER!Favour
<1>4. CASE core = "xmom"
  <2> DEFINE n == b.ref * s.spread
  <2>1. ER!Proposed(core, b, s) = ER!XmomExit(b, s) /\ ER!Side(core, b) = "long"
    BY <1>4 DEF ER!Proposed, ER!Side
  <2>2. n \in Nat /\ n \div 20000 \in Nat /\ 20000 * (n \div 20000) <= n
    <3>1. n \in Nat
      BY <1>1
    <3> HIDE DEF n
    <3> QED BY <3>1, DivFacts, DivNat
  <2>3. ER!ExpectedFill(b, s) = b.ref + (n \div 20000)
    BY DEF ER!ExpectedFill
  <2>4. PICK x \in Nat : ER!ExpectedFill(b, s) = b.ref + x /\ 20000 * x <= b.ref * s.spread
    BY <2>2, <2>3
  <2>5. /\ ER!Proposed(core, b, s).anchor = b.ref + x
        /\ ER!Proposed(core, b, s).stop = (b.ref + x) - 2 * b.atr
        /\ ER!Proposed(core, b, s).target = (b.ref + x) + 3 * b.atr
    BY <2>1, <2>4 DEF ER!XmomExit
  <2> QED BY <1>1, <2>1, <2>4, <2>5
<1> QED BY <1>2, <1>3, <1>4

\* What the sizer grants for a stop at a distance is within the budget and the ceilings.
LEMMA SizedWithin ==
    ASSUME NEW dist \in Nat \ {0}, NEW k \in {1, 2}, NEW anchor \in Nat \ {0}, NEW budget \in Nat, NEW ceiling \in Nat,
           NEW q, q = ER!Lesser(budget \div (dist * k), ceiling \div anchor)
    PROVE  q \in Nat /\ q <= budget /\ q * dist <= budget /\ q * anchor <= ceiling
<1>1. PICK m \in Nat \ {0} : m = dist * k /\ dist <= m
  OBVIOUS
<1>2. PICK r \in Nat : r = budget \div m /\ m * r <= budget /\ r <= budget
  BY DivFacts, DivNat
<1>3. PICK c \in Nat : c = ceiling \div anchor /\ anchor * c <= ceiling
  BY DivFacts, DivNat
<1>4. q \in Nat /\ q <= r /\ q <= c
  BY <1>1, <1>2, <1>3 DEF ER!Lesser
<1>5. r * dist <= r * m /\ dist * q <= dist * r /\ anchor * q <= anchor * c
  BY <1>1, <1>4, TimesMono
<1>6. q * dist <= budget
  BY <1>2, <1>4, <1>5
<1>7. q * anchor <= ceiling
  BY <1>3, <1>4, <1>5
<1> QED BY <1>2, <1>4, <1>6, <1>7

\* The stop of a quantity within the budget and the leverage lies inside the distance the
\* liquidation price leaves: the quantity falls with the distance, so the distance grows.
LEMMA StopInside ==
    ASSUME NEW ref \in Nat \ {0}, NEW anchor \in Nat \ {0}, NEW near \in Nat \ {0}, NEW far \in Nat,
           NEW qty \in Nat \ {0}, NEW capital \in Nat \ {0},
           qty * anchor <= 3 * capital, 100 * (qty * far) <= capital, near <= far, anchor <= 2 * ref
    PROVE  near <= (ref * (((200 * capital) \div (qty * anchor)) - 1)) \div 250
<1>1. PICK n \in Nat \ {0} : n = qty * anchor
  OBVIOUS
<1>2. PICK k \in Int : k = (200 * capital) \div n /\ n * k <= 200 * capital /\ 200 * capital < n * (k + 1)
  BY DivFacts
<1>3. 66 <= k
  <2> SUFFICES ASSUME k + 1 <= 66 PROVE FALSE
    OBVIOUS
  <2>1. n * (k + 1) <= n * 66
    BY TimesMono
  <2> QED BY <1>1, <1>2, <2>1
<1>4. 20000 * far < anchor * (k + 1)
  <2>1. PICK a \in Int : a = anchor * (k + 1)
    OBVIOUS
  <2>2. n * (k + 1) = qty * a
    BY <1>1, <2>1
  <2>3. 20000 * (qty * far) < qty * a
    <3>1. PICK z \in Nat : z = qty * far
      OBVIOUS
    <3> QED BY <1>2, <2>2, <3>1
  <2>4. qty * (20000 * far) < qty * a
    BY <2>3
  <2>5. 20000 * far < a
    BY <2>1, <2>4, TimesCancel
  <2> QED BY <2>1, <2>5
<1>5. PICK y \in Int : y = ref * (k + 1) /\ ref * (k - 1) = y - 2 * ref
  OBVIOUS
<1>6. 10000 * far < y
  <2>1. (k + 1) * anchor <= (k + 1) * (2 * ref)
    BY <1>3, TimesMono
  <2>2. (k + 1) * (2 * ref) = 2 * y /\ (k + 1) * anchor = anchor * (k + 1)
    BY <1>5
  <2> QED BY <1>4, <1>5, <2>1, <2>2
<1>7. PICK x \in Int : x = ref * (k - 1) /\ 250 * near <= x
  <2>1. CASE 2 * ref <= 9750 * near
    BY <1>5, <1>6, <2>1
  <2>2. CASE 9750 * near < 2 * ref
    <3>1. ref * 65 <= ref * (k - 1)
      BY <1>3, TimesMono
    <3> QED BY <2>2, <3>1
  <2> QED BY <2>1, <2>2
<1>8. x \div 250 \in Int /\ x < 250 * ((x \div 250) + 1)
  BY DivFacts
<1>9. near <= x \div 250
  BY <1>7, <1>8
<1> QED BY <1>1, <1>2, <1>7, <1>9

LEMMA EntryInit == ASSUME ER!Init PROVE EntryInv
BY DEF ER!Init, EntryInv, ER!Stages

LEMMA SignalStep == ASSUME EntryInv, ER!Signal PROVE EntryInv'
<1>1. bar \in Bars /\ snap \in Snapshots /\ UNCHANGED <<bar, snap>> /\ stage' = "signalled" /\ ~ER!Skips(bar, snap)
  BY DEF EntryInv, ER!Signal
<1> DEFINE core == ER!Core(bar, snap)
           e == ER!Proposed(core, bar, snap)
<1>2. core \in {"fade", "follow", "xmom"}
  BY <1>1, FlowTyped DEF ER!Skips
<1>3. trade' = [core |-> core, side |-> ER!Side(core, bar), ref |-> bar.ref, anchor |-> e.anchor, proposed |-> e.stop,
                stop |-> e.stop, target |-> e.target, qty |-> 0, policy |-> "none", limit |-> 0, fill |-> 0]
  BY DEF ER!Signal
<1>4. /\ ER!Side(core, bar) \in {"long", "short"} /\ e.stop \in Int /\ e.target \in Int /\ e.anchor \in Nat \ {0}
      /\ \/ e.anchor = bar.ref
         \/ ER!Side(core, bar) = "long" /\ e.anchor >= bar.ref /\ 20000 * (e.anchor - bar.ref) <= bar.ref * snap.spread
      /\ bar.ref \in Nat \ {0}
  BY <1>1, <1>2, ExitTyped, BarFields
<1> HIDE DEF core, e
<1>5. trade' \in Trades /\ trade'.ref = bar.ref /\ trade'.stop = trade'.proposed
  BY <1>2, <1>3, <1>4 DEF Trades
<1>6. Anchored(trade', snap.spread)
  BY <1>3, <1>4 DEF Anchored
<1> QED BY <1>1, <1>5, <1>6 DEF EntryInv, ER!Stages

LEMMA TradeFields ==
    ASSUME NEW t \in Trades
    PROVE  /\ t.core \in {"fade", "follow", "xmom"} /\ t.side \in {"long", "short"} /\ t.ref \in Nat \ {0}
           /\ t.anchor \in Nat \ {0} /\ t.proposed \in Int /\ t.stop \in Int /\ t.target \in Int /\ t.qty \in Nat
           /\ t.policy \in {"none", "maker", "ioc"} /\ t.limit \in Int /\ t.fill \in Nat
           /\ ER!Abs(t.anchor - t.stop) \in Nat /\ ER!Abs(t.ref - t.stop) \in Nat /\ ER!Abs(t.ref - t.proposed) \in Nat
BY DEF Trades, ER!Abs

LEMMA SizeStep == ASSUME EntryInv, ER!Size PROVE EntryInv'
<1>1. /\ bar \in Bars /\ snap \in Snapshots /\ UNCHANGED <<bar, snap>> /\ stage = "signalled" /\ stage' = "sized"
      /\ trade \in Trades /\ trade.ref = bar.ref /\ Anchored(trade, snap.spread) /\ trade.stop = trade.proposed
  BY DEF EntryInv, ER!Size
<1> DEFINE dist == ER!Abs(trade.anchor - trade.stop)
           k == IF ER!FundingCut THEN 2 ELSE 1
<1>2. PICK q : /\ q = ER!ClampToCeilings(ER!RiskQty(dist)) /\ q * trade.anchor >= MinNotional /\ dist >= 1
               /\ trade' = [trade EXCEPT !.qty = q]
  BY DEF ER!Size
<1>3. dist \in Nat \ {0} /\ trade.anchor \in Nat \ {0} /\ k \in {1, 2}
  BY <1>1, <1>2, TradeFields
<1>4. PICK ceiling \in Nat : ceiling = ER!Lesser(ER!Leverage * Capital, PerCoin)
  BY EntryConstants DEF ER!Lesser
<1>5. q = ER!Lesser(ER!Budget \div (dist * k), ceiling \div trade.anchor)
  BY <1>2, <1>4 DEF ER!ClampToCeilings, ER!RiskQty
<1> HIDE DEF k
<1>6. q \in Nat /\ q <= ER!Budget /\ q * dist <= ER!Budget /\ q * trade.anchor <= ceiling
  <2> HIDE DEF dist
  <2> QED BY <1>3, <1>5, EntryConstants, SizedWithin
<1>7. q # 0
  BY <1>2, <1>3, EntryConstants
<1>8. trade' \in Trades /\ trade'.qty = q /\ \A f \in {"core", "side", "ref", "anchor", "proposed", "stop"} : trade'[f] = trade[f]
  BY <1>1, <1>2, <1>6 DEF Trades
<1>9. Granted(trade')
  <2>1. q * trade.anchor <= ER!Leverage * Capital /\ q * trade.anchor <= PerCoin
    BY <1>3, <1>4, <1>6, EntryConstants DEF ER!Lesser
  <2>2. q \in 1..ER!Budget
    BY <1>6, <1>7, EntryConstants
  <2> QED BY <1>6, <1>8, <2>1, <2>2 DEF Granted
<1>10. Anchored(trade', snap.spread)
  BY <1>1, <1>8 DEF Anchored
<1> QED BY <1>1, <1>8, <1>9, <1>10 DEF EntryInv, ER!Stages

LEMMA ApproveStep == ASSUME EntryInv, ER!Approve PROVE EntryInv'
<1>1. /\ bar \in Bars /\ snap \in Snapshots /\ UNCHANGED <<bar, snap>> /\ stage = "sized" /\ stage' = "approved"
      /\ trade \in Trades /\ trade.ref = bar.ref /\ Anchored(trade, snap.spread) /\ trade.stop = trade.proposed
      /\ Granted(trade)
      /\ ER!Gain(trade.side, trade.ref, trade.stop) < 0
      /\ trade' = [trade EXCEPT !.stop = ER!ClampedStop(trade)]
  BY DEF EntryInv, ER!Approve, ER!ExitPasses
<1>2. snap.spread \in Nat /\ snap.spread <= 50
  <2>1. snap.spread \in Nat /\ ER!Read(bar, snap).spread = snap.spread
    <3>1. snap \in ER!SnapshotRecord
      BY <1>1, EntryConstants
    <3> QED BY <3>1 DEF ER!Read, ER!SnapshotRecord
  <2>2. ER!Read(bar, snap).spread <= ER!SpreadCeiling(ER!Read(bar, snap).tier, Relax)
    BY DEF ER!Approve, ER!TierFilterPasses, ER!Liquid
  <2>3. ASSUME NEW tier PROVE ER!SpreadCeiling(tier, Relax) \in Nat /\ ER!SpreadCeiling(tier, Relax) <= 50
    <3>1. (CASE tier = "t1" -> 15 [] tier = "t2" -> 30 [] OTHER -> 50) \in {15, 30, 50}
      OBVIOUS
    <3> QED BY <3>1 DEF ER!SpreadCeiling, ER!Greater
  <2> QED BY <2>1, <2>2, <2>3
<1> DEFINE near == ER!Abs(trade.ref - trade.stop)
           far == ER!Abs(trade.anchor - trade.stop)
<1>3. near \in Nat \ {0} /\ far \in Nat /\ near <= far
  BY <1>1, TradeFields DEF ER!Abs, ER!Gain, Anchored
<1>4. trade.ref \in Nat \ {0} /\ trade.anchor \in Nat \ {0} /\ trade.anchor <= 2 * trade.ref
  <2>1. trade.ref \in Nat \ {0} /\ trade.anchor \in Nat \ {0}
    BY <1>1, TradeFields
  <2>2. trade.ref * snap.spread <= trade.ref * 50
    BY <1>2, <2>1, TimesMono
  <2>3. PICK y \in Nat : y = trade.ref * snap.spread /\ y <= trade.ref * 50
    BY <1>2, <2>1, <2>2
  <2> QED BY <1>1, <2>1, <2>3 DEF Anchored
<1>5. /\ trade.qty \in Nat \ {0} /\ trade.qty * trade.anchor <= 3 * Capital
      /\ 100 * (trade.qty * far) <= Capital
  <2> HIDE DEF far
  <2>1. trade.qty \in Nat \ {0} /\ trade.qty * far <= ER!Budget /\ trade.qty * trade.anchor <= ER!Leverage * Capital
    BY <1>1, EntryConstants DEF Granted, far
  <2>2. PICK z \in Nat : z = trade.qty * far
    BY <1>3, <2>1
  <2> QED BY <2>1, <2>2, EntryConstants
<1>6. near <= ER!SafeDistance(trade)
  <2> HIDE DEF near, far
  <2>1. near <= (trade.ref * (((200 * Capital) \div (trade.qty * trade.anchor)) - 1)) \div 250
    BY <1>3, <1>4, <1>5, EntryConstants, StopInside
  <2>2. ~(trade.qty * trade.anchor > ER!Leverage * Capital)
    BY <1>4, <1>5, EntryConstants
  <2> QED BY <2>1, <2>2 DEF ER!SafeDistance
<1>7. ER!ClampedStop(trade) = trade.stop
  BY <1>6 DEF ER!ClampedStop
<1>8. trade' = trade
  BY <1>1, <1>7 DEF Trades
<1>9. Granted(trade') /\ Anchored(trade', snap.spread) /\ ER!Gain(trade'.side, trade'.ref, trade'.stop) < 0
  BY <1>1, <1>8
<1> QED BY <1>1, <1>8, <1>9 DEF EntryInv, ER!Stages

LEMMA PlanStep == ASSUME EntryInv, ER!Plan PROVE EntryInv'
<1>1. /\ bar \in Bars /\ snap \in Snapshots /\ UNCHANGED <<bar, snap>> /\ stage = "approved" /\ stage' = "planned"
      /\ trade \in Trades /\ trade.ref = bar.ref /\ Anchored(trade, snap.spread) /\ trade.stop = trade.proposed
      /\ Granted(trade) /\ ER!Gain(trade.side, trade.ref, trade.stop) < 0
  BY DEF EntryInv, ER!Plan
<1> DEFINE policy == ER!LookupOrderPolicy(ER!Direction(trade.core), snap.tier, ER!FlowType(bar, snap))
           cap == ER!SlippageCap(trade, snap.tier)
           limit == IF policy = "ioc" THEN ER!Favour(trade.side, trade.ref, cap) ELSE trade.ref
<1>2. trade' = [trade EXCEPT !.policy = policy, !.limit = limit]
  BY DEF ER!Plan
<1>3. policy \in {"maker", "ioc"}
  <2> DEFINE found == ER!Matches(ER!Direction(trade.core), snap.tier, ER!FlowType(bar, snap))
  <2>1. \A r \in found : r.policy \in {"maker", "ioc"}
    BY DEF ER!Matches, ER!EntryRows, ER!MakerRows, ER!IocRows, ER!Row
  <2>2. found # {} => (CHOOSE r \in found : TRUE) \in found
    OBVIOUS
  <2> QED BY <2>1, <2>2 DEF ER!LookupOrderPolicy
<1>4. cap \in Int /\ 100 * cap <= 25 * ER!Abs(trade.ref - trade.stop)
  <2>1. PICK y \in Nat : y = ER!Abs(trade.ref - trade.proposed) /\ y = ER!Abs(trade.ref - trade.stop)
    BY <1>1, TradeFields
  <2>2. ER!SlippageTier(snap.tier) \in Nat
    BY DEF ER!SlippageTier
  <2>3. PICK x \in Nat : x = trade.ref * ER!SlippageTier(snap.tier)
    BY <1>1, <2>2, TradeFields
  <2>4. cap = ER!Lesser(x \div 10000, (y * 25) \div 100)
    BY <2>1, <2>3 DEF ER!SlippageCap, ER!SlShare
  <2>5. x \div 10000 \in Int /\ (y * 25) \div 100 \in Int /\ 100 * ((y * 25) \div 100) <= y * 25
    BY DivFacts
  <2> QED BY <2>1, <2>4, <2>5 DEF ER!Lesser
<1> HIDE DEF policy, cap
<1>5. limit \in Int /\ (policy = "ioc" => ER!Gain(trade.side, trade.ref, limit) = cap)
  BY <1>1, <1>4, TradeFields DEF ER!Favour, ER!Gain
<1> HIDE DEF limit
<1>6. /\ trade' \in Trades /\ trade'.policy = policy /\ trade'.limit = limit
      /\ \A f \in {"core", "side", "ref", "anchor", "proposed", "stop", "qty"} : trade'[f] = trade[f]
  BY <1>1, <1>2, <1>3, <1>5 DEF Trades
<1>7. Granted(trade') /\ Anchored(trade', snap.spread)
  BY <1>1, <1>6 DEF Granted, Anchored
<1> QED BY <1>1, <1>4, <1>5, <1>6, <1>7 DEF EntryInv, ER!Stages

LEMMA FillStep == ASSUME EntryInv, NEW p \in FillPrices, ER!Fill(p) PROVE EntryInv'
<1>1. /\ bar \in Bars /\ snap \in Snapshots /\ UNCHANGED <<bar, snap>> /\ stage = "planned"
      /\ trade \in Trades /\ trade.ref = bar.ref /\ Anchored(trade, snap.spread) /\ trade.stop = trade.proposed
      /\ Granted(trade) /\ ER!Gain(trade.side, trade.ref, trade.stop) < 0
      /\ trade.policy = "ioc" => ER!Gain(trade.side, p, trade.limit) >= 0
      /\ trade.policy = "ioc" => 100 * ER!Gain(trade.side, trade.ref, trade.limit) <= 25 * ER!Abs(trade.ref - trade.stop)
      /\ trade' = [trade EXCEPT !.fill = p]
      /\ stage' = IF ER!FillAccepted(trade, p) THEN "open" ELSE "unwound"
  BY DEF EntryInv, ER!Fill
<1>2. p \in Nat
  BY EntryConstants
<1>3. /\ trade' \in Trades /\ trade'.fill = p
      /\ \A f \in {"core", "side", "ref", "anchor", "proposed", "stop", "target", "qty", "policy", "limit"} : trade'[f] = trade[f]
  BY <1>1, <1>2 DEF Trades
<1>4. Granted(trade') /\ Anchored(trade', snap.spread)
  BY <1>1, <1>3 DEF Granted, Anchored
<1>5. stage' = "open" => ER!FillAccepted(trade, p)
  BY <1>1
<1>6. ER!FillAccepted(trade, p) => ER!FillAccepted(trade, trade.fill)'
  BY <1>1, <1>3 DEF ER!FillAccepted, ER!SlFloor
<1> QED BY <1>1, <1>3, <1>4, <1>5, <1>6 DEF EntryInv, ER!Stages

LEMMA EntryStep == ASSUME EntryInv, ER!Next PROVE EntryInv'
<1>1. CASE ER!NextBar
  BY <1>1 DEF ER!NextBar, EntryInv, ER!Stages
<1> QED BY <1>1, SignalStep, SizeStep, ApproveStep, PlanStep, FillStep DEF ER!Next

\* The quotas of the tiers, and what the engage and resume thresholds of the halt say of
\* the same snapshot.
LEMMA RelaxIsLaxer ==
    ASSUME NEW s \in Snapshots
    PROVE  /\ ER!Liquid(s, FALSE) => ER!Liquid(s, TRUE)
           /\ ER!IsStressed(s, TRUE) => ER!IsStressed(s, FALSE)
<1>1. s.tier \in ER!Tiers /\ s.spread \in Nat /\ s.depth \in Nat
  BY SnapshotFields
<1>2. \A x \in Nat :
         /\ x <= ER!SpreadCeiling(s.tier, FALSE) => x <= ER!SpreadCeiling(s.tier, TRUE)
         /\ x > ER!DepthFloor(s.tier, FALSE) => x > ER!DepthFloor(s.tier, TRUE)
  <2>1. CASE s.tier = "t1"
    BY <2>1 DEF ER!SpreadCeiling, ER!DepthFloor, ER!Greater, ER!Lesser
  <2>2. CASE s.tier = "t2"
    BY <2>2 DEF ER!SpreadCeiling, ER!DepthFloor, ER!Greater, ER!Lesser
  <2>3. CASE s.tier = "t3"
    BY <2>3 DEF ER!SpreadCeiling, ER!DepthFloor, ER!Greater, ER!Lesser
  <2> QED BY <1>1, <2>1, <2>2, <2>3 DEF ER!Tiers
<1>3. ASSUME ER!Liquid(s, FALSE) PROVE ER!Liquid(s, TRUE)
  <2>0. s.oi
    BY <1>3, Zenon DEF ER!Liquid
  <2>1. s.spread <= ER!SpreadCeiling(s.tier, FALSE) /\ s.depth > ER!DepthFloor(s.tier, FALSE)
    BY <1>3, Zenon DEF ER!Liquid
  <2>2. s.spread <= ER!SpreadCeiling(s.tier, TRUE) /\ s.depth > ER!DepthFloor(s.tier, TRUE)
    BY <1>1, <1>2, <2>1, Zenon
  <2> QED BY <2>0, <2>2, Zenon DEF ER!Liquid
<1>4. ER!ActiveLegs(s, TRUE) \subseteq ER!ActiveLegs(s, FALSE)
  BY DEF ER!ActiveLegs
<1>5. ER!IsStressed(s, TRUE) => ER!IsStressed(s, FALSE)
  BY <1>4 DEF ER!IsStressed
<1> QED BY <1>3, <1>5

LEMMA ResumesQuietly ==
    ASSUME NEW s \in Snapshots, NEW relax \in BOOLEAN, NEW leg \in {"breadth", "same_bar"}, ~ER!StillStressed(leg, s)
    PROVE  leg # ER!ClassifyHaltLeg(s, relax)
<1> DEFINE legs == ER!ActiveLegs(s, relax)
<1> SUFFICES ASSUME leg = ER!ClassifyHaltLeg(s, relax) PROVE FALSE
  OBVIOUS
<1>1. s.breadth \in Int /\ s.sameBar \in Nat
  BY SnapshotFields
<1>2. legs # {} /\ leg = CHOOSE l \in legs : TRUE
  BY DEF ER!ClassifyHaltLeg
<1>3. leg \in legs
  <2> HIDE DEF legs
  <2> QED BY <1>2
<1> QED BY <1>1, <1>3 DEF ER!ActiveLegs, ER!StillStressed, ER!Abs

LEMMA EntryCount == \A S : (ER!IsFiniteSet(S) <=> IsFiniteSet(S)) /\ ER!Cardinality(S) = Cardinality(S)
BY DEF ER!IsFiniteSet, IsFiniteSet, ER!Cardinality, Cardinality

\* Every direction, tier and flow has one row.
LEMMA OneRow ==
    ASSUME NEW dir \in {"fade", "follow"}, NEW tier \in ER!Tiers, NEW flow \in ER!Flows
    PROVE  ER!Cardinality(ER!Matches(dir, tier, flow)) = 1
<1> DEFINE line(p) == [dir |-> dir, tier |-> tier, flow |-> flow, policy |-> p]
<1>1. ASSUME NEW d, NEW T, NEW F, NEW p
      PROVE  \A r : r \in ER!Row(d, T, F, p) /\ r.dir = dir /\ r.tier = tier /\ r.flow = flow
                      <=> r = line(p) /\ d = dir /\ tier \in T /\ flow \in F
  BY DEF ER!Row
<1>2. \A r : r \in ER!Matches(dir, tier, flow) <=>
          \/ r = line("ioc") /\ dir = "fade" /\ tier = "t1" /\ flow = "exhaustion"
          \/ r = line("maker") /\ dir = "fade" /\ flow # "exhaustion"
          \/ r = line("maker") /\ dir = "fade" /\ tier # "t1" /\ flow = "exhaustion"
          \/ r = line("ioc") /\ dir = "follow"
  BY <1>1 DEF ER!Matches, ER!EntryRows, ER!MakerRows, ER!IocRows, ER!Tiers
<1>3. \E p : ER!Matches(dir, tier, flow) = {line(p)}
  <2>1. CASE dir = "follow" \/ (tier = "t1" /\ flow = "exhaustion")
    <3>1. ER!Matches(dir, tier, flow) = {line("ioc")}
      BY <1>2, <2>1
    <3> QED BY <3>1
  <2>2. CASE dir = "fade" /\ ~(tier = "t1" /\ flow = "exhaustion")
    <3>1. ER!Matches(dir, tier, flow) = {line("maker")}
      BY <1>2, <2>2
    <3> QED BY <3>1
  <2> QED BY <2>1, <2>2
<1> QED BY <1>3, EntryCount, FS_Singleton

EntryPart == part = "entry" => EntryInv

LEMMA EntryInitial == Init => EntryPart
BY EntryInit DEF Init, EntryPart

LEMMA EntryStays == EntryPart /\ [Next]_vars => EntryPart'
<1> SUFFICES ASSUME EntryPart, [Next]_vars, part' = "entry" PROVE EntryInv'
  BY DEF EntryPart
<1>1. CASE Next
  <2>1. part = "entry" /\ ER!Next
    BY <1>1 DEF Next
  <2> QED BY <2>1, EntryStep DEF EntryPart
<1>2. CASE UNCHANGED vars
  <2>1. part = "entry" /\ UNCHANGED <<stage, bar, snap, trade>>
    BY <1>2 DEF vars, ER!vars
  <2> QED BY <2>1 DEF EntryPart, EntryInv, Granted, Anchored, ER!FillAccepted, ER!SlFloor
<1> QED BY <1>1, <1>2

\* For every bar, snapshot, fill price, capital and ceiling: an order stays within the risk
\* budget and the ceilings, the gate never moves its stop, a taker entry that is kept loses
\* at its stop at most the budget and its share of slippage, a kept position can gain more
\* than it can lose; and the relaxed, resumed and catalogued rules agree with the live ones.
THEOREM EntryIsSound == Spec => []EntrySound
<1>1. EntryPart => EntrySound
  <2> SUFFICES ASSUME part = "entry", EntryInv
               PROVE  /\ ER!TypeOK /\ ER!OrderWithinBudget /\ ER!StopKeptByGate /\ ER!LossAtStopBounded
                      /\ ER!KeptPositionsPay /\ ER!RelaxNeverStricter /\ ER!ResumeIsQuiet /\ ER!EntriesCatalogued
    BY DEF EntryPart, EntrySound
  <2>0. /\ bar \in Bars /\ snap \in Snapshots
        /\ stage # "idle" => trade \in Trades /\ trade.ref = bar.ref /\ Anchored(trade, snap.spread)
        /\ stage \notin {"idle", "signalled"} => Granted(trade)
    BY DEF EntryInv
  <2>1. ER!TypeOK
    <3>1. stage = "idle" <=> trade = ER!NoTrade
      <4>1. stage # "idle" => trade.ref # 0
        BY <2>0, BarFields
      <4> QED BY <4>1 DEF EntryInv, ER!NoTrade
    <3>2. stage \notin {"idle", "signalled"} => trade.qty \in 1..Capital
      BY <2>0, EntryConstants DEF Granted
    <3> QED BY <2>0, <3>1, <3>2, BarFields, SnapshotFields, FlowTyped DEF ER!TypeOK, EntryInv
  <2>2. ER!StopKeptByGate
    BY DEF EntryInv, ER!StopKeptByGate
  <2>3. ER!OrderWithinBudget
    BY <2>0, EntryConstants DEF ER!OrderWithinBudget, Granted, ER!Lesser
  <2>4. ER!KeptPositionsPay
    <3> SUFFICES ASSUME stage = "open"
                 PROVE  ER!Gain(trade.side, trade.fill, trade.target) > -ER!Gain(trade.side, trade.fill, trade.stop)
      BY DEF ER!KeptPositionsPay
    <3>1. trade \in Trades /\ ER!FillAccepted(trade, trade.fill)
      BY <2>0 DEF EntryInv
    <3>2. ER!Gain(trade.side, trade.fill, trade.target) \in Int /\ ER!Gain(trade.side, trade.fill, trade.stop) \in Int
      BY <3>1, TradeFields DEF ER!Gain
    <3> QED BY <3>1, <3>2 DEF ER!FillAccepted
  <2>5. ER!LossAtStopBounded
    <3> SUFFICES ASSUME stage = "open", trade.policy = "ioc"
                 PROVE  100 * trade.qty * ER!Abs(trade.fill - trade.stop) <= ER!Budget * (100 + ER!SlShare)
      BY DEF ER!LossAtStopBounded
    <3> DEFINE near == ER!Abs(trade.ref - trade.stop)
               far == ER!Abs(trade.anchor - trade.stop)
               paid == ER!Abs(trade.fill - trade.stop)
    <3>1. /\ trade \in Trades /\ ER!FillAccepted(trade, trade.fill) /\ ER!Gain(trade.side, trade.ref, trade.stop) < 0
          /\ 100 * ER!Gain(trade.side, trade.ref, trade.limit) <= 25 * near /\ ER!Gain(trade.side, trade.fill, trade.limit) >= 0
      BY <2>0 DEF EntryInv
    <3>2. ER!Gain(trade.side, trade.fill, trade.stop) < 0
      <4>1. ER!Gain(trade.side, trade.fill, trade.stop) \in Int
        BY <3>1, TradeFields DEF ER!Gain
      <4> QED BY <3>1, <4>1 DEF ER!FillAccepted
    <3>3. near \in Nat /\ far \in Nat /\ paid \in Nat /\ near <= far /\ 100 * paid <= 125 * near
      BY <2>0, <3>1, <3>2, TradeFields DEF ER!Abs, ER!Gain, Anchored
    <3>4. PICK q \in Nat : q = trade.qty /\ q * far <= ER!Budget
      BY <2>0, <3>1, EntryConstants DEF Granted
    <3> HIDE DEF near, far, paid
    <3>5. q * (100 * paid) <= q * (125 * near) /\ q * near <= q * far
      BY <3>3, <3>4, TimesMono
    <3>6. q * (125 * near) <= 125 * ER!Budget
      BY <3>3, <3>4, <3>5, EntryConstants
    <3>7. 100 * q * paid <= ER!Budget * 125
      BY <3>3, <3>4, <3>5, <3>6, EntryConstants
    <3> QED BY <3>4, <3>7 DEF paid, ER!SlShare
  <2>6. ER!RelaxNeverStricter
    BY <2>0, RelaxIsLaxer DEF ER!RelaxNeverStricter
  <2>7. ER!ResumeIsQuiet
    BY <2>0, EntryConstants, ResumesQuietly DEF ER!ResumeIsQuiet
  <2>8. ER!EntriesCatalogued
    <3>1. ER!Direction(ER!Core(bar, snap)) \in {"fade", "follow"}
      BY DEF ER!Direction
    <3> QED BY <2>0, <3>1, FlowTyped, SnapshotFields, OneRow DEF ER!EntriesCatalogued
  <2> QED BY <2>1, <2>2, <2>3, <2>4, <2>5, <2>6, <2>7, <2>8
<1> QED BY <1>1, EntryInitial, EntryStays, PTL DEF Spec

-----------------------------------------------------------------------------
(***************************************************************************)
(* The closes of a paper position.  The life of the row is cut into phases *)
(* and in each of them one handler may write it: the entry, then the       *)
(* unwind or the time stop, then the escalation of that close, then the    *)
(* sweep.  A handler that holds an entity across an await holds the row as *)
(* it still is, so no save loses another's.                                *)
(***************************************************************************)

IdleBut(S) == \A p \in PL!Procs \ S : pc[p] = "idle"

\* The entry handler runs: nobody else has started.
EntryRuns ==
    /\ IdleBut({"entry"}) /\ ~slot /\ ~closing /\ ~indexed /\ row.qty = Lots
    /\ \/ pc["entry"] \in {"created", "attaching", "attached"} /\ row.state = "pending_open" /\ ent["entry"] = row
       \/ pc["entry"] = "openSave" /\ row.state = "pending_open" /\ ent["entry"] = [row EXCEPT !.state = "open"]
       \/ pc["entry"] = "indexing" /\ row.state = "open"

\* The state of the row that producer c closes.
Finds(c) == IF c = "unwind" THEN "pending_open" ELSE "open"

\* Producer c has a close in flight, and the fill it got is part of the row's quantity until it is written.
CloserRuns(c) ==
    /\ IdleBut({c}) /\ (c = "unwind" => ~indexed)
    /\ closing <=> PL!InClosingFill(c)
    /\ slot \/ row.state = "closed"
    /\ pc[c] \in {"held", "submitting", "applying", "promoting", "promoted", "reducing", "reduced"}
         => row.state = Finds(c) /\ row.qty > 0
    /\ c = "unwind" /\ pc[c] \in {"held", "submitting"} => row.qty = Lots
    /\ pc[c] \in {"submitting", "applying"} => order[c].want = row.qty
    /\ pc[c] = "applying" => order[c].fill \in 1..row.qty /\ (order[c].clean => order[c].fill = row.qty)
    /\ pc[c] \in {"promoting", "promoted", "zeroing"} => order[c].fill = row.qty
    /\ \/ pc[c] \in {"held", "submitting", "applying"}
       \/ pc[c] = "promoting" /\ c = "unwind"
       \/ pc[c] = "promoted" /\ ent[c] = [row EXCEPT !.state = "open"]
       \/ pc[c] = "zeroing" /\ row.state = "open" /\ ent[c] = row
       \/ pc[c] = "zeroed" /\ row = [state |-> "open", qty |-> 0]
       \/ pc[c] = "closingSave" /\ row = [state |-> "open", qty |-> 0] /\ ent[c] = [state |-> "closing", qty |-> 0]
       \/ pc[c] = "inClosing" /\ row = [state |-> "closing", qty |-> 0]
       \/ pc[c] = "closedSave" /\ row = [state |-> "closing", qty |-> 0] /\ ent[c] = [state |-> "closed", qty |-> 0]
       \/ /\ pc[c] \in {"reducing", "reduced"} /\ ent[c] = [row EXCEPT !.qty = @ - order[c].fill]
          /\ order[c].fill \in 1..(row.qty - 1) /\ ~order[c].clean
       \/ pc[c] = "terminal" /\ (row.state = "closed" \/ (row.state = Finds(c) /\ ~order[c].clean))

\* The close of c ended unresolved: its escalation parks the row, and the slot stays taken.
EscalationRuns(c) ==
    LET u == PL!UnknownOf[c]
    IN  /\ IdleBut({u}) /\ slot /\ ~closing /\ row.state = Finds(c) /\ (c = "unwind" => ~indexed)
        /\ \/ pc[u] \in {"pending", "checked"}
           \/ pc[u] = "reconcilingSave" /\ ent[u] = [row EXCEPT !.state = "reconciling"]

\* No close is in flight: a time stop that takes the slot finds no candidate.
AtRest ==
    /\ IdleBut({"sweep", "timestop"}) /\ ~closing
    /\ \/ row.state = "open" /\ row.qty > 0 /\ pc["sweep"] = "idle" /\ pc["timestop"] = "idle" /\ ~slot
       \/ /\ row.state = "pending_open" /\ pc["timestop"] = "idle" /\ ~slot /\ ~indexed
          /\ \/ pc["sweep"] \in {"idle", "orphan"}
             \/ pc["sweep"] = "leadSave" /\ ent["sweep"] = [row EXCEPT !.state = "reconciling"]
       \/ /\ row.state = "reconciling" /\ pc["timestop"] \in {"idle", "held"}
          /\ \/ pc["sweep"] \in {"idle", "parked"}
             \/ pc["sweep"] = "closedSave" /\ ent["sweep"] = [row EXCEPT !.state = "closed"]
       \/ row.state = "closed" /\ pc["sweep"] = "idle" /\ pc["timestop"] \in {"idle", "held"}

Phase == EntryRuns \/ (\E c \in {"unwind", "timestop"} : CloserRuns(c) \/ EscalationRuns(c)) \/ AtRest

\* What a handler took from the row and has not written as a transaction.
Taken == IF pc["unwind"] = "zeroed" THEN order["unwind"].fill
         ELSE IF pc["timestop"] = "zeroed" THEN order["timestop"].fill ELSE 0

Places == PL!CloserPcs \cup PL!UnknownPcs \cup PL!EntryPcs \cup PL!SweepPcs

CloseTyped ==
    /\ row \in [state : PL!States, qty : Nat] /\ exch \in Nat /\ booked \in Nat
    /\ pc \in [PL!Procs -> Places]
    /\ ent \in [PL!Procs -> [state : PL!States, qty : Int]]
    /\ order \in [{"unwind", "timestop"} -> [want : Nat, fill : Nat, clean : BOOLEAN]]

CloseInv == CloseTyped /\ Phase /\ row.qty + booked + Taken = Lots

Closing2 == {"unwind", "timestop"}

LEMMA Handlers ==
    /\ PL!Procs = {"unwind", "timestop", "unknownUnwind", "unknownTimestop", "entry", "recon", "sweep"}
    /\ PL!UnknownOf["unwind"] = "unknownUnwind" /\ PL!UnknownOf["timestop"] = "unknownTimestop"
    /\ PL!Unknowns = {"unknownUnwind", "unknownTimestop"}
<1>1. PL!UnknownOf["unwind"] = "unknownUnwind" /\ PL!UnknownOf["timestop"] = "unknownTimestop"
  BY DEF PL!UnknownOf
<1>2. PL!Unknowns = {PL!UnknownOf["unwind"], PL!UnknownOf["timestop"]}
  BY DEF PL!Unknowns
<1> QED BY <1>1, <1>2 DEF PL!Procs

LEMMA Words ==
    /\ Places = {"idle", "held", "submitting", "applying", "promoting", "promoted", "zeroing", "zeroed", "closingSave",
                 "inClosing", "closedSave", "reducing", "reduced", "terminal", "pending", "checked", "reconcilingSave",
                 "created", "attaching", "attached", "openSave", "indexing", "orphan", "leadSave", "parked"}
    /\ PL!States = {"pending_open", "open", "closing", "reconciling", "closed"}
    /\ PL!NoEntity \in [state : PL!States, qty : Int]
BY DEF Places, PL!CloserPcs, PL!UnknownPcs, PL!EntryPcs, PL!SweepPcs, PL!States, PL!NoEntity

\* A handler that moves on alone stays alone, and one that ends leaves nobody.
LEMMA MovesAlone ==
    ASSUME CloseTyped, NEW p \in PL!Procs, NEW there \in Places, NEW e \in [state : PL!States, qty : Int],
           PL!Goto(p, there, e)
    PROVE  /\ pc' \in [PL!Procs -> Places] /\ ent' \in [PL!Procs -> [state : PL!States, qty : Int]]
           /\ pc'[p] = there /\ ent'[p] = e
           /\ \A q \in PL!Procs : q # p => pc'[q] = pc[q] /\ ent'[q] = ent[q]
           /\ \A S : p \in S /\ IdleBut(S) => IdleBut(S)'
BY DEF CloseTyped, PL!Goto, IdleBut

\* Who writes the row in each phase.
LEMMA WhichPhase ==
    ASSUME CloseInv
    PROVE  /\ pc["entry"] # "idle" => EntryRuns
           /\ \A c \in Closing2 : pc[c] # "idle" => CloserRuns(c) \/ (c = "timestop" /\ AtRest /\ pc[c] = "held")
           /\ \A c \in Closing2 : pc[PL!UnknownOf[c]] # "idle" => EscalationRuns(c)
           /\ pc["sweep"] # "idle" => AtRest
           /\ pc["recon"] = "idle"
BY Handlers DEF CloseInv, Phase, EntryRuns, CloserRuns, EscalationRuns, AtRest, IdleBut, Closing2

\* The fill between the save of the row and the transaction.
LEMMA TakenBy ==
    /\ \A c \in Closing2 : IdleBut({c}) => Taken = IF pc[c] = "zeroed" THEN order[c].fill ELSE 0
    /\ EntryRuns \/ AtRest \/ (\E c \in Closing2 : EscalationRuns(c)) => Taken = 0
BY Handlers DEF Taken, Closing2, IdleBut, EntryRuns, AtRest, EscalationRuns

\* A step that leaves the quantities and the fill in hand alone.
LEMMA SumKept ==
    ASSUME CloseInv, row'.qty = row.qty, UNCHANGED booked, Taken = 0, Taken' = 0
    PROVE  (row.qty + booked + Taken = Lots)'
BY DEF CloseInv

\* The entry handler.
LEMMA EntryRunsOn == ASSUME CloseInv, PL!Entry PROVE CloseInv'
<1> USE DEF Closing2
<1>0. /\ "entry" \in PL!Procs /\ pc["entry"] # "idle" /\ EntryRuns /\ CloseTyped /\ Taken = 0
      /\ ent["entry"] \in [state : PL!States, qty : Int] /\ row \in [state : PL!States, qty : Int]
  <2>1. "entry" \in PL!Procs /\ pc["entry"] # "idle"
    BY Handlers DEF PL!Entry, PL!AcceptFill, PL!RejectFill, PL!SaveAttachResult, PL!OpenRead, PL!OpenSave,
                    PL!RebuildIndex, PL!At
  <2> QED BY <2>1, WhichPhase, TakenBy DEF CloseInv, CloseTyped
<1>1. ASSUME NEW there \in Places, NEW e \in [state : PL!States, qty : Int], PL!Goto("entry", there, e),
             UNCHANGED <<exch, booked, order>>, row' \in [state : PL!States, qty : Nat],
             row'.qty = row.qty
      PROVE  /\ CloseTyped' /\ pc'["entry"] = there /\ ent'["entry"] = e /\ IdleBut({"entry"})'
             /\ (there = "idle" => IdleBut({})')
             /\ (Phase' /\ Taken' = 0 => CloseInv')
  <2>1. /\ pc' \in [PL!Procs -> Places] /\ ent' \in [PL!Procs -> [state : PL!States, qty : Int]]
        /\ pc'["entry"] = there /\ ent'["entry"] = e /\ IdleBut({"entry"})'
    BY <1>0, <1>1, MovesAlone DEF EntryRuns
  <2>2. there = "idle" => IdleBut({})'
    BY <2>1 DEF IdleBut
  <2>3. CloseTyped'
    BY <1>0, <1>1, <2>1 DEF CloseTyped
  <2> QED BY <1>0, <1>1, <2>1, <2>2, <2>3, SumKept DEF CloseInv
<1>2. EntryRuns' => Phase' /\ Taken' = 0
  <2>1. EntryRuns' => pc'["unwind"] = "idle" /\ pc'["timestop"] = "idle"
    BY Handlers DEF EntryRuns, IdleBut
  <2> QED BY <2>1 DEF Phase, Taken
<1>3. AtRest' => Phase' /\ Taken' = 0
  <2>1. AtRest' => pc'["unwind"] = "idle" /\ pc'["timestop"] # "zeroed"
    BY Handlers DEF AtRest, IdleBut
  <2> QED BY <2>1 DEF Phase, Taken
<1>4. CASE PL!AcceptFill
  <2>1. PL!Goto("entry", "attaching", ent["entry"]) /\ UNCHANGED <<row, exch, booked, order, slot, closing, indexed>>
        /\ pc["entry"] = "created"
    BY <1>4 DEF PL!AcceptFill, PL!At
  <2> QED BY <1>0, <1>1, <1>2, Words, <2>1 DEF EntryRuns, CloseTyped
<1>5. CASE PL!SaveAttachResult
  <2>1. /\ PL!Goto("entry", "attached", ent["entry"]) /\ row' = ent["entry"]
        /\ UNCHANGED <<exch, booked, order, slot, closing, indexed>> /\ pc["entry"] = "attaching"
    BY <1>5 DEF PL!SaveAttachResult, PL!At
  <2>2. row' = row
    BY <1>0, <2>1 DEF EntryRuns
  <2> QED BY <1>0, <1>1, <1>2, Words, <2>1, <2>2 DEF EntryRuns, CloseTyped
<1>6. CASE PL!OpenRead
  <2>1. /\ pc["entry"] = "attached" /\ UNCHANGED <<row, exch, booked, order, slot, closing, indexed>>
        /\ PL!Goto("entry", "openSave", [row EXCEPT !.state = "open"])
    BY <1>0, <1>6 DEF PL!OpenRead, PL!At, PL!TransitionRead, PL!memory, PL!LegalTransition, EntryRuns
  <2>2. [row EXCEPT !.state = "open"] \in [state : PL!States, qty : Int]
    BY <1>0, Words
  <2> QED BY <1>0, <1>1, <1>2, Words, <2>1, <2>2 DEF EntryRuns, CloseTyped
<1>7. CASE PL!OpenSave
  <2>1. /\ pc["entry"] = "openSave" /\ UNCHANGED <<exch, booked, order, closing>> /\ row' = ent["entry"]
        /\ PL!Goto("entry", "indexing", PL!NoEntity) /\ ent["entry"] = [row EXCEPT !.state = "open"]
        /\ ~slot' /\ ~indexed'
    BY <1>0, <1>7 DEF PL!OpenSave, PL!At, PL!TransitionSave, PL!OnTransition, EntryRuns
  <2>2. row' \in [state : PL!States, qty : Nat] /\ row'.qty = row.qty /\ row'.state = "open"
    BY <1>0, Words, <2>1 DEF CloseTyped
  <2>3. PL!NoEntity \in [state : PL!States, qty : Int]
    BY Words
  <2> QED BY <1>0, <1>1, <1>2, Words, <2>1, <2>2, <2>3 DEF EntryRuns
<1>8. CASE PL!RebuildIndex
  <2>1. /\ pc["entry"] = "indexing" /\ UNCHANGED <<row, exch, booked, order, slot, closing>>
        /\ PL!Goto("entry", "idle", PL!NoEntity)
    BY <1>8 DEF PL!RebuildIndex, PL!At
  <2>2. PL!NoEntity \in [state : PL!States, qty : Int]
    BY Words
  <2>3. CloseTyped' /\ IdleBut({})' /\ (Phase' /\ Taken' = 0 => CloseInv')
    BY <1>0, <1>1, Words, <2>1, <2>2 DEF CloseTyped
  <2>4. AtRest'
    BY <1>0, <2>1, <2>3, Handlers, ClosesAssumption DEF EntryRuns, AtRest, IdleBut
  <2> QED BY <1>3, <2>3, <2>4
<1>9. CASE PL!RejectFill
  <2>1. /\ pc["entry"] = "created" /\ UNCHANGED <<row, exch, booked, order, closing, indexed>> /\ slot'
        /\ pc' = [pc EXCEPT !["entry"] = "idle", !["unwind"] = "held"] /\ ent' = [ent EXCEPT !["entry"] = PL!NoEntity]
    BY <1>0, <1>9 DEF PL!RejectFill, PL!At, EntryRuns
  <2>2. PL!NoEntity \in [state : PL!States, qty : Int]
    BY Words
  <2>3. CloseTyped'
    BY <1>0, Words, <2>1, <2>2 DEF CloseTyped
  <2>4. pc'["unwind"] = "held" /\ IdleBut({"unwind"})'
    BY <1>0, <2>1, Handlers DEF EntryRuns, IdleBut, CloseTyped
  <2>5. CloserRuns("unwind")'
    <3>1. row.state = "pending_open" /\ row.qty = Lots /\ ~closing /\ ~indexed
      BY <1>0, <2>1 DEF EntryRuns
    <3>2. Lots > 0
      BY ClosesAssumption
    <3> QED BY <2>1, <2>4, <3>1, <3>2 DEF CloserRuns, Finds, PL!InClosingFill
  <2>6. Taken' = 0
    BY <2>4, Handlers DEF Taken, IdleBut
  <2> QED BY <1>0, <2>1, <2>3, <2>5, <2>6, SumKept DEF CloseInv, Phase
<1> QED BY <1>4, <1>5, <1>6, <1>7, <1>8, <1>9 DEF PL!Entry

\* The escalation of a close.
LEMMA EscalationRunsOn == ASSUME CloseInv, NEW c \in Closing2, PL!Unknown(PL!UnknownOf[c]) PROVE CloseInv'
<1> DEFINE u == PL!UnknownOf[c]
<1>0. u \in PL!Procs /\ u \notin {"unwind", "timestop", "sweep", "timestop"} /\ u \in {"unknownUnwind", "unknownTimestop"}
  BY Handlers DEF Closing2
<1>1. u \in PL!Procs /\ pc[u] # "idle" /\ EscalationRuns(c) /\ CloseTyped /\ Taken = 0
  <2>1. pc[u] # "idle"
    BY DEF PL!Unknown, PL!UnknownCheck, PL!UnknownRead, PL!UnknownSave, PL!At
  <2> QED BY <1>0, <2>1, WhichPhase, TakenBy DEF CloseInv
<1> HIDE DEF u
<1>2. /\ IdleBut({u}) /\ slot /\ ~closing /\ row.state = Finds(c) /\ (c = "unwind" => ~indexed)
      /\ \/ pc[u] \in {"pending", "checked"}
         \/ pc[u] = "reconcilingSave" /\ ent[u] = [row EXCEPT !.state = "reconciling"]
      /\ ent[u] \in [state : PL!States, qty : Int] /\ row \in [state : PL!States, qty : Nat]
      /\ row.state \in {"pending_open", "open"}
  BY <1>1 DEF EscalationRuns, u, CloseTyped, Finds
<1>3. ASSUME NEW there \in Places, NEW e \in [state : PL!States, qty : Int], PL!Goto(u, there, e),
             UNCHANGED <<exch, booked, order>>, row' \in [state : PL!States, qty : Nat], row'.qty = row.qty
      PROVE  /\ pc'[u] = there /\ ent'[u] = e /\ IdleBut({u})' /\ (there = "idle" => IdleBut({})')
             /\ (Phase' => CloseInv')
  <2>1. /\ pc' \in [PL!Procs -> Places] /\ ent' \in [PL!Procs -> [state : PL!States, qty : Int]]
        /\ pc'[u] = there /\ ent'[u] = e /\ IdleBut({u})'
    BY <1>1, <1>2, <1>3, MovesAlone
  <2>2. there = "idle" => IdleBut({})'
    BY <2>1 DEF IdleBut
  <2>3. CloseTyped'
    BY <1>1, <1>3, <2>1 DEF CloseTyped
  <2>4. Taken' = 0
    BY <1>0, <2>1, Handlers DEF Taken, IdleBut
  <2> QED BY <1>1, <1>3, <2>1, <2>2, <2>3, <2>4, SumKept DEF CloseInv
<1>4. EscalationRuns(c)' => Phase'
  BY DEF Phase, Closing2
<1>5. CASE PL!UnknownCheck(u)
  <2>1. /\ UNCHANGED <<row, exch, booked, order, slot, closing, indexed>>
        /\ PL!Goto(u, "checked", PL!NoEntity)
    BY <1>2, <1>5 DEF PL!UnknownCheck, PL!memory
  <2> QED BY <1>1, <1>2, <1>3, <1>4, <2>1, Words DEF EscalationRuns, u
<1>6. CASE PL!UnknownRead(u)
  <2>1. /\ UNCHANGED <<row, exch, booked, order, slot, closing, indexed>>
        /\ PL!Goto(u, "reconcilingSave", [row EXCEPT !.state = "reconciling"])
    BY <1>2, <1>6 DEF PL!UnknownRead, PL!memory, PL!TransitionRead, PL!LegalTransition
  <2>2. [row EXCEPT !.state = "reconciling"] \in [state : PL!States, qty : Int]
    BY <1>2, Words
  <2> QED BY <1>1, <1>2, <1>3, <1>4, <2>1, <2>2, Words DEF EscalationRuns, u
<1>7. CASE PL!UnknownSave(u)
  <2>1. /\ UNCHANGED <<exch, booked, order, closing>> /\ row' = ent[u] /\ PL!Goto(u, "idle", PL!NoEntity)
        /\ ent[u] = [row EXCEPT !.state = "reconciling"]
    BY <1>2, <1>7 DEF PL!UnknownSave, PL!TransitionSave, PL!At
  <2>2. row' \in [state : PL!States, qty : Nat] /\ row'.qty = row.qty /\ row'.state = "reconciling"
    BY <1>2, <2>1, Words
  <2>3. IdleBut({})' /\ (Phase' => CloseInv')
    BY <1>3, <2>1, <2>2, Words
  <2>4. AtRest'
    BY <1>2, <2>1, <2>2, <2>3, Handlers DEF AtRest, IdleBut
  <2> QED BY <2>3, <2>4 DEF Phase
<1> QED BY <1>5, <1>6, <1>7 DEF PL!Unknown, u

\* The sweep.
LEMMA SweepRunsOn == ASSUME CloseInv, PL!Sweeper PROVE CloseInv'
<1>0. "sweep" \in PL!Procs
  BY Handlers
<1>1. AtRest /\ CloseTyped /\ Taken = 0 /\ row \in [state : PL!States, qty : Nat]
  <2>1. CASE pc["sweep"] # "idle"
    BY <2>1, WhichPhase, TakenBy DEF CloseInv, CloseTyped
  <2>2. CASE PL!Sweep
    <3>1. /\ row.state \in {"pending_open", "reconciling"}
          /\ row.state = "pending_open" => \A p \in {"entry", "unwind", "unknownUnwind"} : pc[p] = "idle"
      BY <2>2, Handlers DEF PL!Sweep
    <3>2. ~EntryRuns
      BY <3>1 DEF EntryRuns
    <3>3. ASSUME NEW c \in Closing2, CloserRuns(c) PROVE FALSE
      BY <3>1, <3>3 DEF CloserRuns, Finds, Closing2
    <3>4. ASSUME NEW c \in Closing2, EscalationRuns(c) PROVE FALSE
      BY <3>1, <3>4, Handlers DEF EscalationRuns, Finds, Closing2
    <3> QED BY <3>2, <3>3, <3>4, TakenBy DEF CloseInv, Phase, CloseTyped, Closing2
  <2> QED BY <2>1, <2>2 DEF PL!Sweeper, PL!OrphanRead, PL!OrphanSave, PL!ParkedRead, PL!ParkedSave, PL!At
<1>2. ASSUME NEW there \in Places, NEW e \in [state : PL!States, qty : Int], PL!Goto("sweep", there, e),
             UNCHANGED <<exch, booked, order>>, row' \in [state : PL!States, qty : Nat], row'.qty = row.qty
      PROVE  /\ pc'["sweep"] = there /\ ent'["sweep"] = e /\ IdleBut({"sweep", "timestop"})'
             /\ pc'["timestop"] = pc["timestop"] /\ (AtRest' => CloseInv')
  <2>1. /\ pc' \in [PL!Procs -> Places] /\ ent' \in [PL!Procs -> [state : PL!States, qty : Int]]
        /\ pc'["sweep"] = there /\ ent'["sweep"] = e /\ IdleBut({"sweep", "timestop"})'
        /\ pc'["timestop"] = pc["timestop"]
    BY <1>0, <1>1, <1>2, MovesAlone, Handlers DEF AtRest
  <2>2. CloseTyped'
    BY <1>1, <1>2, <2>1 DEF CloseTyped
  <2>3. AtRest' => Taken' = 0
    BY <2>1, Handlers DEF Taken, IdleBut, AtRest
  <2> QED BY <1>1, <1>2, <2>1, <2>2, <2>3, SumKept DEF CloseInv, Phase
<1>3. CASE PL!Sweep
  <2>1. CASE row.state = "pending_open"
    <3>1. PL!Goto("sweep", "orphan", PL!NoEntity) /\ UNCHANGED <<row, exch, booked, order, slot, closing, indexed>>
      BY <1>3, <2>1 DEF PL!Sweep
    <3> QED BY <1>1, <1>2, <2>1, <3>1, Words DEF AtRest
  <2>2. CASE row.state = "reconciling"
    <3>1. PL!Goto("sweep", "parked", PL!NoEntity) /\ UNCHANGED <<row, exch, booked, order, closing, indexed>>
      BY <1>3, <2>2 DEF PL!Sweep
    <3> QED BY <1>1, <1>2, <2>2, <3>1, Words DEF AtRest
  <2> QED BY <1>3, <2>1, <2>2 DEF PL!Sweep
<1>4. CASE PL!OrphanRead
  <2>1. /\ UNCHANGED <<row, exch, booked, order, slot, closing, indexed>> /\ row.state = "pending_open"
        /\ PL!Goto("sweep", "leadSave", [row EXCEPT !.state = "reconciling"])
    BY <1>1, <1>4 DEF PL!OrphanRead, PL!memory, PL!TransitionRead, PL!LegalTransition, PL!At, AtRest
  <2>2. [row EXCEPT !.state = "reconciling"] \in [state : PL!States, qty : Int]
    BY <1>1, Words
  <2> QED BY <1>1, <1>2, <2>1, <2>2, Words DEF AtRest
<1>5. CASE PL!OrphanSave
  <2>1. /\ UNCHANGED <<exch, booked, order, closing>> /\ row' = ent["sweep"]
        /\ PL!Goto("sweep", "parked", PL!NoEntity) /\ ent["sweep"] = [row EXCEPT !.state = "reconciling"]
        /\ pc["timestop"] = "idle"
    BY <1>1, <1>5 DEF PL!OrphanSave, PL!TransitionSave, PL!At, AtRest
  <2>2. row' \in [state : PL!States, qty : Nat] /\ row'.qty = row.qty /\ row'.state = "reconciling"
    BY <1>1, <2>1, Words
  <2> QED BY <1>1, <1>2, <2>1, <2>2, Words DEF AtRest
<1>6. CASE PL!ParkedRead
  <2>1. /\ UNCHANGED <<row, exch, booked, order, slot, closing, indexed>> /\ row.state = "reconciling"
        /\ PL!Goto("sweep", "closedSave", [row EXCEPT !.state = "closed"])
        /\ pc["timestop"] \in {"idle", "held"}
    BY <1>1, <1>6 DEF PL!ParkedRead, PL!memory, PL!TransitionRead, PL!LegalTransition, PL!At, AtRest
  <2>2. [row EXCEPT !.state = "closed"] \in [state : PL!States, qty : Int]
    BY <1>1, Words
  <2> QED BY <1>1, <1>2, <2>1, <2>2, Words DEF AtRest
<1>7. CASE PL!ParkedSave
  <2>1. /\ UNCHANGED <<exch, booked, order, closing>> /\ row' = ent["sweep"]
        /\ PL!Goto("sweep", "idle", PL!NoEntity) /\ ent["sweep"] = [row EXCEPT !.state = "closed"]
        /\ pc["timestop"] \in {"idle", "held"}
    BY <1>1, <1>7 DEF PL!ParkedSave, PL!TransitionSave, PL!At, AtRest
  <2>2. row' \in [state : PL!States, qty : Nat] /\ row'.qty = row.qty /\ row'.state = "closed"
    BY <1>1, <2>1, Words
  <2> QED BY <1>1, <1>2, <2>1, <2>2, Words DEF AtRest
<1> QED BY <1>3, <1>4, <1>5, <1>6, <1>7 DEF PL!Sweeper

\* A close handler that moves on.
LEMMA CloserMoves ==
    ASSUME CloseInv, NEW c \in Closing2, CloserRuns(c),
           NEW there \in Places, NEW e \in [state : PL!States, qty : Int], PL!Goto(c, there, e)
    PROVE  /\ pc' \in [PL!Procs -> Places] /\ ent' \in [PL!Procs -> [state : PL!States, qty : Int]]
           /\ pc'[c] = there /\ ent'[c] = e /\ IdleBut({c})' /\ (there = "idle" => IdleBut({})')
           /\ Taken = IF pc[c] = "zeroed" THEN order[c].fill ELSE 0
           /\ Taken' = IF there = "zeroed" THEN order'[c].fill ELSE 0
<1>1. c \in PL!Procs /\ IdleBut({c}) /\ CloseTyped
  BY Handlers DEF Closing2, CloserRuns, CloseInv
<1>2. /\ pc' \in [PL!Procs -> Places] /\ ent' \in [PL!Procs -> [state : PL!States, qty : Int]]
      /\ pc'[c] = there /\ ent'[c] = e /\ IdleBut({c})'
  BY <1>1, MovesAlone
<1>3. there = "idle" => IdleBut({})'
  BY <1>2 DEF IdleBut
<1>4. Taken = IF pc[c] = "zeroed" THEN order[c].fill ELSE 0
  BY <1>1, TakenBy
<1>5. Taken' = IF there = "zeroed" THEN order'[c].fill ELSE 0
  BY <1>1, <1>2, Handlers DEF Taken, IdleBut, Closing2
<1> QED BY <1>2, <1>3, <1>4, <1>5

\* Its phase is over, or goes on.
LEMMA CloserGoesOn ==
    ASSUME CloseInv, NEW c \in Closing2, CloserRuns(c),
           NEW there \in Places, NEW e \in [state : PL!States, qty : Int], PL!Goto(c, there, e),
           row' \in [state : PL!States, qty : Nat], exch' \in Nat, booked' \in Nat,
           order' \in [{"unwind", "timestop"} -> [want : Nat, fill : Nat, clean : BOOLEAN]],
           row'.qty + booked' + (IF there = "zeroed" THEN order'[c].fill ELSE 0) = Lots,
           CloserRuns(c)' \/ AtRest'
    PROVE  CloseInv'
BY CloserMoves DEF CloseInv, CloseTyped, Phase, Closing2

\* The types of what the handler looks at.
LEMMA CloserSees ==
    ASSUME CloseInv, NEW c \in Closing2
    PROVE  /\ row \in [state : PL!States, qty : Nat] /\ exch \in Nat /\ booked \in Nat
           /\ ent[c] \in [state : PL!States, qty : Int] /\ c \in PL!Procs
           /\ order \in [{"unwind", "timestop"} -> [want : Nat, fill : Nat, clean : BOOLEAN]]
           /\ order[c] \in [want : Nat, fill : Nat, clean : BOOLEAN]
           /\ Finds(c) \in {"open", "pending_open"} /\ Lots \in Nat \ {0}
BY Handlers, ClosesAssumption DEF CloseInv, CloseTyped, Closing2, Finds

\* Producers take the slot, look the row up, emit, or throw and give the slot back.
LEMMA ProducerSteps ==
    ASSUME CloseInv, NEW c \in Closing2,
           PL!Acquire(c) \/ PL!EmitClose(c) \/ PL!ProducerThrows(c) \/ (c = "timestop" /\ PL!NotACandidate)
    PROVE  CloseInv'
<1>0. /\ row \in [state : PL!States, qty : Nat] /\ exch \in Nat /\ booked \in Nat /\ c \in PL!Procs
      /\ order \in [{"unwind", "timestop"} -> [want : Nat, fill : Nat, clean : BOOLEAN]]
      /\ Finds(c) \in {"open", "pending_open"} /\ CloseTyped /\ PL!NoEntity \in [state : PL!States, qty : Int]
  BY CloserSees, Words DEF CloseInv
<1>1. ASSUME NEW there \in Places, PL!Goto(c, there, PL!NoEntity), there \in {"idle", "held"}, c = "timestop",
             AtRest, UNCHANGED <<row, exch, booked, order, closing>>
      PROVE  /\ pc'[c] = there /\ IdleBut({"sweep", "timestop"})' /\ pc'["sweep"] = pc["sweep"]
             /\ ent'["sweep"] = ent["sweep"] /\ (Phase' => CloseInv')
  <2>1. /\ pc' \in [PL!Procs -> Places] /\ ent' \in [PL!Procs -> [state : PL!States, qty : Int]]
        /\ pc'[c] = there /\ IdleBut({"sweep", "timestop"})' /\ pc'["sweep"] = pc["sweep"]
        /\ ent'["sweep"] = ent["sweep"]
    BY <1>0, <1>1, MovesAlone, Handlers DEF AtRest
  <2>2. CloseTyped'
    BY <1>0, <1>1, <2>1 DEF CloseTyped
  <2>3. Taken' = 0 /\ Taken = 0
    BY <1>1, <2>1, Handlers, TakenBy DEF Taken, IdleBut
  <2> QED BY <1>1, <2>1, <2>2, <2>3, SumKept DEF CloseInv
<1>2. CASE PL!Acquire(c)
  <2>1. /\ c = "timestop" /\ indexed /\ ~slot /\ slot' /\ pc[c] = "idle" /\ PL!Goto(c, "held", PL!NoEntity)
        /\ UNCHANGED <<row, exch, booked, order, indexed, closing>>
    BY <1>2 DEF PL!Acquire, PL!At, Closing2
  <2>2. AtRest
    <3>1. ~EntryRuns /\ ~CloserRuns("unwind") /\ ~CloserRuns("timestop")
      BY <2>1 DEF EntryRuns, CloserRuns
    <3>2. \A d \in Closing2 : ~EscalationRuns(d)
      BY <2>1 DEF EscalationRuns
    <3> QED BY <3>1, <3>2 DEF CloseInv, Phase, Closing2
  <2>3. /\ pc'[c] = "held" /\ IdleBut({"sweep", "timestop"})' /\ pc'["sweep"] = pc["sweep"]
        /\ ent'["sweep"] = ent["sweep"] /\ (Phase' => CloseInv')
    BY <1>1, <2>1, <2>2, Words
  <2>4. CASE row.state = "open"
    <3>1. IdleBut({c})' /\ row.qty > 0 /\ ~closing
      BY <2>1, <2>2, <2>3, <2>4, Handlers DEF AtRest, IdleBut
    <3>2. CloserRuns(c)'
      BY <2>1, <2>3, <2>4, <3>1 DEF CloserRuns, Finds, PL!InClosingFill
    <3> QED BY <2>3, <3>2 DEF Phase, Closing2
  <2>5. CASE row.state # "open"
    <3>1. AtRest'
      BY <2>1, <2>2, <2>3, <2>5 DEF AtRest
    <3> QED BY <2>3, <3>1 DEF Phase
  <2> QED BY <2>4, <2>5
<1>3. CASE PL!EmitClose(c)
  <2>1. /\ pc[c] = "held" /\ (c = "timestop" => row.state \in {"open", "pending_open"} /\ row.qty > 0)
        /\ PL!Goto(c, "submitting", PL!NoEntity) /\ UNCHANGED <<row, exch, booked, slot, indexed, closing>>
        /\ order' = [order EXCEPT ![c] = [PL!NoOrder EXCEPT !.want = IF c = "unwind" THEN Lots ELSE row.qty]]
    BY <1>3 DEF PL!EmitClose, PL!At, Closing2, PL!memory, PL!IsTimeStopCandidate
  <2>2. CloserRuns(c)
    <3>1. AtRest => row.state \notin {"open", "pending_open"} \/ pc["timestop"] # "held"
      BY DEF AtRest
    <3> QED BY <2>1, <3>1, WhichPhase
  <2>3. /\ row.state = Finds(c) /\ row.qty > 0 /\ (c = "unwind" => row.qty = Lots) /\ ~closing
        /\ (c = "unwind" => ~indexed) /\ slot
    BY <1>0, <2>1, <2>2 DEF CloserRuns, PL!InClosingFill
  <2>4. /\ order' \in [{"unwind", "timestop"} -> [want : Nat, fill : Nat, clean : BOOLEAN]]
        /\ order'[c].want = row.qty
    BY <1>0, <2>1, <2>3, ClosesAssumption DEF PL!NoOrder, Closing2
  <2>5. pc'[c] = "submitting" /\ IdleBut({c})' /\ Taken = 0
    BY <1>0, <2>1, <2>2, CloserMoves, Words
  <2>6. CloserRuns(c)'
    BY <2>1, <2>3, <2>4, <2>5 DEF CloserRuns, Finds, PL!InClosingFill
  <2>7. row.qty + booked = Lots
    BY <1>0, <2>5 DEF CloseInv
  <2> QED BY <1>0, <2>1, <2>2, <2>4, <2>6, <2>7, CloserGoesOn, Words
<1>4. CASE PL!ProducerThrows(c) \/ (c = "timestop" /\ PL!NotACandidate)
  <2>1. /\ pc[c] = "held" /\ PL!Goto(c, "idle", PL!NoEntity) /\ ~slot' /\ UNCHANGED <<row, exch, booked, order, closing>>
        /\ (indexed' => indexed)
    BY <1>4 DEF PL!ProducerThrows, PL!NotACandidate, PL!At
  <2>2. CASE CloserRuns(c)
    <3>1. IdleBut({})' /\ Taken = 0
      BY <1>0, <2>1, <2>2, CloserMoves, Words
    <3>2. row.state = Finds(c) /\ row.qty > 0 /\ (c = "unwind" => ~indexed) /\ ~closing
      BY <2>1, <2>2 DEF CloserRuns, PL!InClosingFill
    <3>3. AtRest'
      BY <2>1, <3>1, <3>2, Handlers DEF AtRest, IdleBut, Finds, Closing2
    <3>4. row.qty + booked = Lots
      BY <1>0, <3>1 DEF CloseInv
    <3> QED BY <1>0, <2>1, <2>2, <3>3, <3>4, CloserGoesOn, Words
  <2>3. CASE c = "timestop" /\ AtRest
    <3>1. AtRest'
      BY <1>1, <2>1, <2>3, Words DEF AtRest
    <3> QED BY <1>1, <2>1, <2>3, <3>1, Words DEF Phase
  <2> QED BY <2>1, <2>2, <2>3, WhichPhase
<1> QED BY <1>2, <1>3, <1>4

\* The order is answered, and the fill looked at.
LEMMA FillSteps ==
    ASSUME CloseInv, NEW c \in Closing2,
           PL!SubmitAnswer(c) \/ PL!FillNoRow(c) \/ PL!FillFlatRow(c) \/ PL!FillCloses(c) \/ PL!FillReduces(c)
    PROVE  CloseInv'
<1>0. /\ row \in [state : PL!States, qty : Nat] /\ exch \in Nat /\ booked \in Nat /\ c \in PL!Procs
      /\ order \in [{"unwind", "timestop"} -> [want : Nat, fill : Nat, clean : BOOLEAN]]
      /\ order[c] \in [want : Nat, fill : Nat, clean : BOOLEAN]
      /\ Finds(c) \in {"open", "pending_open"} /\ PL!NoEntity \in [state : PL!States, qty : Int]
      /\ c \in {"unwind", "timestop"}
  BY CloserSees, Words DEF Closing2
<1>w. /\ c \in Closing2 /\ PL!NoEntity \in [state : PL!States, qty : Int]
      /\ {"terminal", "applying", "promoting", "zeroing", "reducing", "promoted", "zeroed", "closingSave", "inClosing",
          "closedSave"} \subseteq Places
  BY Words
<1>1. pc[c] \in {"submitting", "applying"} /\ CloserRuns(c)
  <2>1. pc[c] \in {"submitting", "applying"}
    BY DEF PL!SubmitAnswer, PL!FillNoRow, PL!FillFlatRow, PL!FillCloses, PL!FillReduces, PL!At
  <2> QED BY <2>1, WhichPhase
<1>2. /\ row.state = Finds(c) /\ row.qty > 0 /\ order[c].want = row.qty /\ ~closing
      /\ (c = "unwind" => ~indexed) /\ slot
      /\ pc[c] = "applying" => order[c].fill \in 1..row.qty /\ (order[c].clean => order[c].fill = row.qty)
  BY <1>0, <1>1 DEF CloserRuns, PL!InClosingFill
<1>3. Taken = 0 /\ row.qty + booked = Lots
  <2>1. Taken = 0
    BY <1>1, TakenBy DEF CloserRuns
  <2> QED BY <1>0, <2>1 DEF CloseInv
<1>4. CASE PL!SubmitAnswer(c)
  <2>1. PICK fill \in 0..PL!Least(order[c].want, exch), clean \in BOOLEAN :
          /\ exch' = exch - fill /\ order' = [order EXCEPT ![c].fill = fill, ![c].clean = clean]
          /\ PL!Goto(c, IF fill > 0 THEN "applying" ELSE "terminal", PL!NoEntity)
          /\ (clean => fill = order[c].want /\ fill > 0)
          /\ UNCHANGED <<row, booked, slot, indexed, closing>>
    BY <1>4 DEF PL!SubmitAnswer, PL!memory
  <2>2. fill \in Nat /\ fill <= row.qty /\ fill <= exch /\ exch' \in Nat
    BY <1>0, <1>2, <2>1 DEF PL!Least
  <2>3. /\ order' \in [{"unwind", "timestop"} -> [want : Nat, fill : Nat, clean : BOOLEAN]]
        /\ order'[c].want = row.qty /\ order'[c].fill = fill /\ order'[c].clean = clean
    BY <1>0, <1>2, <2>1, <2>2
  <2>4. CASE fill > 0
    <3>0. PL!Goto(c, "applying", PL!NoEntity)
      BY <2>1, <2>4
    <3>1. PL!Goto(c, "applying", PL!NoEntity) /\ pc'[c] = "applying" /\ IdleBut({c})'
      BY <1>w, <1>1, <3>0, CloserMoves
    <3>2. CloserRuns(c)'
      BY <1>0, <1>2, <2>1, <2>2, <2>3, <2>4, <3>1 DEF CloserRuns, Finds, PL!InClosingFill
    <3>3. row'.qty + booked' + 0 = Lots /\ row' \in [state : PL!States, qty : Nat] /\ booked' \in Nat
      BY <1>0, <1>3, <2>1
    <3> QED BY <1>w, <1>1, <2>2, <2>3, <3>1, <3>2, <3>3, CloserGoesOn
  <2>5. CASE fill = 0
    <3>0. PL!Goto(c, "terminal", PL!NoEntity)
      BY <2>1, <2>5
    <3>1. PL!Goto(c, "terminal", PL!NoEntity) /\ pc'[c] = "terminal" /\ IdleBut({c})' /\ ~clean
      <4>1. ~clean
        BY <2>1, <2>5
      <4> QED BY <1>w, <1>1, <3>0, <4>1, CloserMoves
    <3>2. CloserRuns(c)'
      BY <1>0, <1>2, <2>1, <2>3, <3>1 DEF CloserRuns, Finds, PL!InClosingFill
    <3>3. row'.qty + booked' + 0 = Lots /\ row' \in [state : PL!States, qty : Nat] /\ booked' \in Nat
      BY <1>0, <1>3, <2>1
    <3> QED BY <1>w, <1>1, <2>2, <2>3, <3>1, <3>2, <3>3, CloserGoesOn
  <2> QED BY <2>2, <2>4, <2>5
<1>5. CASE PL!FillNoRow(c)
  BY <1>0, <1>2, <1>5 DEF PL!FillNoRow
<1>6. CASE PL!FillFlatRow(c)
  BY <1>0, <1>2, <1>6 DEF PL!FillFlatRow
<1>7. CASE PL!FillCloses(c)
  <2> DEFINE there == IF row.state = "pending_open" THEN "promoting" ELSE "zeroing"
  <2>1. /\ pc[c] = "applying" /\ order[c].fill = row.qty /\ closing' /\ UNCHANGED <<row, exch, booked, slot, indexed>>
        /\ PL!Goto(c, there, row) /\ order' = [order EXCEPT ![c].fill = row.qty]
    <3>1. pc[c] = "applying" /\ order[c].fill >= row.qty /\ closing' = TRUE
          /\ UNCHANGED <<row, exch, booked, slot, indexed>> /\ order' = [order EXCEPT ![c].fill = row.qty]
      BY <1>7 DEF PL!FillCloses, PL!At
    <3>2. order[c].fill = row.qty
      BY <1>0, <1>2, <3>1
    <3>3. PL!Goto(c, there, row)
      <4>1. ~ (order[c].fill > row.qty)
        BY <1>0, <3>2
      <4> QED BY <1>2, <1>7, <4>1 DEF PL!FillCloses
    <3> QED BY <3>1, <3>2, <3>3
  <2>2. /\ order' \in [{"unwind", "timestop"} -> [want : Nat, fill : Nat, clean : BOOLEAN]]
        /\ order'[c].fill = row.qty
    BY <1>0, <2>1
  <2>3. there \in Places /\ there \in {"promoting", "zeroing"}
    BY Words
  <2>4. pc'[c] = there /\ IdleBut({c})' /\ ent'[c] = row
    <3>1. row \in [state : PL!States, qty : Int]
      BY <1>0
    <3> QED BY <1>w, <1>1, <2>1, <2>3, <3>1, CloserMoves
  <2>5. CloserRuns(c)'
    <3>1. c = "unwind" <=> there = "promoting"
      BY <1>0, <1>2 DEF Finds
    <3>2. closing' /\ PL!InClosingFill(c)'
      BY <2>1, <2>3, <2>4 DEF PL!InClosingFill
    <3> QED BY <1>0, <1>2, <2>1, <2>2, <2>3, <2>4, <3>1, <3>2 DEF CloserRuns, Finds
  <2>6. there # "zeroed"
    OBVIOUS
  <2> HIDE DEF there
  <2>7. row'.qty + booked' + (IF there = "zeroed" THEN order'[c].fill ELSE 0) = Lots
    BY <1>0, <1>3, <2>1, <2>6
  <2>8. row' \in [state : PL!States, qty : Nat] /\ exch' \in Nat /\ booked' \in Nat /\ row \in [state : PL!States, qty : Int]
    BY <1>0, <2>1
  <2> QED BY <1>1, <2>1, <2>2, <2>3, <2>5, <2>7, <2>8, CloserGoesOn
<1>8. CASE PL!FillReduces(c)
  <2>1. /\ pc[c] = "applying" /\ order[c].fill < row.qty /\ UNCHANGED <<row, exch, booked, slot, indexed, closing, order>>
        /\ PL!Goto(c, "reducing", [row EXCEPT !.qty = @ - order[c].fill])
    BY <1>8 DEF PL!FillReduces, PL!At, PL!memory
  <2>2. [row EXCEPT !.qty = @ - order[c].fill] \in [state : PL!States, qty : Int]
    BY <1>0
  <2>3. pc'[c] = "reducing" /\ IdleBut({c})' /\ ent'[c] = [row EXCEPT !.qty = @ - order[c].fill]
    BY <1>w, <1>1, <2>1, <2>2, CloserMoves
  <2>4. order[c].fill \in 1..(row.qty - 1) /\ ~order[c].clean
    BY <1>0, <1>2, <2>1
  <2>5. CloserRuns(c)'
    BY <1>0, <1>2, <2>1, <2>3, <2>4 DEF CloserRuns, Finds, PL!InClosingFill
  <2> QED BY <1>0, <1>1, <1>3, <2>1, <2>2, <2>5, CloserGoesOn, Words
<1> QED BY <1>4, <1>5, <1>6, <1>7, <1>8

\* A closing fill: promoted if need be, zeroed, booked, CLOSING, CLOSED.
LEMMA ClosingSteps ==
    ASSUME CloseInv, NEW c \in Closing2,
           \/ PL!PromoteRead(c) \/ PL!PromoteSave(c) \/ PL!ZeroAndSave(c) \/ PL!BookAndRead(c)
           \/ PL!ClosingSave(c) \/ PL!FinalizeRead(c) \/ PL!FinalizeSave(c)
    PROVE  CloseInv'
<1>0. /\ row \in [state : PL!States, qty : Nat] /\ exch \in Nat /\ booked \in Nat /\ c \in PL!Procs
      /\ order \in [{"unwind", "timestop"} -> [want : Nat, fill : Nat, clean : BOOLEAN]]
      /\ order[c] \in [want : Nat, fill : Nat, clean : BOOLEAN]
      /\ Finds(c) \in {"open", "pending_open"} /\ PL!NoEntity \in [state : PL!States, qty : Int]
      /\ c \in {"unwind", "timestop"} /\ Lots \in Nat \ {0}
  BY CloserSees, Words DEF Closing2
<1>w. /\ c \in Closing2 /\ PL!NoEntity \in [state : PL!States, qty : Int]
      /\ {"terminal", "applying", "promoting", "zeroing", "reducing", "promoted", "zeroed", "closingSave", "inClosing",
          "closedSave"} \subseteq Places
  BY Words
<1>1. /\ pc[c] \in {"promoting", "promoted", "zeroing", "zeroed", "closingSave", "inClosing", "closedSave"}
      /\ CloserRuns(c)
  <2>1. pc[c] \in {"promoting", "promoted", "zeroing", "zeroed", "closingSave", "inClosing", "closedSave"}
    BY DEF PL!PromoteRead, PL!PromoteSave, PL!ZeroAndSave, PL!BookAndRead, PL!ClosingSave, PL!FinalizeRead,
           PL!FinalizeSave, PL!At
  <2> QED BY <2>1, WhichPhase
<1>2. slot \/ row.state = "closed"
  BY <1>1 DEF CloserRuns, PL!InClosingFill
<1>3. row.qty + booked + (IF pc[c] = "zeroed" THEN order[c].fill ELSE 0) = Lots
  <2>1. Taken = IF pc[c] = "zeroed" THEN order[c].fill ELSE 0
    BY <1>1, TakenBy DEF CloserRuns
  <2> QED BY <1>0, <2>1 DEF CloseInv
<1>4. CASE PL!PromoteRead(c)
  <2>1. pc[c] = "promoting" /\ c = "unwind" /\ row.state = "pending_open" /\ row.qty > 0 /\ ~indexed
        /\ order[c].fill = row.qty /\ closing
    BY <1>1, <1>4 DEF PL!PromoteRead, PL!At, CloserRuns, Finds, PL!InClosingFill
  <2>2. /\ PL!Goto(c, "promoted", [row EXCEPT !.state = "open"])
        /\ UNCHANGED <<row, exch, booked, slot, indexed, closing, order>>
    BY <1>4, <2>1 DEF PL!PromoteRead, PL!LegalTransition
  <2>3. [row EXCEPT !.state = "open"] \in [state : PL!States, qty : Int]
    BY <1>0, Words
  <2>4. pc'[c] = "promoted" /\ IdleBut({c})' /\ ent'[c] = [row EXCEPT !.state = "open"]
    BY <1>w, <1>1, <2>2, <2>3, CloserMoves
  <2>5. CloserRuns(c)'
    BY <1>0, <1>2, <2>1, <2>2, <2>4 DEF CloserRuns, Finds, PL!InClosingFill
  <2> QED BY <1>0, <1>1, <1>3, <2>1, <2>2, <2>3, <2>5, CloserGoesOn, Words
<1>5. CASE PL!PromoteSave(c)
  <2>1. pc[c] = "promoted" /\ row.qty > 0 /\ order[c].fill = row.qty /\ ent[c] = [row EXCEPT !.state = "open"]
        /\ (c = "unwind" => ~indexed) /\ slot /\ closing
    BY <1>0, <1>1, <1>5 DEF PL!PromoteSave, PL!At, CloserRuns, Finds, PL!InClosingFill
  <2>2. ent[c] \in [state : PL!States, qty : Nat] /\ ent[c].qty = row.qty /\ ent[c].state = "open"
    BY <1>0, <2>1, Words
  <2>3. /\ PL!Goto(c, "zeroing", ent[c]) /\ row' = ent[c] /\ UNCHANGED <<exch, booked, closing, order>>
        /\ slot' /\ (indexed' => indexed)
    BY <1>5, <2>1, <2>2 DEF PL!PromoteSave, PL!TransitionSave, PL!OnTransition
  <2>4. pc'[c] = "zeroing" /\ IdleBut({c})' /\ ent'[c] = ent[c]
    BY <1>w, <1>1, <2>2, <2>3, CloserMoves
  <2>5. CloserRuns(c)'
    BY <1>0, <2>1, <2>2, <2>3, <2>4 DEF CloserRuns, Finds, PL!InClosingFill
  <2>6. ent[c] \in [state : PL!States, qty : Int]
    BY <2>2
  <2>7. row'.qty + booked' + 0 = Lots
    BY <1>0, <1>3, <2>1, <2>2, <2>3
  <2> QED BY <1>0, <1>1, <2>2, <2>3, <2>5, <2>6, <2>7, CloserGoesOn, Words
<1>6. CASE PL!ZeroAndSave(c)
  <2>1. /\ pc[c] = "zeroing" /\ order[c].fill = row.qty /\ row.state = "open" /\ ent[c] = row
        /\ (c = "unwind" => ~indexed) /\ slot /\ closing
    BY <1>1, <1>2, <1>6 DEF PL!ZeroAndSave, PL!At, CloserRuns, PL!InClosingFill
  <2>2. /\ PL!Goto(c, "zeroed", PL!NoEntity) /\ row' = [row EXCEPT !.qty = 0]
        /\ UNCHANGED <<exch, booked, slot, indexed, closing, order>>
    BY <1>6, <2>1 DEF PL!ZeroAndSave
  <2>3. row' = [state |-> "open", qty |-> 0] /\ row' \in [state : PL!States, qty : Nat]
    BY <1>0, <2>1, <2>2, Words
  <2>4. pc'[c] = "zeroed" /\ IdleBut({c})'
    BY <1>w, <1>1, <2>2, CloserMoves
  <2>5. CloserRuns(c)'
    BY <1>0, <2>1, <2>2, <2>3, <2>4 DEF CloserRuns, PL!InClosingFill
  <2>6. row'.qty + booked' + order'[c].fill = Lots
    BY <1>0, <1>3, <2>1, <2>2, <2>3
  <2> QED BY <1>0, <1>1, <2>2, <2>3, <2>5, <2>6, CloserGoesOn, Words
<1>7. CASE PL!BookAndRead(c)
  <2>1. pc[c] = "zeroed" /\ row = [state |-> "open", qty |-> 0] /\ (c = "unwind" => ~indexed) /\ slot /\ closing
    BY <1>1, <1>2, <1>7 DEF PL!BookAndRead, PL!At, CloserRuns, PL!InClosingFill
  <2>2. /\ PL!Goto(c, "closingSave", [row EXCEPT !.state = "closing"]) /\ booked' = booked + order[c].fill
        /\ UNCHANGED <<row, exch, slot, indexed, closing, order>>
    BY <1>7, <2>1 DEF PL!BookAndRead, PL!LegalTransition
  <2>3. [row EXCEPT !.state = "closing"] = [state |-> "closing", qty |-> 0]
        /\ [row EXCEPT !.state = "closing"] \in [state : PL!States, qty : Int]
    BY <2>1, Words
  <2>4. pc'[c] = "closingSave" /\ IdleBut({c})' /\ ent'[c] = [state |-> "closing", qty |-> 0]
    BY <1>w, <1>1, <2>2, <2>3, CloserMoves
  <2>5. CloserRuns(c)'
    BY <1>0, <2>1, <2>2, <2>4 DEF CloserRuns, PL!InClosingFill
  <2>6. row'.qty + booked' + 0 = Lots /\ booked' \in Nat
    BY <1>0, <1>3, <2>1, <2>2
  <2> QED BY <1>0, <1>1, <2>2, <2>3, <2>5, <2>6, CloserGoesOn, Words
<1>8. CASE PL!ClosingSave(c)
  <2>1. /\ pc[c] = "closingSave" /\ row.qty = 0 /\ ent[c] = [state |-> "closing", qty |-> 0]
        /\ (c = "unwind" => ~indexed) /\ slot /\ closing
    BY <1>1, <1>2, <1>8 DEF PL!ClosingSave, PL!At, CloserRuns, PL!InClosingFill
  <2>2. /\ PL!Goto(c, "inClosing", PL!NoEntity) /\ row' = [state |-> "closing", qty |-> 0]
        /\ UNCHANGED <<exch, booked, closing, order>> /\ slot' /\ (indexed' => indexed)
    <3>1. /\ PL!Goto(c, "inClosing", PL!NoEntity) /\ row' = ent[c] /\ UNCHANGED <<exch, booked, closing, order>>
          /\ slot' = (slot /\ ent[c].state # "closed")
          /\ indexed' = (indexed /\ ent[c].state \notin {"closing", "closed"})
      BY <1>8 DEF PL!ClosingSave, PL!TransitionSave, PL!OnTransition
    <3>2. ent[c].state = "closing"
      BY <2>1
    <3> QED BY <2>1, <3>1, <3>2
  <2>3. pc'[c] = "inClosing" /\ IdleBut({c})'
    BY <1>w, <1>1, <2>2, CloserMoves
  <2>4. CloserRuns(c)'
    BY <1>0, <2>1, <2>2, <2>3 DEF CloserRuns, PL!InClosingFill
  <2>5. row'.qty + booked' + 0 = Lots /\ row' \in [state : PL!States, qty : Nat]
    BY <1>0, <1>3, <2>1, <2>2, Words
  <2> QED BY <1>0, <1>1, <2>2, <2>4, <2>5, CloserGoesOn, Words
<1>9. CASE PL!FinalizeRead(c)
  <2>1. /\ pc[c] = "inClosing" /\ row = [state |-> "closing", qty |-> 0]
        /\ (c = "unwind" => ~indexed) /\ slot /\ closing
    BY <1>1, <1>2, <1>9 DEF PL!FinalizeRead, PL!At, CloserRuns, PL!InClosingFill
  <2>2. /\ PL!Goto(c, "closedSave", [row EXCEPT !.state = "closed"])
        /\ UNCHANGED <<row, exch, booked, slot, indexed, closing, order>>
    BY <1>9, <2>1 DEF PL!FinalizeRead, PL!LegalTransition
  <2>3. [row EXCEPT !.state = "closed"] = [state |-> "closed", qty |-> 0]
        /\ [row EXCEPT !.state = "closed"] \in [state : PL!States, qty : Int]
    BY <2>1, Words
  <2>4. pc'[c] = "closedSave" /\ IdleBut({c})' /\ ent'[c] = [state |-> "closed", qty |-> 0]
    BY <1>w, <1>1, <2>2, <2>3, CloserMoves
  <2>5. CloserRuns(c)'
    BY <1>0, <2>1, <2>2, <2>4 DEF CloserRuns, PL!InClosingFill
  <2> QED BY <1>0, <1>1, <1>3, <2>1, <2>2, <2>3, <2>5, CloserGoesOn, Words
<1>10. CASE PL!FinalizeSave(c)
  <2>1. /\ pc[c] = "closedSave" /\ row.qty = 0 /\ ent[c] = [state |-> "closed", qty |-> 0]
        /\ (c = "unwind" => ~indexed)
    BY <1>1, <1>10 DEF PL!FinalizeSave, PL!At, CloserRuns
  <2>2. /\ PL!Goto(c, "terminal", PL!NoEntity) /\ row' = [state |-> "closed", qty |-> 0]
        /\ UNCHANGED <<exch, booked, order>> /\ (indexed' => indexed) /\ ~closing'
    BY <1>10, <2>1 DEF PL!FinalizeSave, PL!OnTransition
  <2>3. pc'[c] = "terminal" /\ IdleBut({c})'
    BY <1>w, <1>1, <2>2, CloserMoves
  <2>4. CloserRuns(c)'
    BY <1>0, <2>1, <2>2, <2>3 DEF CloserRuns, PL!InClosingFill
  <2>5. row'.qty + booked' + 0 = Lots /\ row' \in [state : PL!States, qty : Nat]
    BY <1>0, <1>3, <2>1, <2>2, Words
  <2> QED BY <1>0, <1>1, <2>2, <2>4, <2>5, CloserGoesOn, Words
<1> QED BY <1>4, <1>5, <1>6, <1>7, <1>8, <1>9, <1>10

\* A fill that leaves a part: reduced and booked in one transaction; then the end of the handler.
LEMMA EndingSteps ==
    ASSUME CloseInv, NEW c \in Closing2, PL!ReduceRead(c) \/ PL!ReduceSave(c) \/ PL!Terminal(c)
    PROVE  CloseInv'
<1>0. /\ row \in [state : PL!States, qty : Nat] /\ exch \in Nat /\ booked \in Nat /\ c \in PL!Procs
      /\ order \in [{"unwind", "timestop"} -> [want : Nat, fill : Nat, clean : BOOLEAN]]
      /\ order[c] \in [want : Nat, fill : Nat, clean : BOOLEAN]
      /\ Finds(c) \in {"open", "pending_open"} /\ c \in {"unwind", "timestop"} /\ CloseTyped
      /\ ent[c] \in [state : PL!States, qty : Int]
  BY CloserSees DEF Closing2, CloseInv
<1>w. /\ c \in Closing2 /\ PL!NoEntity \in [state : PL!States, qty : Int]
      /\ {"terminal", "reduced", "idle"} \subseteq Places
  BY Words
<1>1. pc[c] \in {"reducing", "reduced", "terminal"} /\ CloserRuns(c)
  <2>1. pc[c] \in {"reducing", "reduced", "terminal"}
    BY DEF PL!ReduceRead, PL!ReduceSave, PL!Terminal, PL!At
  <2> QED BY <2>1, WhichPhase
<1>2. /\ Taken = 0 /\ row.qty + booked = Lots /\ ~closing /\ (slot \/ row.state = "closed")
      /\ (c = "unwind" => ~indexed)
  <2>1. Taken = 0
    BY <1>1, TakenBy DEF CloserRuns
  <2> QED BY <1>0, <1>1, <2>1 DEF CloseInv, CloserRuns, PL!InClosingFill
<1>3. CASE PL!ReduceRead(c)
  <2>1. /\ pc[c] = "reducing" /\ row.state = Finds(c) /\ row.qty > 0 /\ ent[c] = [row EXCEPT !.qty = @ - order[c].fill]
        /\ order[c].fill \in 1..(row.qty - 1) /\ ~order[c].clean
    BY <1>1, <1>3 DEF PL!ReduceRead, PL!At, CloserRuns
  <2>2. [row EXCEPT !.qty = ent[c].qty] = ent[c]
    BY <1>0, <2>1
  <2>3. PL!Goto(c, "reduced", ent[c]) /\ UNCHANGED <<row, exch, booked, slot, indexed, closing, order>>
    BY <1>3, <2>2 DEF PL!ReduceRead, PL!memory
  <2>4. pc'[c] = "reduced" /\ IdleBut({c})' /\ ent'[c] = ent[c]
    BY <1>w, <1>0, <1>1, <2>3, CloserMoves
  <2>5. CloserRuns(c)'
    BY <1>0, <1>2, <2>1, <2>3, <2>4 DEF CloserRuns, PL!InClosingFill, Finds
  <2>6. row'.qty + booked' + 0 = Lots /\ row' \in [state : PL!States, qty : Nat] /\ exch' \in Nat /\ booked' \in Nat
        /\ order' \in [{"unwind", "timestop"} -> [want : Nat, fill : Nat, clean : BOOLEAN]]
    BY <1>0, <1>2, <2>3
  <2>7. ent[c] \in [state : PL!States, qty : Int]
    BY <1>0
  <2> QED BY <1>w, <1>1, <2>3, <2>5, <2>6, <2>7, CloserGoesOn
<1>4. CASE PL!ReduceSave(c)
  <2>1. /\ pc[c] = "reduced" /\ row.state = Finds(c) /\ ent[c] = [row EXCEPT !.qty = @ - order[c].fill]
        /\ order[c].fill \in 1..(row.qty - 1) /\ ~order[c].clean
    BY <1>1, <1>4 DEF PL!ReduceSave, PL!At, CloserRuns
  <2>2. /\ PL!Goto(c, "terminal", PL!NoEntity) /\ UNCHANGED <<exch, slot, indexed, closing, order>>
        /\ row' = ent[c] /\ booked' = booked + order[c].fill
    BY <1>4 DEF PL!ReduceSave, PL!memory
  <2>3. pc'[c] = "terminal" /\ IdleBut({c})'
    BY <1>w, <1>1, <2>2, CloserMoves
  <2>4. row'.qty = row.qty - order[c].fill /\ row'.state = row.state /\ row' \in [state : PL!States, qty : Nat]
    BY <1>0, <2>1, <2>2
  <2>5. CloserRuns(c)'
    BY <1>0, <1>2, <2>1, <2>2, <2>3, <2>4 DEF CloserRuns, PL!InClosingFill, Finds
  <2>6. row'.qty + booked' + 0 = Lots /\ exch' \in Nat /\ booked' \in Nat
        /\ order' \in [{"unwind", "timestop"} -> [want : Nat, fill : Nat, clean : BOOLEAN]]
    BY <1>0, <1>2, <2>1, <2>2, <2>4
  <2> QED BY <1>w, <1>1, <2>2, <2>4, <2>5, <2>6, CloserGoesOn
<1>5. CASE PL!Terminal(c)
  <2>0. pc[c] = "terminal" /\ UNCHANGED <<row, exch, booked, slot, indexed, closing>>
        /\ order' = [order EXCEPT ![c] = PL!NoOrder]
    BY <1>5 DEF PL!Terminal, PL!At, PL!memory
  <2>1. order' \in [{"unwind", "timestop"} -> [want : Nat, fill : Nat, clean : BOOLEAN]]
    BY <1>0, <2>0 DEF PL!NoOrder
  <2>2. CASE row.state = "closed"
    <3>1. PL!Goto(c, "idle", PL!NoEntity)
      BY <1>5, <2>2 DEF PL!Terminal
    <3>2. IdleBut({})'
      BY <1>w, <1>1, <3>1, CloserMoves
    <3>3. AtRest'
      BY <1>2, <2>0, <2>2, <3>2, Handlers DEF AtRest, IdleBut
    <3>4. row'.qty + booked' + 0 = Lots /\ row' \in [state : PL!States, qty : Nat] /\ exch' \in Nat /\ booked' \in Nat
      BY <1>0, <1>2, <2>0
    <3> QED BY <1>w, <1>1, <2>1, <3>1, <3>3, <3>4, CloserGoesOn
  <2>3. CASE row.state # "closed"
    <3> DEFINE u == PL!UnknownOf[c]
    <3>1. row.state = Finds(c) /\ ~order[c].clean /\ slot
      BY <1>1, <1>2, <2>0, <2>3 DEF CloserRuns
    <3>2. u \in PL!Procs /\ u # c /\ pc[u] = "idle" /\ u \in {"unknownUnwind", "unknownTimestop"}
      BY <1>0, <1>1, Handlers DEF CloserRuns, IdleBut
    <3>3. /\ pc' = [pc EXCEPT ![c] = "idle", ![u] = "pending"] /\ ent' = [ent EXCEPT ![c] = PL!NoEntity]
      <4>1. PL!Escalated(c, "idle", PL!NoEntity)
        BY <1>5, <2>3, <3>1 DEF PL!Terminal
      <4>2. [pc EXCEPT ![c] = "idle"][u] = "idle"
        BY <1>0, <3>2 DEF CloseTyped
      <4> QED BY <3>2, <4>1, <4>2 DEF PL!Escalated
    <3> HIDE DEF u
    <3>4. /\ pc' \in [PL!Procs -> Places] /\ ent' \in [PL!Procs -> [state : PL!States, qty : Int]]
          /\ pc'[u] = "pending" /\ pc'[c] = "idle"
      <4>1. pc \in [PL!Procs -> Places] /\ ent \in [PL!Procs -> [state : PL!States, qty : Int]]
            /\ PL!NoEntity \in [state : PL!States, qty : Int] /\ "pending" \in Places /\ "idle" \in Places
        BY <1>0, Words DEF CloseTyped
      <4> QED BY <1>0, <3>2, <3>3, <4>1
    <3>5. IdleBut({u})'
      BY <1>0, <1>1, <3>2, <3>3, <3>4 DEF CloserRuns, IdleBut, CloseTyped
    <3>6. EscalationRuns(c)'
      BY <1>2, <2>0, <3>1, <3>4, <3>5 DEF EscalationRuns, u, Finds
    <3>7. CloseTyped'
      BY <1>0, <2>0, <2>1, <3>4 DEF CloseTyped
    <3>8. Taken' = 0
      BY <3>2, <3>5, Handlers DEF Taken, IdleBut
    <3> QED BY <1>2, <1>w, <2>0, <3>6, <3>7, <3>8, SumKept DEF CloseInv, Phase, Closing2
  <2> QED BY <2>2, <2>3
<1> QED BY <1>3, <1>4, <1>5

\* The row of a paper position as the entry fill wrote it.
LEMMA CloseInit == ASSUME PL!Init PROVE CloseInv
<1>1. /\ row = [state |-> "pending_open", qty |-> Lots] /\ exch = Lots /\ booked = 0 /\ slot = FALSE /\ closing = FALSE
      /\ indexed = FALSE /\ pc = [p \in PL!Procs |-> IF p = "entry" THEN "created" ELSE "idle"]
      /\ ent = [p \in PL!Procs |-> IF p = "entry" THEN [state |-> "pending_open", qty |-> Lots] ELSE PL!NoEntity]
      /\ order = [c \in {"unwind", "timestop"} |-> PL!NoOrder]
  BY DEF PL!Init
<1>2. CloseTyped
  BY <1>1, Words, ClosesAssumption DEF CloseTyped, PL!NoOrder, PL!NoEntity
<1>3. EntryRuns
  BY <1>1, Handlers DEF EntryRuns, IdleBut
<1>4. Taken = 0
  BY <1>3, TakenBy
<1> QED BY <1>1, <1>2, <1>3, <1>4, ClosesAssumption DEF CloseInv, Phase

LEMMA ClosesStepOn == ASSUME CloseInv, PL!Next PROVE CloseInv'
<1>1. CASE PL!Entry
  BY <1>1, EntryRunsOn
<1>2. ASSUME NEW c \in Closing2, PL!Close(c) PROVE CloseInv'
  BY <1>2, ProducerSteps, FillSteps, ClosingSteps, EndingSteps DEF PL!Close
<1>3. CASE PL!NotACandidate
  BY <1>3, ProducerSteps DEF Closing2
<1>4. ASSUME NEW u \in PL!Unknowns, PL!Unknown(u) PROVE CloseInv'
  <2>1. PICK c \in Closing2 : u = PL!UnknownOf[c]
    BY <1>4, Handlers DEF Closing2
  <2> QED BY <1>4, <2>1, EscalationRunsOn
<1>5. CASE PL!Recon
  <2>1. pc["recon"] = "idle"
    BY WhichPhase
  <2>2. FALSE
    BY <1>5, <2>1 DEF PL!Recon, PL!Snapshot, PL!LoadRow, PL!LeadRead, PL!LeadSave, PL!MissingRead, PL!MissingSave,
                      PL!AdjustRead, PL!AdjustSave, PL!SurvivedRead, PL!PassOver, PL!SurvivedSave, PL!At
  <2> QED BY <2>2
<1>6. CASE PL!Sweeper
  BY <1>6, SweepRunsOn
<1>7. CASE PL!ExchangeCloses
  <2>1. exch' = 0 /\ UNCHANGED <<row, booked, slot, indexed, closing, pc, ent, order>>
    BY <1>7 DEF PL!ExchangeCloses, PL!memory
  <2> QED BY <2>1 DEF CloseInv, CloseTyped, Phase, EntryRuns, CloserRuns, EscalationRuns, AtRest, IdleBut, Taken,
                      PL!InClosingFill
<1> QED BY <1>1, <1>2, <1>3, <1>4, <1>5, <1>6, <1>7 DEF PL!Next, Closing2

-----------------------------------------------------------------------------
ClosePart == part = "closes" => CloseInv

LEMMA CloseInitial == Init => ClosePart
  BY CloseInit DEF Init, ClosePart

LEMMA CloseStays == ClosePart /\ [Next]_vars => ClosePart'
<1> SUFFICES ASSUME ClosePart, [Next]_vars, part' = "closes" PROVE CloseInv'
  BY DEF ClosePart
<1>1. CASE Next
  <2>1. part = "closes" /\ PL!Next
    BY <1>1 DEF Next
  <2> QED BY <2>1, ClosesStepOn DEF ClosePart
<1>2. CASE UNCHANGED vars
  <2>1. part = "closes" /\ UNCHANGED <<row, exch, booked, slot, indexed, closing, pc, ent, order>>
    BY <1>2 DEF vars, PL!vars, PL!memory
  <2>2. CloseInv
    BY <2>1 DEF ClosePart
  <2> QED BY <2>1, <2>2 DEF CloseInv, CloseTyped, Phase, EntryRuns, CloserRuns, EscalationRuns, AtRest, IdleBut, Taken,
                            PL!InClosingFill
<1> QED BY <1>1, <1>2

\* Every save moves the row along an arrow of the state graph.
LEMMA ClosesMoveLegally == ASSUME CloseInv, PL!Next PROVE PL!MovesLegally
<1> SUFFICES ASSUME row'.state # row.state PROVE PL!LegalTransition(row.state, row'.state)
  BY DEF PL!MovesLegally
<1>0. row \in [state : PL!States, qty : Nat] /\ row' # row
  BY DEF CloseInv, CloseTyped
<1>1. CASE PL!Entry
  <2>1. EntryRuns
    BY <1>1, WhichPhase DEF PL!Entry, PL!AcceptFill, PL!RejectFill, PL!SaveAttachResult, PL!OpenRead, PL!OpenSave,
                            PL!RebuildIndex, PL!At
  <2>2. CASE PL!SaveAttachResult
    BY <1>0, <2>1, <2>2 DEF PL!SaveAttachResult, PL!At, EntryRuns
  <2>3. CASE PL!OpenSave
    <3>1. row' = [row EXCEPT !.state = "open"] /\ row.state = "pending_open"
      BY <2>1, <2>3 DEF PL!OpenSave, PL!TransitionSave, PL!At, EntryRuns
    <3> QED BY <1>0, <3>1 DEF PL!LegalTransition
  <2> QED BY <1>0, <1>1, <2>2, <2>3 DEF PL!Entry, PL!AcceptFill, PL!RejectFill, PL!OpenRead, PL!TransitionRead,
                                        PL!RebuildIndex
<1>2. ASSUME NEW c \in Closing2, PL!Close(c)
      PROVE  PL!LegalTransition(row.state, row'.state)
  <2>1. CASE PL!PromoteSave(c) \/ PL!ZeroAndSave(c) \/ PL!ClosingSave(c) \/ PL!FinalizeSave(c) \/ PL!ReduceSave(c)
    <3>1. (row' = [ent[c] EXCEPT !.qty = 0] /\ pc[c] = "zeroing") \/ row' = ent[c]
      BY <2>1 DEF PL!PromoteSave, PL!ZeroAndSave, PL!ClosingSave, PL!FinalizeSave, PL!ReduceSave, PL!TransitionSave, PL!At
    <3>2. /\ pc[c] \in {"promoted", "zeroing", "closingSave", "closedSave", "reduced"} /\ CloserRuns(c)
      <4>1. pc[c] \in {"promoted", "zeroing", "closingSave", "closedSave", "reduced"}
        BY <2>1 DEF PL!PromoteSave, PL!ZeroAndSave, PL!ClosingSave, PL!FinalizeSave, PL!ReduceSave, PL!At
      <4> QED BY <4>1, WhichPhase
    <3>3. /\ pc[c] = "zeroing" => ent[c] = row
          /\ pc[c] = "reduced" => ent[c].state = row.state
          /\ pc[c] = "promoted" => ent[c].state = "open" /\ row.state = Finds(c)
          /\ pc[c] = "closingSave" => row.state = "open" /\ ent[c].state = "closing"
          /\ pc[c] = "closedSave" => row.state = "closing" /\ ent[c].state = "closed"
      BY <1>0, <3>2 DEF CloserRuns
    <3> QED BY <1>0, <3>1, <3>2, <3>3 DEF Finds, PL!LegalTransition
  <2>2. ASSUME UNCHANGED row PROVE FALSE
    BY <1>0, <2>2
  <2> QED BY <1>2, <2>1, <2>2 DEF PL!Close, PL!Acquire, PL!EmitClose, PL!ProducerThrows, PL!SubmitAnswer,
       PL!FillNoRow, PL!FillFlatRow, PL!FillCloses, PL!FillReduces, PL!PromoteRead, PL!BookAndRead, PL!FinalizeRead,
       PL!ReduceRead, PL!Terminal
<1>3. ASSUME NEW u \in PL!Unknowns, PL!Unknown(u)
      PROVE  PL!LegalTransition(row.state, row'.state)
  <2>1. PICK c \in Closing2 : u = PL!UnknownOf[c]
    BY Handlers DEF Closing2
  <2>2. CASE PL!UnknownSave(u)
    <3>1. pc[u] = "reconcilingSave" /\ row' = ent[u]
      BY <2>2 DEF PL!UnknownSave, PL!TransitionSave, PL!At
    <3>2. row.state = Finds(c) /\ ent[u] = [row EXCEPT !.state = "reconciling"]
      BY <2>1, <3>1, WhichPhase DEF EscalationRuns
    <3> QED BY <1>0, <3>1, <3>2 DEF Finds, PL!LegalTransition
  <2> QED BY <1>0, <1>3, <2>2 DEF PL!Unknown, PL!UnknownCheck, PL!UnknownRead, PL!TransitionRead
<1>4. CASE PL!Sweeper
  <2>1. CASE PL!OrphanSave \/ PL!ParkedSave
    <3>1. row' = ent["sweep"] /\ pc["sweep"] \in {"leadSave", "closedSave"} /\ AtRest
      BY <2>1, WhichPhase DEF PL!OrphanSave, PL!ParkedSave, PL!TransitionSave, PL!At
    <3>2. \/ row.state = "pending_open" /\ ent["sweep"] = [row EXCEPT !.state = "reconciling"]
          \/ row.state = "reconciling" /\ ent["sweep"] = [row EXCEPT !.state = "closed"]
      BY <3>1 DEF AtRest
    <3> QED BY <1>0, <3>1, <3>2 DEF PL!LegalTransition
  <2> QED BY <1>0, <1>4, <2>1 DEF PL!Sweeper, PL!Sweep, PL!OrphanRead, PL!ParkedRead, PL!TransitionRead
<1>5. CASE PL!Recon
  <2>1. pc["recon"] = "idle"
    BY WhichPhase
  <2> QED BY <1>5, <2>1 DEF PL!Recon, PL!Snapshot, PL!LoadRow, PL!LeadRead, PL!LeadSave, PL!MissingRead, PL!MissingSave,
                      PL!AdjustRead, PL!AdjustSave, PL!SurvivedRead, PL!PassOver, PL!SurvivedSave, PL!At
<1>6. CASE PL!NotACandidate \/ PL!ExchangeCloses
  BY <1>0, <1>6 DEF PL!NotACandidate, PL!ExchangeCloses
<1> QED BY <1>1, <1>2, <1>3, <1>4, <1>5, <1>6 DEF PL!Next, Closing2

\* The unwind, the time stop, their escalation and the sweep on one paper position, whatever fills in part,
\* throws or is closed by the exchange: what the transactions say was closed is what the row lost once the close handlers are done, and
\* the close slot is held of a live row only while a close or its escalation is in flight.
THEOREM ClosesAreSound == Spec => []ClosesSound
<1>1. ClosePart => ClosesSound
  <2> SUFFICES ASSUME part = "closes", CloseInv
               PROVE  PL!ReducesAddUp /\ PL!HeldSlotIsInFlight
    BY DEF ClosePart, ClosesSound
  <2>1. PL!ReducesAddUp
    <3> SUFFICES ASSUME pc["unwind"] = "idle", pc["timestop"] = "idle" PROVE row.qty + booked = Lots
      BY DEF PL!ReducesAddUp, PL!Idle
    <3>1. Taken = 0
      BY DEF Taken
    <3> QED BY <3>1 DEF CloseInv, CloseTyped
  <2>2. PL!HeldSlotIsInFlight
    <3> SUFFICES ASSUME slot, row.state \in {"open", "pending_open"}
                 PROVE  \E p \in {"unwind", "timestop"} \cup PL!Unknowns : pc[p] # "idle"
      BY DEF PL!HeldSlotIsInFlight, PL!Idle
    <3>1. ~EntryRuns /\ ~AtRest
      BY DEF EntryRuns, AtRest
    <3>2. PICK c \in {"unwind", "timestop"} : CloserRuns(c) \/ EscalationRuns(c)
      BY <3>1 DEF CloseInv, Phase
    <3> QED BY <3>2, Handlers DEF CloserRuns, EscalationRuns
  <2> QED BY <2>1, <2>2
<1> QED BY <1>1, CloseInitial, CloseStays, PTL DEF Spec

\* No step undoes what was established: the boot opens the engine with the exposure of the surviving rows,
\* the paper peak never falls, a refresh never evicts the symbol of a held position, and a paper position's
\* row follows positionStateGraph (setOpenExposureFromBoot, recordSnapshot, the refresh, transition).
THEOREM NothingIsUndone == Spec => NothingUndone
<1>1. ASSUME DayPart, PaperPart, UniversePart, ClosePart, Next
      PROVE  /\ part = "day" => RD!OpensExact
             /\ part = "paper" => peak' >= peak
             /\ part = "universe" => MF!KeepsHeld
             /\ part = "closes" => PL!MovesLegally
  <2>1. ASSUME part = "day" PROVE RD!OpensExact
    BY <1>1, <2>1, DayStep DEF DayPart, Next
  <2>2. ASSUME part = "paper" PROVE peak' >= peak
    BY <1>1, <2>2, PaperStep DEF PaperPart, Next
  <2>3. ASSUME part = "universe" PROVE MF!KeepsHeld
    BY <1>1, <2>3, UniverseStep DEF UniversePart, Next
  <2>4. ASSUME part = "closes" PROVE PL!MovesLegally
    BY <1>1, <2>4, ClosesMoveLegally DEF ClosePart, Next
  <2> QED BY <2>1, <2>2, <2>3, <2>4
<1>2. DayPart /\ PaperPart /\ UniversePart /\ ClosePart /\ [Next]_vars =>
        [/\ part = "day" => RD!OpensExact
         /\ part = "paper" => peak' >= peak
         /\ part = "universe" => MF!KeepsHeld
         /\ part = "closes" => PL!MovesLegally]_vars
  BY <1>1
<1> QED BY <1>2, DayInitial, DayStays, PaperInitial, PaperStays, UniverseInitial, UniverseStays, CloseInitial, CloseStays,
           PTL DEF Spec, NothingUndone
=============================================================================
