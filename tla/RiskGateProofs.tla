--------------------------- MODULE RiskGateProofs ---------------------------
(***************************************************************************)
(* Theorems about RiskGate, for every set of intents, every attribute      *)
(* table, every limit and both exchange environments.                      *)
(***************************************************************************)
EXTENDS RiskGate, FiniteSetTheorems, WellFoundedInduction, TLAPS

\* What a ledger transition can do: the result is a ledger, and no reservation
\* that did not count toward the caps starts to count.
LEMMA LedgerAfterFacts ==
    ASSUME NEW S, NEW to \in LedgerStates, ledger \in [Intents -> LedgerStates]
    PROVE  /\ LedgerAfter(S, to) \in [Intents -> LedgerStates]
           /\ \A j \in Intents :
                CountsTowardCaps(LedgerAfter(S, to)[j]) => j \in Active
  BY DEF LedgerAfter, LegalTransition, CountsTowardCaps, Active, LedgerStates

\* The slot the gate assigns is a slot or none.
LEMMA AssignType ==
    ASSUME NEW i \in Intents
    PROVE  Assign(i) \in Slots \cup {NoSlot}
  BY DEF Assign, AssignCorrelated, AssignIdiosyncratic, Slots, NoSlot

-----------------------------------------------------------------------------
\* Type correctness of the gate, the ledger and the executor's entry path.
THEOREM TypeCorrect == Spec => []TypeOK
<1>1. Init => TypeOK
  <2> SUFFICES ASSUME Init PROVE TypeOK
    OBVIOUS
  <2>1. clock \in 0..MaxClock
    BY ClockAssumption DEF Init
  <2>2. /\ recoveryReady \in BOOLEAN
        /\ snap \in [Intents -> SUBSET Intents]
    BY DEF Init
  <2>3. /\ stage \in [Intents -> Stages]
        /\ ledger \in [Intents -> LedgerStates]
        /\ slot \in [Intents -> Slots \cup {NoSlot}]
        /\ row \in [Intents -> RowStates]
        /\ owed \in [Intents -> Releases]
    BY DEF Init, Stages, LedgerStates, RowStates, Releases, Slots, NoSlot
  <2> QED
    BY <2>1, <2>2, <2>3 DEF TypeOK
<1>2. TypeOK /\ [Next]_vars => TypeOK'
  <2> SUFFICES ASSUME TypeOK, [Next]_vars PROVE TypeOK'
    OBVIOUS
  <2>0. /\ ledger \in [Intents -> LedgerStates]
        /\ {"confirmed", "released", "expired"} \subseteq LedgerStates
    BY DEF TypeOK, LedgerStates
  <2>a. \A S : \A to \in {"confirmed", "released", "expired"} :
            LedgerAfter(S, to) \in [Intents -> LedgerStates]
    BY <2>0, LedgerAfterFacts
  <2>1. ASSUME NEW i \in Intents, Detect(i) PROVE TypeOK'
    BY <2>1 DEF TypeOK, Detect, Routed, Stages
  <2>2. ASSUME NEW i \in Intents, Load(i) PROVE TypeOK'
    BY <2>2 DEF TypeOK, Load, Stages
  <2>3. ASSUME NEW i \in Intents, Reject(i) PROVE TypeOK'
    BY <2>3 DEF TypeOK, Reject, Stages
  <2>4. ASSUME NEW i \in Intents, Approve(i) PROVE TypeOK'
    BY <2>4, AssignType DEF TypeOK, Approve, Stages, LedgerStates
  <2>5. ASSUME NEW i \in Intents, EmitApproval(i) \/ DropApproval(i) PROVE TypeOK'
    BY <2>5 DEF TypeOK, EmitApproval, DropApproval, Stages
  <2>6. ASSUME NEW i \in Intents, SubmitNoFill(i) PROVE TypeOK'
    BY <2>6, <2>a DEF TypeOK, SubmitNoFill, Stages
  <2>7. ASSUME NEW i \in Intents, SubmitFill(i) PROVE TypeOK'
    BY <2>7 DEF TypeOK, SubmitFill, Stages, RowStates
  <2>8. ASSUME NEW i \in Intents, AcceptFill(i) PROVE TypeOK'
    BY <2>8, <2>a DEF TypeOK, AcceptFill, Stages, RowStates
  <2>9. ASSUME NEW i \in Intents, AbandonFill(i) PROVE TypeOK'
    BY <2>9, <2>a DEF TypeOK, AbandonFill, Stages
  <2>10. ASSUME NEW i \in Intents, NEW how \in {"executor", "reconcile"},
                CloseRow(i, how)
         PROVE TypeOK'
    BY <2>10 DEF TypeOK, CloseRow, RowStates, Releases
  <2>11. ASSUME NEW i \in Intents, ReleaseSlotForClosedPosition(i) PROVE TypeOK'
    BY <2>11, <2>a DEF TypeOK, ReleaseSlotForClosedPosition, Releases
  <2>12. ASSUME NEW i \in Intents, ReconcileClose(i) PROVE TypeOK'
    BY <2>12, <2>a DEF TypeOK, ReconcileClose, Releases
  <2>13. CASE Tick
    BY <2>13, ClockAssumption DEF TypeOK, Tick
  <2>14. CASE ExpireStaleReservations
    BY <2>14, <2>a DEF TypeOK, ExpireStaleReservations
  <2>15. CASE MarkRecoveryComplete
    BY <2>15 DEF TypeOK, MarkRecoveryComplete
  <2>16. CASE Restart
    BY <2>16 DEF TypeOK, Restart, Stages, LedgerStates, Releases
  <2>17. CASE UNCHANGED vars
    BY <2>17 DEF TypeOK, vars
  <2> QED
    BY <2>1, <2>2, <2>3, <2>4, <2>5, <2>6, <2>7, <2>8, <2>9, <2>10, <2>11,
       <2>12, <2>13, <2>14, <2>15, <2>16, <2>17
       DEF Next, IntentStep, SystemStep
<1> QED
  BY <1>1, <1>2, PTL DEF Spec
-----------------------------------------------------------------------------
(***************************************************************************)
(* Slot exclusivity.  The only step that makes a reservation count is      *)
(* Approve, and it looks at the whole live ledger when it picks the slot,  *)
(* so ReservationsExclusive is inductive together with TypeOK.             *)
(***************************************************************************)

\* A step that neither moves a slot nor makes a reservation count keeps
\* the slots exclusive.
LEMMA ShrinkingKeepsExclusive ==
    ASSUME ReservationsExclusive, slot' = slot,
           \A j \in Intents : CountsTowardCaps(ledger'[j]) => j \in Active
    PROVE  ReservationsExclusive'
  BY DEF ReservationsExclusive, Active

\* The assigned slot is compatible with every reservation that counts.
LEMMA AssignedSlotIsFree ==
    ASSUME TypeOK, NEW i \in Intents, NEW j \in Active,
           Assign(i) # NoSlot, slot[j] = Assign(i)
    PROVE  Assign(i) = "C" /\ ModeOf[i] # ModeOf[j]
<1>1. j \in OccupiedBy(i, Assign(i))
  BY DEF OccupiedBy, Occupants
<1>2. ModeOf[i] \in Modes /\ ModeOf[j] \in Modes
  BY AttributesAssumption DEF Active
<1>3. CASE ModeOf[i] = "correlated"
  BY <1>1, <1>2, <1>3 DEF Assign, AssignCorrelated, Modes, NoSlot
<1>4. CASE ModeOf[i] # "correlated"
  BY <1>1, <1>4 DEF Assign, AssignIdiosyncratic, NoSlot
<1> QED
  BY <1>3, <1>4

\* Every step preserves the exclusivity of reserved slots.
LEMMA ExclusiveStep == TypeOK /\ ReservationsExclusive /\ [Next]_vars
                        => ReservationsExclusive'
<1> SUFFICES ASSUME TypeOK, ReservationsExclusive, [Next]_vars
             PROVE  ReservationsExclusive'
  OBVIOUS
<1>0. /\ ledger \in [Intents -> LedgerStates]
      /\ {"confirmed", "released", "expired"} \subseteq LedgerStates
  BY DEF TypeOK, LedgerStates
<1>a. \A S : \A to \in {"confirmed", "released", "expired"} :
        ledger' = LedgerAfter(S, to) =>
          \A j \in Intents : CountsTowardCaps(ledger'[j]) => j \in Active
  BY <1>0, LedgerAfterFacts
<1>b. ledger' = ledger =>
          \A j \in Intents : CountsTowardCaps(ledger'[j]) => j \in Active
  BY DEF Active
<1>1. ASSUME NEW i \in Intents, Approve(i) PROVE ReservationsExclusive'
  <2>1. /\ slot' = [slot EXCEPT ![i] = Assign(i)]
        /\ ledger' = [ledger EXCEPT ![i] = "pending"]
        /\ Assign(i) # NoSlot
    BY <1>1 DEF Approve
  <2>2. \A j \in Active' : j # i => j \in Active /\ slot'[j] = slot[j]
    BY <2>1 DEF Active, TypeOK
  <2>3. slot'[i] = Assign(i)
    BY <2>1 DEF TypeOK
  <2>4. \A j \in Active' : j # i /\ slot'[j] = slot'[i] =>
           slot'[i] = "C" /\ ModeOf[i] # ModeOf[j]
    BY <2>1, <2>2, <2>3, AssignedSlotIsFree
  <2> QED
    BY <2>2, <2>3, <2>4 DEF ReservationsExclusive
<1>2. ASSUME NEW i \in Intents,
             \/ Detect(i) \/ Load(i) \/ Reject(i) \/ EmitApproval(i) \/ DropApproval(i)
             \/ SubmitFill(i) \/ \E how \in {"executor", "reconcile"} : CloseRow(i, how)
      PROVE ReservationsExclusive'
  BY <1>2, <1>b, ShrinkingKeepsExclusive
     DEF Detect, Load, Reject, EmitApproval, DropApproval, SubmitFill, CloseRow
<1>3. ASSUME NEW i \in Intents,
             SubmitNoFill(i) \/ AcceptFill(i) \/ AbandonFill(i)
      PROVE ReservationsExclusive'
  BY <1>3, <1>a, ShrinkingKeepsExclusive DEF SubmitNoFill, AcceptFill, AbandonFill
<1>4. ASSUME NEW i \in Intents, ReleaseSlotForClosedPosition(i)
      PROVE ReservationsExclusive'
  BY <1>4, <1>a, ShrinkingKeepsExclusive DEF ReleaseSlotForClosedPosition
<1>5. ASSUME NEW i \in Intents, ReconcileClose(i) PROVE ReservationsExclusive'
  BY <1>5, <1>a, <1>b, ShrinkingKeepsExclusive DEF ReconcileClose
<1>6. CASE Tick \/ MarkRecoveryComplete \/ UNCHANGED vars
  BY <1>6, <1>b, ShrinkingKeepsExclusive DEF Tick, MarkRecoveryComplete, vars
<1>7. CASE ExpireStaleReservations
  BY <1>7, <1>a, ShrinkingKeepsExclusive DEF ExpireStaleReservations
<1>8. CASE Restart
  BY <1>8, ShrinkingKeepsExclusive DEF Restart, CountsTowardCaps
<1> QED
  BY <1>1, <1>2, <1>3, <1>4, <1>5, <1>6, <1>7, <1>8
     DEF Next, IntentStep, SystemStep

\* However evaluations, fills, closes, sweeps and restarts interleave, no two
\* counting reservations share slot A or B, and slot C never holds two of the
\* same correlation mode.
THEOREM SlotsExclusive == Spec => []ReservationsExclusive
<1>1. Init => ReservationsExclusive
  BY DEF Init, ReservationsExclusive, Active, CountsTowardCaps
<1> QED
  BY <1>1, ExclusiveStep, TypeCorrect, PTL DEF Spec
-----------------------------------------------------------------------------
(***************************************************************************)
(* One live row per slot, when nothing takes a reservation from a live row:*)
(* PAPER mode has no TTL sweep and no reconcileClose, and the faults that  *)
(* separate a row from its reservation are absent.  HoldsSlot is the       *)
(* strengthening: a row on slot A or B is always covered by a reservation  *)
(* that counts, from its insertion until its close has been announced.     *)
(***************************************************************************)

Undisturbed ==
    /\ Paper
    /\ Faults \cap {"abandon", "midEntryClose", "restart"} = {}

HoldsSlot ==
    \A i \in Intents :
        /\ stage[i] \in {"approved", "submitting", "filled"} => ledger[i] = "pending"
        /\ stage[i] \in {"approved", "submitting", "filled", "settled"} => slot[i] \in Slots
        /\ stage[i] \notin {"filled", "settled"} => row[i] = "none"
        /\ stage[i] = "filled" => row[i] = "live"
        /\ owed[i] # "none" => owed[i] = "executor" /\ row[i] = "closed"
        /\ /\ slot[i] \in {"A", "B"}
           /\ stage[i] = "settled"
           /\ row[i] = "live" \/ owed[i] = "executor"
           => ledger[i] = "confirmed"

\* Covered rows inherit the exclusivity of their reservations.
LEMMA HoldsSlotImpliesOneRow ==
    TypeOK /\ ReservationsExclusive /\ HoldsSlot => OneRowPerSlot
<1> SUFFICES ASSUME TypeOK, ReservationsExclusive, HoldsSlot,
                    NEW i \in Intents, NEW j \in Intents,
                    row[i] = "live", row[j] = "live", i # j, slot[i] = slot[j],
                    slot[i] # "C"
             PROVE  FALSE
  BY DEF OneRowPerSlot
<1>1. stage[i] \in {"filled", "settled"} /\ stage[j] \in {"filled", "settled"}
  BY DEF HoldsSlot
<1>2. CASE slot[i] \in {"A", "B"}
  BY <1>1, <1>2 DEF HoldsSlot, ReservationsExclusive, Active, CountsTowardCaps
<1> QED
  BY <1>1, <1>2 DEF HoldsSlot, Slots

\* In an undisturbed instance every step keeps every row covered.
LEMMA HoldsSlotStep ==
    ASSUME Undisturbed, TypeOK, ReservationsExclusive, HoldsSlot, [Next]_vars
    PROVE  HoldsSlot'
<1> USE DEF LedgerAfter, LegalTransition
<1>1. ASSUME NEW i \in Intents, Detect(i) PROVE HoldsSlot'
  BY <1>1 DEF HoldsSlot, Detect, Routed, FlushedBy, TypeOK
<1>2. ASSUME NEW i \in Intents, Load(i) \/ Reject(i) PROVE HoldsSlot'
  BY <1>2 DEF HoldsSlot, Load, Reject, TypeOK
<1>3. ASSUME NEW i \in Intents, Approve(i) PROVE HoldsSlot'
  BY <1>3, AssignType DEF HoldsSlot, Approve, TypeOK
<1>4. ASSUME NEW i \in Intents, EmitApproval(i) \/ DropApproval(i) PROVE HoldsSlot'
  BY <1>4 DEF HoldsSlot, EmitApproval, DropApproval, TypeOK
<1>5. ASSUME NEW i \in Intents, SubmitNoFill(i) PROVE HoldsSlot'
  BY <1>5 DEF HoldsSlot, SubmitNoFill, TypeOK
<1>6. ASSUME NEW i \in Intents, SubmitFill(i) PROVE HoldsSlot'
  BY <1>6 DEF HoldsSlot, SubmitFill, TypeOK
<1>7. ASSUME NEW i \in Intents, AcceptFill(i) PROVE HoldsSlot'
  BY <1>7 DEF HoldsSlot, AcceptFill, TypeOK
<1>8. ASSUME NEW i \in Intents, NEW how \in {"executor", "reconcile"},
             CloseRow(i, how)
      PROVE HoldsSlot'
  BY <1>8 DEF HoldsSlot, CloseRow, TypeOK, Undisturbed
<1>9. ASSUME NEW i \in Intents, ReleaseSlotForClosedPosition(i) PROVE HoldsSlot'
  <2> DEFINE Freed == {j \in OnSlotOf(Intents, i) : ledger[j] = "confirmed"}
  <2>1. /\ owed[i] = "executor"
        /\ owed' = [owed EXCEPT ![i] = "none"]
        /\ ledger' = LedgerAfter(Freed, "released")
        /\ UNCHANGED <<stage, slot, row>>
    BY <1>9 DEF ReleaseSlotForClosedPosition
  <2>2. row[i] = "closed" /\ stage[i] = "settled" /\ slot[i] \in Slots
    BY <2>1 DEF HoldsSlot, TypeOK, Stages
  <2>3. ASSUME NEW j \in Freed, slot[j] \in {"A", "B"} PROVE j = i
    BY <2>1, <2>2, <2>3
       DEF HoldsSlot, ReservationsExclusive, Active, CountsTowardCaps, OnSlotOf, SameSymbol
  <2>4. \A j \in Intents : ledger[j] # "confirmed" => ledger'[j] = ledger[j]
    BY <2>1
  <2>5. \A j \in Intents : slot[j] \in {"A", "B"} /\ j # i => ledger'[j] = ledger[j]
    BY <2>1, <2>3
  <2> QED
    BY <2>1, <2>2, <2>4, <2>5 DEF HoldsSlot, TypeOK
<1>10. ASSUME NEW i \in Intents, AbandonFill(i) \/ ReconcileClose(i) PROVE FALSE
  BY <1>10 DEF AbandonFill, ReconcileClose, Undisturbed, HoldsSlot
<1>11. CASE Tick \/ MarkRecoveryComplete \/ UNCHANGED vars
  BY <1>11 DEF HoldsSlot, Tick, MarkRecoveryComplete, vars
<1>12. CASE ExpireStaleReservations \/ Restart
  BY <1>12 DEF ExpireStaleReservations, Restart, Undisturbed
<1> QED
  BY <1>1, <1>2, <1>3, <1>4, <1>5, <1>6, <1>7, <1>8, <1>9, <1>10, <1>11, <1>12
     DEF Next, IntentStep, SystemStep

\* In PAPER mode, without a rejected fill, a close during the entry or a restart,
\* slots A and B never carry two live rows, for any number of intents.
THEOREM PaperSlotsHoldOneRow ==
    ASSUME Undisturbed
    PROVE  Spec => []OneRowPerSlot
<1>1. Init => HoldsSlot
  BY DEF Init, HoldsSlot
<1>2. TypeOK /\ ReservationsExclusive /\ HoldsSlot /\ [Next]_vars => HoldsSlot'
  BY HoldsSlotStep
<1> QED
  BY <1>1, <1>2, TypeCorrect, SlotsExclusive, HoldsSlotImpliesOneRow, PTL DEF Spec
-----------------------------------------------------------------------------
(***************************************************************************)
(* Refinement of the slot pool.  Approve is a Take, every other step frees *)
(* holders or leaves them alone.  Take wants the claim to hold nothing yet,*)
(* which is why an intent before the gate must have no reservation.        *)
(***************************************************************************)

BeforeGate == {"undetected", "buffered", "queued", "loaded", "rejected"}

Unreserved == \A i \in Intents : stage[i] \in BeforeGate => ledger[i] = "absent"

\* No ledger transition creates a reservation.
LEMMA AbsentStays ==
    ASSUME NEW S, NEW to, NEW i \in Intents, ledger[i] = "absent"
    PROVE  LedgerAfter(S, to)[i] = "absent"
  BY DEF LedgerAfter, LegalTransition

\* An intent gets its reservation when it passes the gate, not before.
LEMMA UnreservedStep ==
    ASSUME TypeOK, Unreserved, [Next]_vars PROVE Unreserved'
<1> USE DEF Unreserved, BeforeGate
<1>1. ASSUME NEW i \in Intents, Detect(i) PROVE Unreserved'
  BY <1>1 DEF Detect, FlushedBy, TypeOK, Stages
<1>2. ASSUME NEW i \in Intents, Load(i) \/ Reject(i) PROVE Unreserved'
  BY <1>2 DEF Load, Reject, TypeOK
<1>3. ASSUME NEW i \in Intents, Approve(i) PROVE Unreserved'
  BY <1>3 DEF Approve, TypeOK
<1>4. ASSUME NEW i \in Intents,
             EmitApproval(i) \/ DropApproval(i) \/ SubmitFill(i)
      PROVE Unreserved'
  BY <1>4 DEF EmitApproval, DropApproval, SubmitFill, TypeOK
<1>5. ASSUME NEW i \in Intents, SubmitNoFill(i) \/ AcceptFill(i) \/ AbandonFill(i)
      PROVE Unreserved'
  BY <1>5, AbsentStays DEF SubmitNoFill, AcceptFill, AbandonFill, TypeOK
<1>6. ASSUME NEW i \in Intents, NEW how, CloseRow(i, how) PROVE Unreserved'
  BY <1>6 DEF CloseRow
<1>7. ASSUME NEW i \in Intents, ReleaseSlotForClosedPosition(i) \/ ReconcileClose(i)
      PROVE Unreserved'
  <2>1. stage' = stage /\ (ledger' = ledger \/ \E S : ledger' = LedgerAfter(S, "released"))
    BY <1>7 DEF ReleaseSlotForClosedPosition, ReconcileClose
  <2> QED BY <2>1, AbsentStays
<1>8. CASE Tick \/ MarkRecoveryComplete \/ UNCHANGED vars
  BY <1>8 DEF Tick, MarkRecoveryComplete, vars
<1>9. CASE ExpireStaleReservations
  BY <1>9, AbsentStays DEF ExpireStaleReservations
<1>10. CASE Restart
  BY <1>10 DEF Restart
<1> QED
  BY <1>1, <1>2, <1>3, <1>4, <1>5, <1>6, <1>7, <1>8, <1>9, <1>10
     DEF Next, IntentStep, SystemStep

\* A step that makes no reservation count and moves no slot only frees holders.
LEMMA ShrinkingLeaves ==
    ASSUME slot' = slot,
           \A j \in Intents : CountsTowardCaps(ledger'[j]) => j \in Active
    PROVE  Pool!Leave
<1>1. Holders' \in [Slots -> SUBSET Intents]
  BY DEF Holders, Active
<1>2. \A p \in Slots : Holders'[p] \subseteq Holders[p]
  BY DEF Holders, Active
<1> QED BY <1>1, <1>2 DEF Pool!Leave, Pool!Places, Slots

\* An approval takes the slot it was assigned, and the slot was free for it.
LEMMA ApproveTakes ==
    ASSUME TypeOK, Unreserved, NEW i \in Intents, Approve(i)
    PROVE  \E p \in Pool!Places, c \in Intents : Pool!Take(p, c)
<1>1. /\ slot' = [slot EXCEPT ![i] = Assign(i)]
      /\ ledger' = [ledger EXCEPT ![i] = "pending"]
      /\ Assign(i) # NoSlot
      /\ stage[i] = "loaded"
  BY DEF Approve
<1>2. Assign(i) \in Slots
  BY <1>1, AssignType
<1>3. i \notin Active
  BY <1>1 DEF Unreserved, BeforeGate, Active, CountsTowardCaps
<1>4. Pool!Free(Assign(i), i)
  <2>1. \A j \in Holders[Assign(i)] : Assign(i) = "C" /\ ModeOf[i] # ModeOf[j]
    BY <1>1, <1>2, AssignedSlotIsFree DEF Holders
  <2>2. Assign(i) # "C" => Holders[Assign(i)] = {}
    BY <1>2, <2>1 DEF Holders
  <2> QED BY <2>1, <2>2 DEF Pool!Free
<1>5. \A q \in Pool!Places : i \notin Holders[q]
  BY <1>3 DEF Holders, Pool!Places, Slots
<1>6. Holders' = [Holders EXCEPT ![Assign(i)] = @ \cup {i}]
  <2>1. Active' = Active \cup {i}
    BY <1>1 DEF Active, CountsTowardCaps, TypeOK
  <2>2. \A p \in Slots : Holders'[p] =
          IF p = Assign(i) THEN Holders[p] \cup {i} ELSE Holders[p]
    BY <1>1, <1>3, <2>1 DEF Holders, Active, TypeOK
  <2> QED BY <1>2, <2>2 DEF Holders
<1> QED BY <1>2, <1>4, <1>5, <1>6 DEF Pool!Take, Pool!Places, Slots

\* The gate, the ledger and the executor together implement the slot pool.
THEOREM GateImplementsSlotPool == Spec => ImplementsSlotPool
<1>1. Init => Unreserved
  BY DEF Init, Unreserved
<1>2. Init => Pool!PoolInit
  BY DEF Init, Pool!PoolInit, Pool!Places, Holders, Slots, Active, CountsTowardCaps
<1>3. TypeOK /\ Unreserved /\ [Next]_vars => Unreserved'
  BY UnreservedStep
<1>4. TypeOK /\ Unreserved /\ [Next]_vars => [Pool!PoolNext]_Holders
  <2> SUFFICES ASSUME TypeOK, Unreserved, [Next]_vars
               PROVE  Pool!PoolNext
    OBVIOUS
  <2>0. /\ ledger \in [Intents -> LedgerStates]
        /\ {"confirmed", "released", "expired"} \subseteq LedgerStates
    BY DEF TypeOK, LedgerStates
  <2>a. \A S : \A to \in {"confirmed", "released", "expired"} :
          ledger' = LedgerAfter(S, to) =>
            \A j \in Intents : CountsTowardCaps(ledger'[j]) => j \in Active
    BY <2>0, LedgerAfterFacts
  <2>b. ledger' = ledger =>
            \A j \in Intents : CountsTowardCaps(ledger'[j]) => j \in Active
    BY DEF Active
  <2>1. ASSUME NEW i \in Intents, Approve(i) PROVE Pool!PoolNext
    BY <2>1, ApproveTakes DEF Pool!PoolNext
  <2>2. ASSUME NEW i \in Intents,
               \/ Detect(i) \/ Load(i) \/ Reject(i) \/ EmitApproval(i) \/ DropApproval(i)
               \/ SubmitFill(i) \/ \E how \in {"executor", "reconcile"} : CloseRow(i, how)
        PROVE Pool!PoolNext
    BY <2>2, <2>b, ShrinkingLeaves
       DEF Detect, Load, Reject, EmitApproval, DropApproval, SubmitFill, CloseRow,
           Pool!PoolNext
  <2>3. ASSUME NEW i \in Intents,
               SubmitNoFill(i) \/ AcceptFill(i) \/ AbandonFill(i)
        PROVE Pool!PoolNext
    BY <2>3, <2>a, ShrinkingLeaves
       DEF SubmitNoFill, AcceptFill, AbandonFill, Pool!PoolNext
  <2>4. ASSUME NEW i \in Intents, ReleaseSlotForClosedPosition(i) PROVE Pool!PoolNext
    BY <2>4, <2>a, ShrinkingLeaves DEF ReleaseSlotForClosedPosition, Pool!PoolNext
  <2>5. ASSUME NEW i \in Intents, ReconcileClose(i) PROVE Pool!PoolNext
    BY <2>5, <2>a, <2>b, ShrinkingLeaves DEF ReconcileClose, Pool!PoolNext
  <2>6. CASE Tick \/ MarkRecoveryComplete \/ UNCHANGED vars
    BY <2>6, <2>b, ShrinkingLeaves DEF Tick, MarkRecoveryComplete, vars, Pool!PoolNext
  <2>7. CASE ExpireStaleReservations
    BY <2>7, <2>a, ShrinkingLeaves DEF ExpireStaleReservations, Pool!PoolNext
  <2>8. CASE Restart
    BY <2>8, ShrinkingLeaves DEF Restart, CountsTowardCaps, Pool!PoolNext
  <2> QED
    BY <2>1, <2>2, <2>3, <2>4, <2>5, <2>6, <2>7, <2>8 DEF Next, IntentStep, SystemStep
<1> QED
  BY <1>1, <1>2, <1>3, <1>4, TypeCorrect, PTL DEF Spec, ImplementsSlotPool, Pool!PoolSpec
-----------------------------------------------------------------------------
(***************************************************************************)
(* Confirmed reservations and their owners.  A reservation is confirmed    *)
(* when its row is made live, and loses the row only to a close that owes  *)
(* a release.  The release is by (symbol, slot), so it reaches the right   *)
(* reservation because slots are exclusive, slot C apart.  SlotGivenOnce is *)
(* needed because sharing slot C must last: a slot, once given, stays.     *)
(***************************************************************************)

SlotGivenOnce == \A i \in Intents : stage[i] \in BeforeGate => slot[i] = NoSlot

\* Only the approval writes an intent's slot, and it happens at most once.
LEMMA SlotGivenOnceStep ==
    ASSUME TypeOK, SlotGivenOnce, [Next]_vars PROVE SlotGivenOnce'
<1> USE DEF SlotGivenOnce, BeforeGate
<1>1. ASSUME NEW i \in Intents, Detect(i) PROVE SlotGivenOnce'
  BY <1>1 DEF Detect, FlushedBy, TypeOK, Stages
<1>2. ASSUME NEW i \in Intents, Load(i) \/ Reject(i) PROVE SlotGivenOnce'
  BY <1>2 DEF Load, Reject, TypeOK
<1>3. ASSUME NEW i \in Intents, Approve(i) PROVE SlotGivenOnce'
  BY <1>3 DEF Approve, TypeOK
<1>4. ASSUME NEW i \in Intents,
             \/ EmitApproval(i) \/ DropApproval(i) \/ SubmitFill(i)
             \/ SubmitNoFill(i) \/ AcceptFill(i) \/ AbandonFill(i)
      PROVE SlotGivenOnce'
  BY <1>4 DEF EmitApproval, DropApproval, SubmitFill, SubmitNoFill, AcceptFill,
              AbandonFill, TypeOK
<1>5. ASSUME NEW i \in Intents,
             \/ \E how \in {"executor", "reconcile"} : CloseRow(i, how)
             \/ ReleaseSlotForClosedPosition(i) \/ ReconcileClose(i)
      PROVE SlotGivenOnce'
  BY <1>5 DEF CloseRow, ReleaseSlotForClosedPosition, ReconcileClose
<1>6. CASE \/ Tick \/ MarkRecoveryComplete \/ ExpireStaleReservations
           \/ UNCHANGED vars
  BY <1>6 DEF Tick, MarkRecoveryComplete, ExpireStaleReservations, vars
<1>7. CASE Restart
  BY <1>7 DEF Restart
<1> QED
  BY <1>1, <1>2, <1>3, <1>4, <1>5, <1>6, <1>7 DEF Next, IntentStep, SystemStep

\* A ledger transition to another state confirms nothing.
LEMMA NotConfirmedByOthers ==
    ASSUME NEW S, NEW to \in {"released", "expired"}, NEW k \in Intents,
           LedgerAfter(S, to)[k] = "confirmed"
    PROVE  ledger[k] = "confirmed" /\ (k \in S => to = "expired")
  BY DEF LedgerAfter, LegalTransition

\* Every step keeps every confirmed reservation with an owner.
LEMMA OwnerStep ==
    ASSUME TypeOK, ReservationsExclusive, SlotGivenOnce, ConfirmedHasOwner,
           [Next]_vars
    PROVE  ConfirmedHasOwner'
<1>a. slot' = slot => \A k \in Intents : SharesC(k) => SharesC(k)'
  BY DEF SharesC, SameSymbol
<1>1. ASSUME NEW i \in Intents, Approve(i) PROVE ConfirmedHasOwner'
  <2>1. slot[i] = NoSlot
    BY <1>1 DEF Approve, SlotGivenOnce, BeforeGate
  <2>2. \A k \in Intents \ {i} : SharesC(k) => SharesC(k)'
    BY <1>1, <2>1 DEF Approve, SharesC, SameSymbol, TypeOK, NoSlot
  <2>3. ledger'[i] = "pending" /\ row' = row /\ owed' = owed
    BY <1>1 DEF Approve, TypeOK
  <2>4. \A k \in Intents \ {i} : ledger'[k] = ledger[k]
    BY <1>1 DEF Approve, TypeOK
  <2> QED BY <2>2, <2>3, <2>4 DEF ConfirmedHasOwner
<1>2. ASSUME NEW i \in Intents,
             \/ Detect(i) \/ Load(i) \/ Reject(i) \/ EmitApproval(i) \/ DropApproval(i)
      PROVE ConfirmedHasOwner'
  BY <1>2, <1>a DEF Detect, Load, Reject, EmitApproval, DropApproval, ConfirmedHasOwner
<1>3. ASSUME NEW i \in Intents, SubmitFill(i) PROVE ConfirmedHasOwner'
  BY <1>3, <1>a DEF SubmitFill, ConfirmedHasOwner, TypeOK
<1>4. ASSUME NEW i \in Intents, SubmitNoFill(i) \/ AbandonFill(i)
      PROVE ConfirmedHasOwner'
  BY <1>4, <1>a, NotConfirmedByOthers
     DEF SubmitNoFill, AbandonFill, ConfirmedHasOwner
<1>5. ASSUME NEW i \in Intents, AcceptFill(i) PROVE ConfirmedHasOwner'
  BY <1>5, <1>a DEF AcceptFill, ConfirmedHasOwner, LedgerAfter, TypeOK
<1>6. ASSUME NEW i \in Intents, NEW how \in {"executor", "reconcile"},
             CloseRow(i, how)
      PROVE ConfirmedHasOwner'
  BY <1>6, <1>a DEF CloseRow, ConfirmedHasOwner, TypeOK
<1>7. ASSUME NEW i \in Intents, ReleaseSlotForClosedPosition(i)
      PROVE ConfirmedHasOwner'
  <2> DEFINE Freed == {j \in OnSlotOf(Intents, i) : ledger[j] = "confirmed"}
  <2>1. /\ ledger' = LedgerAfter(Freed, "released")
        /\ owed' = [owed EXCEPT ![i] = "none"]
        /\ row' = row /\ slot' = slot
    BY <1>7 DEF ReleaseSlotForClosedPosition
  <2>2. ASSUME NEW k \in Intents, ledger'[k] = "confirmed"
        PROVE  ledger[k] = "confirmed" /\ k # i
    <3>1. ledger[k] = "confirmed" /\ k \notin Freed
      BY <2>1, <2>2, NotConfirmedByOthers
    <3> QED BY <3>1 DEF OnSlotOf, SameSymbol
  <2> QED BY <1>a, <2>1, <2>2 DEF ConfirmedHasOwner, TypeOK
<1>8. ASSUME NEW i \in Intents, ReconcileClose(i) PROVE ConfirmedHasOwner'
  <2>1. /\ owed' = [owed EXCEPT ![i] = "none"]
        /\ row' = row /\ slot' = slot
    BY <1>8 DEF ReconcileClose
  <2>2. \A k \in Intents : ledger'[k] = "confirmed" => ledger[k] = "confirmed"
    BY <1>8, NotConfirmedByOthers DEF ReconcileClose
  <2>3. ASSUME ledger'[i] = "confirmed" PROVE SharesC(i)
    <3>1. i \in OnSlotOf(Active, i)
      BY <2>2, <2>3 DEF OnSlotOf, SameSymbol, Active, CountsTowardCaps
    <3>2. PICK j \in OnSlotOf(Active, i) : ledger' = LedgerAfter({j}, "released")
      BY <1>8, <3>1 DEF ReconcileClose
    <3>3. j # i
      BY <2>3, <3>2, NotConfirmedByOthers
    <3> QED
      BY <3>1, <3>2, <3>3
         DEF OnSlotOf, SameSymbol, ReservationsExclusive, SharesC, Active
  <2>4. \A k \in Intents \ {i} : owed'[k] = owed[k]
    BY <2>1 DEF TypeOK
  <2> QED BY <1>a, <2>1, <2>2, <2>3, <2>4 DEF ConfirmedHasOwner
<1>9. CASE Tick \/ MarkRecoveryComplete \/ UNCHANGED vars
  BY <1>9, <1>a DEF Tick, MarkRecoveryComplete, vars, ConfirmedHasOwner
<1>10. CASE ExpireStaleReservations
  BY <1>10, <1>a, NotConfirmedByOthers DEF ExpireStaleReservations, ConfirmedHasOwner
<1>11. CASE Restart
  BY <1>11 DEF Restart, ConfirmedHasOwner
<1> QED
  BY <1>1, <1>2, <1>3, <1>4, <1>5, <1>6, <1>7, <1>8, <1>9, <1>10, <1>11
     DEF Next, IntentStep, SystemStep

\* No CONFIRMED reservation is left without a live row or a release that is
\* still owed, except beside another one of its symbol on slot C.
THEOREM ConfirmedKeepOwner == Spec => []ConfirmedHasOwner
<1>1. Init => SlotGivenOnce /\ ConfirmedHasOwner
  BY DEF Init, SlotGivenOnce, ConfirmedHasOwner
<1>2. TypeOK /\ SlotGivenOnce /\ [Next]_vars => SlotGivenOnce'
  BY SlotGivenOnceStep
<1>3. TypeOK /\ ReservationsExclusive /\ SlotGivenOnce /\ ConfirmedHasOwner
        /\ [Next]_vars => ConfirmedHasOwner'
  BY OwnerStep
<1> QED
  BY <1>1, <1>2, <1>3, TypeCorrect, SlotsExclusive, PTL DEF Spec
-----------------------------------------------------------------------------
(***************************************************************************)
(* What a step does to the set of reservations that count.  Both caps of   *)
(* this part are about that set alone.                                     *)
(***************************************************************************)

\* An approval adds its intent to the reservations that count; no other step
\* adds any.
LEMMA ActiveStep ==
    ASSUME TypeOK, Unreserved, [Next]_vars
    PROVE  \/ Active' \subseteq Active
           \/ \E i \in Intents : Approve(i) /\ i \notin Active
                                 /\ Active' = Active \cup {i}
<1>0. /\ ledger \in [Intents -> LedgerStates]
      /\ {"confirmed", "released", "expired"} \subseteq LedgerStates
  BY DEF TypeOK, LedgerStates
<1>a. \A S : \A to \in {"confirmed", "released", "expired"} :
        ledger' = LedgerAfter(S, to) => Active' \subseteq Active
  BY <1>0, LedgerAfterFacts DEF Active
<1>b. ledger' = ledger => Active' \subseteq Active
  BY DEF Active
<1>1. ASSUME NEW i \in Intents, Approve(i)
      PROVE  i \notin Active /\ Active' = Active \cup {i}
  <2>1. stage[i] = "loaded" /\ ledger' = [ledger EXCEPT ![i] = "pending"]
    BY <1>1 DEF Approve
  <2> QED
    BY <2>1, <1>0 DEF Unreserved, BeforeGate, Active, CountsTowardCaps
<1>2. ASSUME NEW i \in Intents,
             \/ Detect(i) \/ Load(i) \/ Reject(i) \/ EmitApproval(i) \/ DropApproval(i)
             \/ SubmitFill(i) \/ \E how \in {"executor", "reconcile"} : CloseRow(i, how)
      PROVE  Active' \subseteq Active
  BY <1>2, <1>b
     DEF Detect, Load, Reject, EmitApproval, DropApproval, SubmitFill, CloseRow
<1>3. ASSUME NEW i \in Intents,
             \/ SubmitNoFill(i) \/ AcceptFill(i) \/ AbandonFill(i)
             \/ ReleaseSlotForClosedPosition(i) \/ ReconcileClose(i)
      PROVE  Active' \subseteq Active
  BY <1>3, <1>a, <1>b DEF SubmitNoFill, AcceptFill, AbandonFill,
     ReleaseSlotForClosedPosition, ReconcileClose
<1>4. CASE Tick \/ MarkRecoveryComplete \/ ExpireStaleReservations \/ UNCHANGED vars
  BY <1>4, <1>a, <1>b DEF Tick, MarkRecoveryComplete, ExpireStaleReservations, vars
<1>5. CASE Restart
  BY <1>5 DEF Restart, Active, CountsTowardCaps
<1> QED
  BY <1>1, <1>2, <1>3, <1>4, <1>5 DEF Next, IntentStep, SystemStep

\* Every step keeps the number of reservations of a candle within the cap.
LEMMA BarCapStep ==
    ASSUME TypeOK, Unreserved, BarCapHeld, [Next]_vars
    PROVE  BarCapHeld'
<1> DEFINE OfBar(S, b) == {j \in S : BarOf[j] = b}
<1>1. \A b : IsFiniteSet(OfBar(Active, b)) /\ IsFiniteSet(OfBar(Active', b))
  <2>1. \A b : OfBar(Active, b) \in SUBSET Intents /\ OfBar(Active', b) \in SUBSET Intents
    BY DEF Active
  <2> QED BY <2>1, IntentsAssumption, FS_Subset
<1>2. CASE Active' \subseteq Active
  <2> SUFFICES ASSUME NEW k \in Active'
               PROVE  Cardinality(OfBar(Active', BarOf[k])) <= MaxPerBar
    BY DEF BarCapHeld
  <2>1. Cardinality(OfBar(Active, BarOf[k])) <= MaxPerBar
    BY <1>2 DEF BarCapHeld
  <2>2. OfBar(Active', BarOf[k]) \in SUBSET OfBar(Active, BarOf[k])
    BY <1>2
  <2>3. /\ Cardinality(OfBar(Active', BarOf[k])) <= Cardinality(OfBar(Active, BarOf[k]))
        /\ Cardinality(OfBar(Active', BarOf[k])) \in Nat
        /\ Cardinality(OfBar(Active, BarOf[k])) \in Nat
    BY <1>1, <2>2, FS_Subset, FS_CardinalityType
  <2> HIDE DEF OfBar
  <2> QED BY <2>1, <2>3, LimitsAssumption
<1>3. ASSUME NEW i \in Intents, Approve(i), i \notin Active, Active' = Active \cup {i}
      PROVE  BarCapHeld'
  <2> SUFFICES ASSUME NEW k \in Active'
               PROVE  Cardinality(OfBar(Active', BarOf[k])) <= MaxPerBar
    BY DEF BarCapHeld
  <2>1. CASE BarOf[k] = BarOf[i]
    <3>1. OfBar(Active', BarOf[k]) = OfBar(Active, BarOf[i]) \cup {i}
      BY <1>3, <2>1
    <3>2. Cardinality(OfBar(Active, BarOf[i])) < MaxPerBar
      BY <1>3 DEF Approve, WithinOvertradingCaps, BarWindowCount
    <3>3. /\ Cardinality(OfBar(Active', BarOf[k])) = Cardinality(OfBar(Active, BarOf[i])) + 1
          /\ Cardinality(OfBar(Active, BarOf[i])) \in Nat
      <4>1. i \notin OfBar(Active, BarOf[i]) /\ IsFiniteSet(OfBar(Active, BarOf[i]))
        BY <1>1, <1>3
      <4> HIDE DEF OfBar
      <4> QED BY <3>1, <4>1, FS_AddElement, FS_CardinalityType
    <3> HIDE DEF OfBar
    <3> QED BY <3>2, <3>3, LimitsAssumption
  <2>2. CASE BarOf[k] # BarOf[i]
    <3>1. k \in Active /\ OfBar(Active', BarOf[k]) = OfBar(Active, BarOf[k])
      BY <1>3, <2>2
    <3> QED BY <3>1 DEF BarCapHeld
  <2> QED BY <2>1, <2>2
<1> QED BY <1>2, <1>3, ActiveStep

\* However many siblings of a candle are evaluated at the same time, no more
\* than max_trades_per_bar_universe of them hold a reservation.
THEOREM BarCapNeverExceeded == Spec => []BarCapHeld
<1>1. Init => Unreserved /\ BarCapHeld
  BY DEF Init, Unreserved, BarCapHeld, Active, CountsTowardCaps
<1>2. TypeOK /\ Unreserved /\ [Next]_vars => Unreserved'
  BY UnreservedStep
<1>3. TypeOK /\ Unreserved /\ BarCapHeld /\ [Next]_vars => BarCapHeld'
  BY BarCapStep
<1> QED
  BY <1>1, <1>2, <1>3, TypeCorrect, PTL DEF Spec
-----------------------------------------------------------------------------
(***************************************************************************)
(* The exposure caps.  The check of Approve adds the notional of the       *)
(* reservations that count to its own, so the argument needs that the sum  *)
(* of a set grows by exactly the notional of an added intent and shrinks   *)
(* with the set.  Notional is a fold, whose value is found by induction on *)
(* the size of the set; SetInduction states induction for a set of         *)
(* numbers, the smallest number outside it being the counterexample.       *)
(***************************************************************************)

\* Induction over the naturals for a set of numbers.
LEMMA SetInduction ==
    ASSUME NEW P, 0 \in P, \A n \in Nat : n \in P => n + 1 \in P
    PROVE  \A n \in Nat : n \in P
<1> SUFFICES ASSUME Nat \ P # {} PROVE FALSE
  OBVIOUS
<1>1. PICK m \in Nat \ P : \A y \in Nat \ P : ~ (<<y, m>> \in OpToRel(<, Nat))
  <2> HIDE DEF OpToRel
  <2>1. Nat \ P \subseteq Nat
    OBVIOUS
  <2> QED BY <2>1, NatLessThanWellFounded, WFMin, Zenon
<1>2. \A y \in Nat : y < m => y \in P
  BY <1>1 DEF OpToRel
<1>3. m # 0 /\ m - 1 \in Nat /\ m - 1 < m /\ (m - 1) + 1 = m
  OBVIOUS
<1> QED BY <1>2, <1>3

\* The element MapThenSumSet takes first, the step it then makes, and the
\* function it defines on the subsets of S.
AnyOf(s) == CHOOSE x \in s : TRUE
SumStep(f, s) == IF s = {} THEN 0 ELSE NotionalOf[AnyOf(s)] + f[s \ {AnyOf(s)}]
IsSum(f, S) == f = [s \in SUBSET S |-> SumStep(f, s)]

\* Notional is that function at S.
LEMMA NotionalIsSum ==
    ASSUME NEW S PROVE Notional(S) = (CHOOSE f : IsSum(f, S))[S]
  BY DEF Notional, MapThenSumSet, MapThenFoldSet, IsSum, SumStep, AnyOf

\* The element taken is an element.
LEMMA AnyOfIn == ASSUME NEW S, S # {} PROVE AnyOf(S) \in S
  BY DEF AnyOf

\* Taking it out leaves a smaller subset.
LEMMA SmallerSubset ==
    ASSUME NEW S, IsFiniteSet(S), NEW n \in Nat,
           NEW s \in SUBSET S, s # {}, Cardinality(s) <= n + 1
    PROVE  /\ s \ {AnyOf(s)} \in SUBSET S
           /\ Cardinality(s \ {AnyOf(s)}) <= n
           /\ Cardinality(s \ {AnyOf(s)}) \in Nat
<1>1. AnyOf(s) \in s
  BY AnyOfIn
<1>2. IsFiniteSet(s) 
  BY FS_Subset
<1>3. Cardinality(s \ {AnyOf(s)}) = Cardinality(s) - 1 /\ IsFiniteSet(s \ {AnyOf(s)})
  BY <1>1, <1>2, FS_RemoveElement
<1>4. Cardinality(s) \in Nat /\ Cardinality(s \ {AnyOf(s)}) \in Nat
  BY <1>2, <1>3, FS_CardinalityType
<1> QED BY <1>3, <1>4

\* The subsets of S with at most n elements.
Sub(S, n) == {s \in SUBSET S : Cardinality(s) <= n}

\* The recursion of MapThenSumSet defines a function on every finite set: built
\* for the subsets of size 0, then for one size after another.
LEMMA SumExists == ASSUME NEW S, IsFiniteSet(S) PROVE \E f : IsSum(f, S)
<1> DEFINE P == {n \in Nat : \E f : f = [s \in Sub(S, n) |-> SumStep(f, s)]}
<1>1. 0 \in P
  <2> DEFINE f == [s \in Sub(S, 0) |-> 0]
  <2>1. \A s \in Sub(S, 0) : s = {}
    <3> SUFFICES ASSUME NEW s \in Sub(S, 0) PROVE s = {}
      OBVIOUS
    <3>1. s \in SUBSET S /\ Cardinality(s) <= 0
      BY DEF Sub
    <3>2. IsFiniteSet(s) /\ Cardinality(s) \in Nat
      BY <3>1, FS_Subset, FS_CardinalityType
    <3> QED BY <3>1, <3>2, FS_EmptySet
  <2>2. \A s \in Sub(S, 0) : SumStep(f, s) = 0
    BY <2>1 DEF SumStep
  <2>3. f = [s \in Sub(S, 0) |-> SumStep(f, s)]
    BY <2>2
  <2> QED BY <2>3
<1>2. ASSUME NEW n \in Nat, n \in P PROVE n + 1 \in P
  <2>1. PICK f : f = [s \in Sub(S, n) |-> SumStep(f, s)]
    BY <1>2
  <2> DEFINE g == [s \in Sub(S, n + 1) |-> SumStep(f, s)]
  <2>2. \A s \in Sub(S, n) : s \in Sub(S, n + 1) /\ g[s] = f[s]
    <3>1. \A s \in Sub(S, n) : s \in Sub(S, n + 1)
      <4> SUFFICES ASSUME NEW s \in Sub(S, n) PROVE s \in Sub(S, n + 1)
        OBVIOUS
      <4>1. s \in SUBSET S /\ Cardinality(s) <= n
        BY DEF Sub
      <4>2. Cardinality(s) \in Nat
        BY <4>1, FS_Subset, FS_CardinalityType
      <4> QED BY <4>1, <4>2 DEF Sub
    <3> QED BY <3>1, <2>1
  <2>3. \A s \in Sub(S, n + 1) : s # {} => s \ {AnyOf(s)} \in Sub(S, n)
    BY SmallerSubset DEF Sub
  <2>4. \A s \in Sub(S, n + 1) : SumStep(f, s) = SumStep(g, s)
    <3> HIDE DEF g
    <3> QED BY <2>2, <2>3 DEF SumStep
  <2>5. g = [s \in Sub(S, n + 1) |-> SumStep(g, s)]
    <3>1. [s \in Sub(S, n + 1) |-> SumStep(f, s)] = [s \in Sub(S, n + 1) |-> SumStep(g, s)]
      BY <2>4
    <3> QED BY <3>1
  <2>6. \E h : h = [s \in Sub(S, n + 1) |-> SumStep(h, s)]
    BY <2>5
  <2> QED BY <2>6
<1>3. \A n \in Nat : n \in P
  <2> HIDE DEF P
  <2> QED BY <1>1, <1>2, SetInduction
<1>4. Cardinality(S) \in Nat
  BY FS_CardinalityType
<1>5. Sub(S, Cardinality(S)) = SUBSET S
  BY FS_Subset DEF Sub
<1> QED BY <1>3, <1>4, <1>5 DEF IsSum

\* Summing over a larger set gives the same sum of a part of it.
LEMMA SumUnique ==
    ASSUME NEW S, NEW T, IsFiniteSet(S), T \subseteq S,
           NEW f, NEW g, IsSum(f, S), IsSum(g, T)
    PROVE  f[T] = g[T]
<1> DEFINE P == {n \in Nat : \A t \in SUBSET T : Cardinality(t) <= n => f[t] = g[t]}
<1>0. /\ IsFiniteSet(T)
      /\ \A t \in SUBSET T :
            t \in SUBSET S /\ IsFiniteSet(t) /\ Cardinality(t) \in Nat
  BY FS_Subset, FS_CardinalityType
<1>a. \A t \in SUBSET T : f[t] = SumStep(f, t) /\ g[t] = SumStep(g, t)
  BY <1>0 DEF IsSum
<1>1. 0 \in P
  <2>1. \A t \in SUBSET T : Cardinality(t) <= 0 => t = {}
    BY <1>0, FS_EmptySet
  <2>2. \A t \in SUBSET T : t = {} => f[t] = g[t]
    BY <1>a DEF SumStep
  <2> QED BY <2>1, <2>2
<1>2. ASSUME NEW n \in Nat, n \in P PROVE n + 1 \in P
  <2> SUFFICES ASSUME NEW t \in SUBSET T, Cardinality(t) <= n + 1 PROVE f[t] = g[t]
    OBVIOUS
  <2>1. CASE t = {}
    BY <2>1, <1>a DEF SumStep
  <2>2. CASE t # {}
    <3>1. f[t \ {AnyOf(t)}] = g[t \ {AnyOf(t)}]
      BY <1>0, <1>2, <2>2, SmallerSubset
    <3> QED BY <3>1, <2>2, <1>a DEF SumStep
  <2> QED BY <2>1, <2>2
<1>3. \A n \in Nat : n \in P
  <2> HIDE DEF P
  <2> QED BY <1>1, <1>2, SetInduction
<1> QED BY <1>0, <1>3

\* The recursive equation of Notional.
LEMMA NotionalUnfolds ==
    ASSUME NEW S, IsFiniteSet(S)
    PROVE  /\ Notional({}) = 0
           /\ S # {} => Notional(S) = NotionalOf[AnyOf(S)] + Notional(S \ {AnyOf(S)})
<1> DEFINE F(T) == CHOOSE f : IsSum(f, T)
<1>0. \A T \in SUBSET S : IsFiniteSet(T) /\ IsSum(F(T), T)
  BY FS_Subset, SumExists
<1>1. \A T : Notional(T) = F(T)[T]
  BY NotionalIsSum
<1>2. \A T \in SUBSET S : F(T)[T] = SumStep(F(T), T)
  <2> HIDE DEF F
  <2> QED BY <1>0 DEF IsSum
<1>3. Notional({}) = 0
  <2>1. Notional({}) = SumStep(F({}), {})
    <3> HIDE DEF F
    <3> QED BY <1>1, <1>2
  <2> QED BY <2>1 DEF SumStep
<1>4. ASSUME S # {} PROVE Notional(S) = NotionalOf[AnyOf(S)] + Notional(S \ {AnyOf(S)})
  <2> DEFINE T == S \ {AnyOf(S)}
  <2> HIDE DEF F
  <2>1. F(S)[T] = F(T)[T]
    <3>1. T \subseteq S /\ IsSum(F(S), S) /\ IsSum(F(T), T)
      BY <1>0
    <3> HIDE DEF T
    <3> QED BY <3>1, SumUnique
  <2>2. Notional(S) = NotionalOf[AnyOf(S)] + F(S)[T]
    BY <1>1, <1>2, <1>4 DEF SumStep
  <2> QED BY <2>1, <2>2, <1>1
<1> QED BY <1>3, <1>4

\* The notional of a set of intents is a number.
LEMMA NotionalNat ==
    ASSUME NEW S \in SUBSET Intents PROVE Notional(S) \in Nat
<1> DEFINE P == {n \in Nat : \A t \in SUBSET Intents :
                   Cardinality(t) <= n => Notional(t) \in Nat}
<1>0. \A t \in SUBSET Intents : IsFiniteSet(t) /\ Cardinality(t) \in Nat
  BY FS_Subset, FS_CardinalityType, IntentsAssumption
<1>1. 0 \in P
  <2>1. Notional({}) = 0
    BY FS_EmptySet, NotionalUnfolds
  <2>2. \A t \in SUBSET Intents : Cardinality(t) <= 0 => t = {}
    BY <1>0, FS_EmptySet
  <2> QED BY <2>1, <2>2
<1>2. ASSUME NEW n \in Nat, n \in P PROVE n + 1 \in P
  <2> SUFFICES ASSUME NEW t \in SUBSET Intents, Cardinality(t) <= n + 1, t # {}
               PROVE  Notional(t) \in Nat
    <3>1. Notional({}) = 0
      BY FS_EmptySet, NotionalUnfolds
    <3> QED BY <3>1
  <2>1. Notional(t \ {AnyOf(t)}) \in Nat
    BY <1>2, IntentsAssumption, SmallerSubset
  <2>2. NotionalOf[AnyOf(t)] \in Nat
    BY AttributesAssumption, AnyOfIn
  <2> QED BY <2>1, <2>2, <1>0, NotionalUnfolds
<1>3. \A n \in Nat : n \in P
  <2> HIDE DEF P
  <2> QED BY <1>1, <1>2, SetInduction
<1> QED BY <1>0, <1>3

\* One more intent adds its own notional, whichever element the sum takes first.
LEMMA NotionalAdd ==
    ASSUME NEW S \in SUBSET Intents, NEW i \in Intents \ S
    PROVE  Notional(S \cup {i}) = Notional(S) + NotionalOf[i]
<1> DEFINE P == {n \in Nat : \A t \in SUBSET Intents : \A x \in Intents \ t :
                   Cardinality(t) <= n => Notional(t \cup {x}) = Notional(t) + NotionalOf[x]}
<1>0. \A t \in SUBSET Intents : IsFiniteSet(t) /\ Cardinality(t) \in Nat
  BY FS_Subset, FS_CardinalityType, IntentsAssumption
<1>a. \A x \in Intents : NotionalOf[x] \in Nat
  BY AttributesAssumption
<1>b. ASSUME NEW t \in SUBSET Intents, NEW x \in Intents \ t, AnyOf(t \cup {x}) = x
      PROVE  Notional(t \cup {x}) = Notional(t) + NotionalOf[x]
  <2>1. (t \cup {x}) \ {x} = t /\ t \cup {x} # {} /\ t \cup {x} \in SUBSET Intents
    OBVIOUS
  <2>2. Notional(t \cup {x}) = NotionalOf[x] + Notional(t)
    BY <1>b, <2>1, <1>0, NotionalUnfolds
  <2> QED BY <2>2, <1>a, NotionalNat
<1>1. 0 \in P
  <2> SUFFICES ASSUME NEW t \in SUBSET Intents, NEW x \in Intents \ t, Cardinality(t) <= 0
               PROVE  Notional(t \cup {x}) = Notional(t) + NotionalOf[x]
    OBVIOUS
  <2>1. t = {}
    BY <1>0, FS_EmptySet
  <2>2. AnyOf(t \cup {x}) = x
    BY <2>1, AnyOfIn
  <2> QED BY <2>2, <1>b
<1>2. ASSUME NEW n \in Nat, n \in P PROVE n + 1 \in P
  <2> SUFFICES ASSUME NEW t \in SUBSET Intents, NEW x \in Intents \ t,
                      Cardinality(t) <= n + 1, AnyOf(t \cup {x}) # x
               PROVE  Notional(t \cup {x}) = Notional(t) + NotionalOf[x]
    BY <1>b
  <2> DEFINE y == AnyOf(t \cup {x})
             r == t \ {y}
  <2>1. y \in t
    BY AnyOfIn
  <2> HIDE DEF y
  <2>2. /\ r \in SUBSET Intents /\ x \in Intents \ r /\ y \in Intents \ r
        /\ r \cup {y} = t /\ (t \cup {x}) \ {y} = r \cup {x}
    BY <2>1
  <2>3. Cardinality(r) <= n
    <3>1. Cardinality(r) = Cardinality(t) - 1
      BY <2>1, <1>0, FS_RemoveElement
    <3> QED BY <3>1, <1>0
  <2> HIDE DEF r
  <2>4. /\ Notional(r \cup {x}) = Notional(r) + NotionalOf[x]
        /\ Notional(t) = Notional(r) + NotionalOf[y]
    BY <1>2, <2>2, <2>3
  <2>5. Notional(t \cup {x}) = NotionalOf[y] + Notional(r \cup {x})
    <3>1. t \cup {x} \in SUBSET Intents /\ t \cup {x} # {}
      OBVIOUS
    <3> QED BY <3>1, <2>2, <1>0, NotionalUnfolds DEF y
  <2>6. Notional(r) \in Nat /\ NotionalOf[x] \in Nat /\ NotionalOf[y] \in Nat
    BY <2>2, <1>a, NotionalNat
  <2> QED BY <2>4, <2>5, <2>6
<1>3. \A n \in Nat : n \in P
  <2> HIDE DEF P
  <2> QED BY <1>1, <1>2, SetInduction
<1> QED BY <1>0, <1>3

\* A part never weighs more than the whole.
LEMMA NotionalMono ==
    ASSUME NEW S \in SUBSET Intents, NEW T \in SUBSET S PROVE Notional(T) <= Notional(S)
<1> DEFINE P == {n \in Nat : \A t \in SUBSET S :
                   Cardinality(S \ t) <= n => Notional(t) <= Notional(S)}
<1>0. \A t \in SUBSET Intents : IsFiniteSet(t) /\ Cardinality(t) \in Nat
  BY FS_Subset, FS_CardinalityType, IntentsAssumption
<1>1. 0 \in P
  <2> SUFFICES ASSUME NEW t \in SUBSET S, Cardinality(S \ t) <= 0
               PROVE  Notional(t) <= Notional(S)
    OBVIOUS
  <2>1. S \ t = {}
    BY <1>0, FS_EmptySet
  <2>2. t = S
    BY <2>1
  <2> QED BY <2>2, NotionalNat
<1>2. ASSUME NEW n \in Nat, n \in P PROVE n + 1 \in P
  <2> SUFFICES ASSUME NEW t \in SUBSET S, Cardinality(S \ t) <= n + 1, NEW x \in S \ t
               PROVE  Notional(t) <= Notional(S)
    <3>1. \A t \in SUBSET S : S \ t = {} => t = S
      OBVIOUS
    <3> QED BY <3>1, NotionalNat
  <2>1. Cardinality(S \ (t \cup {x})) <= n
    <3>1. S \ (t \cup {x}) = (S \ t) \ {x}
      OBVIOUS
    <3>2. Cardinality((S \ t) \ {x}) = Cardinality(S \ t) - 1
      BY <1>0, FS_RemoveElement
    <3> QED BY <3>1, <3>2, <1>0
  <2>2. Notional(t \cup {x}) <= Notional(S)
    BY <2>1, <1>2
  <2>3. Notional(t \cup {x}) = Notional(t) + NotionalOf[x]
    BY NotionalAdd
  <2>4. Notional(t) \in Nat /\ Notional(S) \in Nat /\ NotionalOf[x] \in Nat
    BY NotionalNat, AttributesAssumption
  <2> QED BY <2>2, <2>3, <2>4
<1>3. \A n \in Nat : n \in P
  <2> HIDE DEF P
  <2> QED BY <1>1, <1>2, SetInduction
<1>4. Cardinality(S \ T) \in Nat
  BY <1>0
<1> QED BY <1>3, <1>4
\* Every step keeps what is reserved within both caps.
LEMMA ExposureStep ==
    ASSUME TypeOK, Unreserved, ReservedExposureCapped, [Next]_vars
    PROVE  ReservedExposureCapped'
<1>0. /\ Active \in SUBSET Intents /\ Active' \in SUBSET Intents
      /\ \A i \in Intents : snap[i] \in SUBSET Intents
  BY DEF Active, TypeOK
<1>1. CASE Active' \subseteq Active
  <2> SUFFICES ASSUME NEW k \in Active'
               PROVE  /\ Notional(SameSymbol(Active', k)) <= MaxPerCoin
                      /\ Notional(SameSide(Active', k)) <= MaxSameDirection
    BY DEF ReservedExposureCapped
  <2>1. /\ Notional(SameSymbol(Active, k)) <= MaxPerCoin
        /\ Notional(SameSide(Active, k)) <= MaxSameDirection
    BY <1>1 DEF ReservedExposureCapped
  <2>2. /\ SameSymbol(Active, k) \in SUBSET Intents
        /\ SameSide(Active, k) \in SUBSET Intents
        /\ SameSymbol(Active', k) \in SUBSET SameSymbol(Active, k)
        /\ SameSide(Active', k) \in SUBSET SameSide(Active, k)
    BY <1>0, <1>1 DEF SameSymbol, SameSide
  <2>3. /\ Notional(SameSymbol(Active', k)) <= Notional(SameSymbol(Active, k))
        /\ Notional(SameSide(Active', k)) <= Notional(SameSide(Active, k))
    BY <2>2, NotionalMono
  <2>4. /\ Notional(SameSymbol(Active, k)) \in Nat
        /\ Notional(SameSide(Active, k)) \in Nat
        /\ Notional(SameSymbol(Active', k)) \in Nat
        /\ Notional(SameSide(Active', k)) \in Nat
    BY <2>2, NotionalNat
  <2> QED BY <2>1, <2>3, <2>4, LimitsAssumption
<1>2. ASSUME NEW i \in Intents, Approve(i), i \notin Active, Active' = Active \cup {i}
      PROVE  ReservedExposureCapped'
  <2>0. /\ Notional(SameSymbol(snap[i], i)) + Notional(SameSymbol(Active, i))
             + NotionalOf[i] <= MaxPerCoin
        /\ Notional(SameSide(snap[i], i)) + Notional(SameSide(Active, i))
             + NotionalOf[i] <= MaxSameDirection
    BY <1>2 DEF Approve, WithinExposureCaps
  <2>1. /\ SameSymbol(snap[i], i) \in SUBSET Intents
        /\ SameSide(snap[i], i) \in SUBSET Intents
        /\ SameSymbol(Active, i) \in SUBSET Intents /\ i \notin SameSymbol(Active, i)
        /\ SameSide(Active, i) \in SUBSET Intents /\ i \notin SameSide(Active, i)
    BY <1>0, <1>2 DEF SameSymbol, SameSide
  <2>2. /\ Notional(SameSymbol(snap[i], i)) \in Nat /\ Notional(SameSide(snap[i], i)) \in Nat
        /\ Notional(SameSymbol(Active, i)) \in Nat /\ Notional(SameSide(Active, i)) \in Nat
        /\ NotionalOf[i] \in Nat
    BY <2>1, NotionalNat, AttributesAssumption
  <2>3. /\ Notional(SameSymbol(Active, i) \cup {i}) <= MaxPerCoin
        /\ Notional(SameSide(Active, i) \cup {i}) <= MaxSameDirection
    <3>1. /\ Notional(SameSymbol(Active, i) \cup {i})
               = Notional(SameSymbol(Active, i)) + NotionalOf[i]
          /\ Notional(SameSide(Active, i) \cup {i})
               = Notional(SameSide(Active, i)) + NotionalOf[i]
      BY <2>1, NotionalAdd
    <3> QED BY <3>1, <2>0, <2>2, LimitsAssumption
  <2> SUFFICES ASSUME NEW k \in Active'
               PROVE  /\ Notional(SameSymbol(Active', k)) <= MaxPerCoin
                      /\ Notional(SameSide(Active', k)) <= MaxSameDirection
    BY DEF ReservedExposureCapped
  <2>4. Notional(SameSymbol(Active', k)) <= MaxPerCoin
    <3>1. CASE SymbolOf[k] = SymbolOf[i]
      <4>1. SameSymbol(Active', k) = SameSymbol(Active, i) \cup {i}
        BY <1>2, <3>1 DEF SameSymbol
      <4> QED BY <4>1, <2>3
    <3>2. CASE SymbolOf[k] # SymbolOf[i]
      <4>1. k \in Active /\ SameSymbol(Active', k) = SameSymbol(Active, k)
        BY <1>2, <3>2 DEF SameSymbol
      <4> QED BY <4>1 DEF ReservedExposureCapped
    <3> QED BY <3>1, <3>2
  <2>5. Notional(SameSide(Active', k)) <= MaxSameDirection
    <3>1. CASE SideOf[k] = SideOf[i]
      <4>1. SameSide(Active', k) = SameSide(Active, i) \cup {i}
        BY <1>2, <3>1 DEF SameSide
      <4> QED BY <4>1, <2>3
    <3>2. CASE SideOf[k] # SideOf[i]
      <4>1. k \in Active /\ SameSide(Active', k) = SameSide(Active, k)
        BY <1>2, <3>2 DEF SameSide
      <4> QED BY <4>1 DEF ReservedExposureCapped
    <3> QED BY <3>1, <3>2
  <2> QED BY <2>4, <2>5
<1> QED BY <1>1, <1>2, ActiveStep

\* What approved intents hold reserved together never exceeds the per-coin cap
\* or the same-direction cap, for any number of concurrent evaluations.
THEOREM ExposureNeverExceeded == Spec => []ReservedExposureCapped
<1>1. Init => Unreserved /\ ReservedExposureCapped
  BY DEF Init, Unreserved, ReservedExposureCapped, Active, CountsTowardCaps
<1>2. TypeOK /\ Unreserved /\ [Next]_vars => Unreserved'
  BY UnreservedStep
<1>3. TypeOK /\ Unreserved /\ ReservedExposureCapped /\ [Next]_vars
        => ReservedExposureCapped'
  BY ExposureStep
<1> QED
  BY <1>1, <1>2, <1>3, TypeCorrect, PTL DEF Spec
=============================================================================
