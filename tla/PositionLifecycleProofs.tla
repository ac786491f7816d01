---------------------- MODULE PositionLifecycleProofs ----------------------
(***************************************************************************)
(* Proofs about PositionLifecycle: the executor's closing guard for every  *)
(* set of producers and faults, the shared close slot for the producers    *)
(* that take it, types with the quantities booked, and that a row is       *)
(* CLOSED only when the exchange is flat.                                  *)
(***************************************************************************)
EXTENDS PositionLifecycle, TLAPS

Pcs == CloserPcs \cup UnknownPcs \cup EntryPcs \cup ReconPcs \cup SweepPcs

PcType == pc \in [Procs -> Pcs]

\* What a step of handler p does to the places of the close producers.
Moves(p, there) ==
    /\ pc' \in [Procs -> Pcs]
    /\ pc'[p] = there
    /\ \A c \in Closers : c # p => pc'[c] = pc[c]

\* The close producers are none of the other handlers.
LEMMA ClosersApart ==
    /\ Closers \subseteq Procs /\ Unknowns \subseteq Procs
    /\ {"entry", "recon", "sweep"} \subseteq Procs
    /\ \A c \in Closers : UnknownOf[c] \in Unknowns
    /\ \A c \in Closers : c \notin Unknowns /\ c \notin {"entry", "recon", "sweep"}
BY CloserAssumption DEF Procs, Unknowns, UnknownOf, CloserKinds

\* Goto moves one handler.
LEMMA GotoMoves ==
    ASSUME PcType, NEW p \in Procs, NEW there \in Pcs, NEW e, Goto(p, there, e)
    PROVE  Moves(p, there)
BY ClosersApart DEF PcType, Moves, Goto

\* Escalating wakes an unknown-intent handler, which is no producer.
LEMMA EscalatedMoves ==
    ASSUME PcType, NEW c \in Closers, NEW there \in Pcs, NEW e, Escalated(c, there, e)
    PROVE  Moves(c, there)
<1>1. "pending" \in Pcs /\ UnknownOf[c] \in Procs /\ UnknownOf[c] \notin Closers
  BY ClosersApart DEF Pcs, UnknownPcs
<1> QED BY <1>1, ClosersApart DEF PcType, Moves, Escalated

\* The steps of the handlers that are no close producer: only the entry
\* handler's rejection moves a producer, and none touches closingInFlight.
LEMMA OthersMoveNoCloser ==
    ASSUME PcType, \/ AcceptFill \/ SaveAttachResult \/ OpenRead \/ OpenSave \/ RebuildIndex
                   \/ \E u \in Unknowns : Unknown(u)
                   \/ Recon \/ Sweeper \/ ExchangeCloses
    PROVE  /\ PcType'
           /\ \A c \in Closers : pc'[c] = pc[c]
           /\ closing' = closing
<1> DEFINE Kept == PcType' /\ (\A c \in Closers : pc'[c] = pc[c]) /\ closing' = closing
<1>1. ASSUME NEW p \in Procs \ Closers, NEW there \in Pcs, NEW e, Goto(p, there, e),
             closing' = closing
      PROVE  Kept
  BY <1>1, GotoMoves DEF Moves, PcType
<1>2. ASSUME NEW p \in Procs \ Closers, NEW to, NEW there \in Pcs, TransitionRead(p, to, there, "idle")
      PROVE  Kept
  <2>1. "idle" \in Pcs /\ closing' = closing
    BY <1>2 DEF Pcs, CloserPcs, TransitionRead, memory
  <2>2. CASE LegalTransition(row.state, to)
    BY <1>1, <1>2, <2>1, <2>2 DEF TransitionRead
  <2>3. CASE ~LegalTransition(row.state, to)
    BY <1>1, <1>2, <2>1, <2>3 DEF TransitionRead
  <2> QED BY <2>2, <2>3
<1>3. ASSUME NEW p \in Procs \ Closers, NEW there \in Pcs, TransitionSave(p, there)
      PROVE  Kept
  BY <1>1, <1>3 DEF TransitionSave
<1>4. /\ "entry" \in Procs \ Closers /\ "recon" \in Procs \ Closers /\ "sweep" \in Procs \ Closers
      /\ Unknowns \subseteq Procs \ Closers
  BY ClosersApart
<1>5. /\ {"idle", "attaching", "attached", "openSave", "indexing", "checked", "reconcilingSave",
          "snapped", "missing", "leadSave", "finalize", "closedSave", "mismatch", "qtySave",
          "unknownIntent", "orphan", "parked"} \subseteq Pcs
  BY DEF Pcs, CloserPcs, UnknownPcs, EntryPcs, ReconPcs, SweepPcs
<1>6. CASE AcceptFill
  BY <1>1, <1>4, <1>5, <1>6 DEF AcceptFill
<1>7. CASE SaveAttachResult
  BY <1>1, <1>4, <1>5, <1>7 DEF SaveAttachResult
<1>8. CASE OpenRead \/ OpenSave
  BY <1>2, <1>3, <1>4, <1>5, <1>8 DEF OpenRead, OpenSave
<1>9. CASE RebuildIndex
  BY <1>1, <1>4, <1>5, <1>9 DEF RebuildIndex
<1>10. ASSUME NEW u \in Unknowns, Unknown(u) PROVE Kept
  <2>1. CASE UnknownCheck(u)
    BY <1>1, <1>4, <1>5, <2>1 DEF UnknownCheck, memory
  <2>2. CASE UnknownRead(u) \/ UnknownSave(u)
    BY <1>2, <1>3, <1>4, <1>5, <2>2 DEF UnknownRead, UnknownSave
  <2> QED BY <1>10, <2>1, <2>2 DEF Unknown
<1>11. CASE Recon
  <2>1. CASE Snapshot
    BY <1>1, <1>4, <1>5, <2>1 DEF Snapshot, memory
  <2>2. CASE LoadRow
    <3>1. CASE row.state = "closed"
      BY <1>1, <1>4, <1>5, <2>2, <3>1 DEF LoadRow, memory
    <3>2. CASE row.state # "closed" /\ seen.qty = 0
      BY <1>1, <1>4, <1>5, <2>2, <3>2 DEF LoadRow, memory
    <3>3. CASE row.state # "closed" /\ seen.qty # 0
      BY <1>1, <1>4, <1>5, <2>2, <3>3 DEF LoadRow, memory
    <3> QED BY <3>1, <3>2, <3>3
  <2>3. CASE LeadRead
    BY <1>1, <1>2, <1>4, <1>5, <2>3 DEF LeadRead, memory
  <2>4. CASE LeadSave \/ MissingRead \/ MissingSave \/ SurvivedRead \/ SurvivedSave
    BY <1>2, <1>3, <1>4, <1>5, <2>4 DEF LeadSave, MissingRead, MissingSave, SurvivedRead, SurvivedSave
  <2>5. CASE AdjustRead \/ AdjustSave \/ PassOver
    BY <1>1, <1>4, <1>5, <2>5 DEF AdjustRead, AdjustSave, PassOver, memory
  <2> QED BY <1>11, <2>1, <2>2, <2>3, <2>4, <2>5 DEF Recon
<1>12. CASE Sweeper
  <2>1. CASE Sweep
    BY <1>1, <1>4, <1>5, <2>1 DEF Sweep
  <2>2. CASE OrphanRead \/ OrphanSave \/ ParkedRead \/ ParkedSave
    BY <1>2, <1>3, <1>4, <1>5, <2>2 DEF OrphanRead, OrphanSave, ParkedRead, ParkedSave
  <2> QED BY <1>12, <2>1, <2>2 DEF Sweeper
<1>13. CASE ExchangeCloses
  BY <1>13 DEF ExchangeCloses, memory, PcType
<1> QED BY <1>6, <1>7, <1>8, <1>9, <1>10, <1>11, <1>12, <1>13

-----------------------------------------------------------------------------
\* The strengthening of OneClosingFill: whoever is inside the closing fill has
\* set closingInFlight, so nobody else is let in.
Guarded ==
    /\ PcType
    /\ \A c \in Closers : InClosingFill(c) => closing
    /\ OneClosingFill

\* A producer's step keeps Guarded when it enters no closing fill and, if it
\* clears closingInFlight, leaves its own.
LEMMA GuardKept ==
    ASSUME Guarded, NEW c \in Closers, NEW there, Moves(c, there),
           InClosingFill(c)' => InClosingFill(c),
           closing' = closing \/ (InClosingFill(c) /\ ~InClosingFill(c)')
    PROVE  Guarded'
<1>1. \A d \in Closers : InClosingFill(d)' => InClosingFill(d)
  BY DEF Moves, InClosingFill
<1>2. PcType'
  BY DEF Moves, PcType
<1>3. OneClosingFill'
  BY <1>1 DEF Guarded, OneClosingFill
<1>4. \A d \in Closers : InClosingFill(d)' => closing'
  BY <1>1 DEF Guarded, OneClosingFill
<1> QED BY <1>2, <1>3, <1>4 DEF Guarded

\* The close handlers' steps keep it, one at a time.
LEMMA CloseKeepsGuarded ==
    ASSUME Guarded, NEW c \in Closers, Close(c)
    PROVE  Guarded'
<1> USE GuardKept, GotoMoves, EscalatedMoves, ClosersApart
<1>1. PcType /\ c \in Procs /\ CloserPcs \subseteq Pcs
  BY DEF Guarded, Pcs
<1>2. ASSUME NEW there \in CloserPcs, NEW e, Goto(c, there, e) \/ Escalated(c, there, e)
      PROVE  Moves(c, there)
  BY <1>1, <1>2
<1>3. CASE Acquire(c)
  BY <1>2, <1>3 DEF Acquire, CloserPcs, InClosingFill, Moves
<1>4. CASE EmitClose(c)
  BY <1>2, <1>4 DEF EmitClose, CloserPcs, InClosingFill, Moves, memory
<1>5. CASE ProducerThrows(c)
  BY <1>2, <1>5 DEF ProducerThrows, CloserPcs, InClosingFill, Moves
<1>6. CASE SubmitAnswer(c)
  <2>1. PICK there \in {"applying", "terminal"} : Goto(c, there, NoEntity)
    BY <1>6 DEF SubmitAnswer
  <2> QED BY <1>2, <1>6, <2>1 DEF SubmitAnswer, CloserPcs, InClosingFill, Moves, memory
<1>7. CASE FillNoRow(c) \/ FillFlatRow(c) \/ FillReduces(c)
  BY <1>2, <1>7 DEF FillNoRow, FillFlatRow, FillReduces, CloserPcs, InClosingFill, Moves, memory
<1>8. CASE FillCloses(c)
  <2>1. PICK there \in {"terminal", "promoting", "zeroing"} :
          /\ there = "terminal" \/ ~closing
          /\ Goto(c, there, row) \/ Escalated(c, there, row)
    BY <1>8 DEF FillCloses
  <2>2. Moves(c, there)
    BY <1>2, <2>1 DEF CloserPcs
  <2>3. closing' = TRUE
    BY <1>8 DEF FillCloses
  <2>4. CASE closing
    <3>1. there = "terminal"
      BY <2>1, <2>4
    <3> QED BY <2>2, <2>3, <2>4, <3>1 DEF Moves, InClosingFill, Guarded, PcType, OneClosingFill
  <2>5. CASE ~closing
    <3>1. \A d \in Closers : ~InClosingFill(d)
      BY <2>5 DEF Guarded
    <3>2. \A d \in Closers : d # c => ~InClosingFill(d)'
      BY <2>2, <3>1 DEF Moves, InClosingFill
    <3> QED BY <2>2, <2>3, <3>2 DEF Guarded, Moves, PcType, OneClosingFill
  <2> QED BY <2>4, <2>5
<1>9. CASE PromoteRead(c)
  BY <1>2, <1>9 DEF PromoteRead, At, CloserPcs, InClosingFill, Moves
<1>10. CASE PromoteSave(c)
  BY <1>2, <1>10 DEF PromoteSave, TransitionSave, At, CloserPcs, InClosingFill, Moves
<1>11. CASE ZeroAndSave(c)
  BY <1>2, <1>11 DEF ZeroAndSave, At, CloserPcs, InClosingFill, Moves
<1>12. CASE BookAndRead(c)
  BY <1>2, <1>12 DEF BookAndRead, At, CloserPcs, InClosingFill, Moves
<1>13. CASE ClosingSave(c)
  BY <1>2, <1>13 DEF ClosingSave, TransitionSave, At, CloserPcs, InClosingFill, Moves
<1>14. CASE FinalizeRead(c)
  BY <1>2, <1>14 DEF FinalizeRead, At, CloserPcs, InClosingFill, Moves
<1>15. CASE FinalizeSave(c)
  BY <1>2, <1>15 DEF FinalizeSave, At, CloserPcs, InClosingFill, Moves
<1>16. CASE ReduceRead(c) \/ ReduceSave(c)
  BY <1>2, <1>16 DEF ReduceRead, ReduceSave, CloserPcs, InClosingFill, Moves, memory
<1>17. CASE Terminal(c)
  BY <1>2, <1>17 DEF Terminal, CloserPcs, InClosingFill, Moves, memory
<1> QED BY <1>3, <1>4, <1>5, <1>6, <1>7, <1>8, <1>9, <1>10, <1>11, <1>12, <1>13, <1>14,
           <1>15, <1>16, <1>17 DEF Close

\* closingInFlight lets one closing fill through at a time, whichever producers
\* run, share the close slot or not, and whatever goes wrong.
THEOREM ClosingFillExclusive == Spec => []OneClosingFill
<1>1. Init => Guarded
  <2> SUFFICES ASSUME Init PROVE Guarded
    OBVIOUS
  <2>1. PICK pass \in {"idle", "snapped"} :
          pc = [p \in Procs |-> CASE p = "entry" /\ Entering -> "created"
                                  [] p = "recon" -> pass
                                  [] OTHER -> "idle"]
    BY DEF Init
  <2>2. {"idle", "snapped", "created"} \subseteq Pcs
    BY DEF Pcs, EntryPcs, ReconPcs
  <2>3. PcType /\ \A c \in Closers : pc[c] = "idle"
    BY <2>1, <2>2, ClosersApart DEF PcType
  <2> QED BY <2>3 DEF Guarded, OneClosingFill, InClosingFill
<1>2. Guarded /\ [Next]_vars => Guarded'
  <2> SUFFICES ASSUME Guarded, [Next]_vars PROVE Guarded'
    OBVIOUS
  <2>1. ASSUME PcType', \A c \in Closers : pc'[c] = pc[c], closing' = closing
        PROVE  Guarded'
    BY <2>1 DEF Guarded, OneClosingFill, InClosingFill
  <2>2. CASE RejectFill
    <3>1. PcType' /\ closing' = closing
      BY <2>2, ClosersApart DEF RejectFill, Guarded, PcType, Pcs, CloserPcs
    <3>2. \A c \in Closers : pc'[c] = pc[c] \/ pc'[c] = "held"
      BY <2>2, ClosersApart DEF RejectFill, Guarded, PcType
    <3> QED BY <3>1, <3>2 DEF Guarded, OneClosingFill, InClosingFill
  <2>3. CASE NotACandidate
    <3>1. PcType' /\ closing' = closing
      BY <2>3, ClosersApart DEF NotACandidate, At, Goto, Guarded, PcType, Pcs, CloserPcs
    <3>2. \A c \in Closers : pc'[c] = pc[c] \/ pc'[c] = "idle"
      BY <2>3, ClosersApart DEF NotACandidate, At, Goto, Guarded, PcType
    <3> QED BY <3>1, <3>2 DEF Guarded, OneClosingFill, InClosingFill
  <2>4. CASE \E c \in Closers : Close(c)
    BY <2>4, CloseKeepsGuarded
  <2>5. CASE UNCHANGED vars
    BY <2>1, <2>5 DEF vars, memory, Guarded, PcType
  <2> QED BY <2>1, <2>2, <2>3, <2>4, <2>5, OthersMoveNoCloser DEF Next, Entry, Guarded
<1>3. Guarded => OneClosingFill
  BY DEF Guarded
<1> QED BY <1>1, <1>2, <1>3, PTL DEF Spec

-----------------------------------------------------------------------------
\* A settled live position.
Undisturbed == ~Entering /\ ~Paper

\* The producers that take the close slot.
Takers == Closers \ {"momentum"}

\* The strengthening of SlotSerializesCloses.  A taker's close in flight holds
\* the slot, unless CLOSED has freed it, and then nothing can trigger a taker
\* again: the monitor is disarmed, the deadline index has dropped the position,
\* and only the entry handler, which is over, would arm or index it.
SlotCovers ==
    /\ PcType
    /\ pc["entry"] = "idle"
    /\ "unwind" \in Closers => pc["unwind"] = "idle"
    /\ "momentum" \in Closers => pc["momentum"] # "held"
    /\ slot \/ (~armed /\ ~indexed) \/ \A c \in Takers : pc[c] = "idle"
    /\ SlotSerializesCloses

\* Handler p's step keeps it if it frees no slot, arms and indexes nothing, and
\* wakes no idle taker.
LEMMA SlotKept ==
    ASSUME SlotCovers, PcType', pc'["entry"] = pc["entry"],
           \A c \in Takers : pc[c] = "idle" => pc'[c] = "idle",
           \A c \in Closers : pc'[c] = "held" => pc[c] = "held",
           armed' => armed, indexed' => indexed,
           slot => slot' \/ (~armed' /\ ~indexed')
    PROVE  SlotCovers'
BY DEF SlotCovers, SlotSerializesCloses, Takers, Idle

\* What a transition's listeners do to the slot and the two triggers.
LEMMA ListenersFree ==
    ASSUME NEW to, OnTransition(to)
    PROVE  /\ armed' => armed
           /\ indexed' => indexed
           /\ slot => slot' \/ (~armed' /\ ~indexed')
BY DEF OnTransition

\* The handlers that are no producer keep it.
LEMMA OthersKeepSlot ==
    ASSUME SlotCovers, Undisturbed,
           \/ \E u \in Unknowns : Unknown(u)
           \/ Recon \/ Sweeper \/ ExchangeCloses
    PROVE  SlotCovers'
<1>1. PcType' /\ \A c \in Closers : pc'[c] = pc[c]
  BY OthersMoveNoCloser DEF SlotCovers
<1> DEFINE Frees == /\ armed' => armed
                    /\ indexed' => indexed
                    /\ slot => slot' \/ (~armed' /\ ~indexed')
<1>2. ASSUME pc'["entry"] = pc["entry"], Frees PROVE SlotCovers'
  BY <1>1, <1>2, SlotKept DEF Takers
<1>3. ASSUME NEW p \in Procs, p # "entry", NEW there, NEW e, Goto(p, there, e)
      PROVE  pc'["entry"] = pc["entry"]
  BY <1>3, ClosersApart DEF Goto, SlotCovers, PcType
<1>4. ASSUME NEW p \in Procs, p # "entry", NEW to, NEW there, TransitionRead(p, to, there, "idle")
      PROVE  SlotCovers'
  <2>1. pc'["entry"] = pc["entry"]
    <3>1. CASE LegalTransition(row.state, to)
      BY <1>3, <1>4, <3>1 DEF TransitionRead
    <3>2. CASE ~LegalTransition(row.state, to)
      BY <1>3, <1>4, <3>2 DEF TransitionRead
    <3> QED BY <3>1, <3>2
  <2>2. Frees
    BY <1>4 DEF TransitionRead, memory
  <2> QED BY <1>2, <2>1, <2>2
<1>5. ASSUME NEW p \in Procs, p # "entry", NEW there, TransitionSave(p, there)
      PROVE  SlotCovers'
  <2>1. pc'["entry"] = pc["entry"]
    BY <1>3, <1>5 DEF TransitionSave
  <2>2. Frees
    <3>1. OnTransition(ent[p].state)
      BY <1>5 DEF TransitionSave
    <3> QED BY <3>1, ListenersFree
  <2> QED BY <1>2, <2>1, <2>2
<1>6. ASSUME NEW p \in Procs, p # "entry", NEW there, NEW e, Goto(p, there, e), UNCHANGED memory
      PROVE  SlotCovers'
  BY <1>2, <1>3, <1>6 DEF memory
<1>7. "recon" \in Procs /\ "sweep" \in Procs /\ Unknowns \subseteq Procs
  BY ClosersApart
<1>8. ASSUME NEW u \in Unknowns, Unknown(u) PROVE SlotCovers'
  <2>1. u \in Procs /\ u # "entry"
    BY CloserAssumption, <1>7 DEF Unknowns, UnknownOf, CloserKinds
  <2>2. CASE UnknownCheck(u)
    BY <1>6, <2>1, <2>2 DEF UnknownCheck
  <2>3. CASE UnknownRead(u) \/ UnknownSave(u)
    BY <1>4, <1>5, <2>1, <2>3 DEF UnknownRead, UnknownSave
  <2> QED BY <1>8, <2>2, <2>3 DEF Unknown
<1>9. CASE Recon
  <2>1. CASE Snapshot \/ LoadRow \/ AdjustRead \/ PassOver
    BY <1>6, <1>7, <2>1 DEF Snapshot, LoadRow, AdjustRead, PassOver
  <2>2. CASE AdjustSave
    BY <1>6, <1>7, <2>2 DEF AdjustSave
  <2>3. CASE LeadRead
    BY <1>4, <1>6, <1>7, <2>3 DEF LeadRead
  <2>4. CASE LeadSave \/ MissingRead \/ MissingSave \/ SurvivedRead \/ SurvivedSave
    BY <1>4, <1>5, <1>7, <2>4 DEF LeadSave, MissingRead, MissingSave, SurvivedRead, SurvivedSave
  <2> QED BY <1>9, <2>1, <2>2, <2>3, <2>4 DEF Recon
<1>10. CASE Sweeper
  <2>1. CASE Sweep
    <3>1. Goto("sweep", "orphan", NoEntity) /\ UNCHANGED <<slot, armed, indexed, closing>>
      BY <2>1 DEF Sweep, Undisturbed
    <3> QED BY <1>6, <1>7, <3>1 DEF memory
  <2>2. CASE OrphanRead \/ OrphanSave \/ ParkedRead \/ ParkedSave
    BY <1>4, <1>5, <1>7, <2>2 DEF OrphanRead, OrphanSave, ParkedRead, ParkedSave
  <2> QED BY <1>10, <2>1, <2>2 DEF Sweeper
<1>11. CASE ExchangeCloses
  BY <1>2, <1>11 DEF ExchangeCloses, memory
<1> QED BY <1>8, <1>9, <1>10, <1>11

\* So do the producers: one takes the slot only when no close is in flight, and
\* gives it back itself only while its own close is the one in flight.
LEMMA ClosersKeepSlot ==
    ASSUME SlotCovers, Undisturbed, NEW c \in Closers, Close(c) \/ (NotACandidate /\ c = "timestop")
    PROVE  SlotCovers'
<1> USE ClosersApart
<1>1. PcType /\ c \in Procs /\ c # "entry" /\ CloserPcs \subseteq Pcs /\ "idle" \in Pcs
  BY DEF SlotCovers, Pcs, CloserPcs
<1>2. ASSUME NEW there \in CloserPcs, NEW e, Goto(c, there, e) \/ Escalated(c, there, e)
      PROVE  Moves(c, there) /\ pc'["entry"] = pc["entry"]
  <2>1. Moves(c, there)
    BY <1>1, <1>2, GotoMoves, EscalatedMoves
  <2>2. UnknownOf[c] # "entry"
    BY CloserAssumption DEF UnknownOf, CloserKinds
  <2> QED BY <1>1, <1>2, <2>1, <2>2 DEF Goto, Escalated, PcType
<1> DEFINE Frees == /\ armed' => armed
                    /\ indexed' => indexed
                    /\ slot => slot' \/ (~armed' /\ ~indexed')
<1>3. ASSUME pc[c] # "idle" \/ c = "momentum", Frees,
             \E there \in CloserPcs \ {"held"} : \E e : Goto(c, there, e) \/ Escalated(c, there, e)
      PROVE  SlotCovers'
  <2>1. PICK there \in CloserPcs \ {"held"} : Moves(c, there) /\ pc'["entry"] = pc["entry"]
    BY <1>2, <1>3
  <2>2. /\ PcType' /\ \A d \in Takers : pc[d] = "idle" => pc'[d] = "idle"
        /\ \A d \in Closers : pc'[d] = "held" => pc[d] = "held"
    BY <1>3, <2>1 DEF Moves, PcType, Takers
  <2> QED BY <1>3, <2>1, <2>2, SlotKept
<1>4. ASSUME pc[c] = "held", armed' = armed, indexed' => indexed, Goto(c, "idle", NoEntity)
      PROVE  SlotCovers'
  <2>1. Moves(c, "idle") /\ pc'["entry"] = pc["entry"]
    BY <1>2, <1>4 DEF CloserPcs
  <2>2. c # "momentum" /\ \A d \in Takers : pc'[d] = "idle"
    <3>1. c \in Takers /\ \A d \in Takers : d # c => pc[d] = "idle"
      BY <1>4 DEF SlotCovers, SlotSerializesCloses, Idle, Takers
    <3> QED BY <2>1, <3>1 DEF Moves, Takers
  <2> QED BY <2>1, <2>2 DEF SlotCovers, SlotSerializesCloses, Takers, Idle, Moves, PcType
<1>5. CASE Acquire(c)
  <2>1. \A d \in Takers : pc[d] = "idle"
    BY <1>5 DEF Acquire, SlotCovers
  <2>2. Moves(c, "held") /\ pc'["entry"] = pc["entry"] /\ slot'
    BY <1>2, <1>5 DEF Acquire, CloserPcs
  <2>3. \A d \in Takers : d # c => pc'[d] = "idle"
    BY <2>1, <2>2 DEF Moves, Takers
  <2>4. c # "unwind" /\ c # "momentum"
    BY <1>5 DEF Acquire
  <2> QED BY <2>2, <2>3, <2>4 DEF SlotCovers, SlotSerializesCloses, Takers, Idle, Moves, PcType
<1>6. CASE ProducerThrows(c)
  BY <1>4, <1>6 DEF ProducerThrows, At
<1>7. CASE NotACandidate /\ c = "timestop"
  BY <1>4, <1>7 DEF NotACandidate, At
<1>8. CASE EmitClose(c)
  <2>1. /\ pc[c] # "idle" \/ c = "momentum"
        /\ Goto(c, "submitting", NoEntity) /\ UNCHANGED memory
    BY <1>8 DEF EmitClose, At
  <2> QED BY <1>3, <2>1 DEF CloserPcs, memory
<1>9. CASE SubmitAnswer(c)
  <2>1. pc[c] = "submitting" /\ UNCHANGED memory
        /\ \E there \in {"applying", "terminal"} : Goto(c, there, NoEntity)
    BY <1>9 DEF SubmitAnswer, At
  <2> QED BY <1>3, <2>1 DEF CloserPcs, memory
<1>10. CASE FillNoRow(c) \/ FillFlatRow(c)
  <2>1. pc[c] = "applying" /\ UNCHANGED memory
        /\ (Goto(c, "terminal", NoEntity) \/ Escalated(c, "terminal", NoEntity))
    BY <1>10 DEF FillNoRow, FillFlatRow, At
  <2> QED BY <1>3, <2>1 DEF CloserPcs, memory
<1>11. CASE FillReduces(c)
  <2>1. pc[c] = "applying" /\ UNCHANGED memory /\ \E e : Goto(c, "reducing", e)
    BY <1>11 DEF FillReduces, At
  <2> QED BY <1>3, <2>1 DEF CloserPcs, memory
<1>12. CASE FillCloses(c)
  <2>1. \E there \in {"terminal", "promoting", "zeroing"} :
          Goto(c, there, row) \/ Escalated(c, there, row)
    BY <1>12 DEF FillCloses
  <2>2. pc[c] = "applying" /\ UNCHANGED <<slot, armed, indexed>>
    BY <1>12 DEF FillCloses, At
  <2> QED BY <1>3, <2>1, <2>2 DEF CloserPcs
<1>13. CASE PromoteRead(c)
  <2>1. \E there \in {"terminal", "promoted"} :
          \E e : Goto(c, there, e) \/ Escalated(c, there, e)
    BY <1>13 DEF PromoteRead
  <2>2. pc[c] = "promoting" /\ UNCHANGED <<slot, armed, indexed>>
    BY <1>13 DEF PromoteRead, At
  <2> QED BY <1>3, <2>1, <2>2 DEF CloserPcs
<1>14. CASE PromoteSave(c) \/ ClosingSave(c) \/ FinalizeSave(c)
  <2>1. \E there \in {"zeroing", "inClosing", "terminal"} : \E e : Goto(c, there, e)
    BY <1>14 DEF PromoteSave, ClosingSave, FinalizeSave, TransitionSave
  <2>2. pc[c] # "idle" /\ OnTransition(ent[c].state)
    BY <1>14 DEF PromoteSave, ClosingSave, FinalizeSave, TransitionSave, At
  <2>3. Frees
    BY <2>2, ListenersFree
  <2> QED BY <1>3, <2>1, <2>2, <2>3 DEF CloserPcs
<1>15. CASE ZeroAndSave(c)
  BY <1>3, <1>15 DEF ZeroAndSave, At, CloserPcs
<1>16. CASE BookAndRead(c)
  <2>1. \E there \in {"closingSave", "idle"} : \E e : Goto(c, there, e)
    BY <1>16 DEF BookAndRead
  <2>2. pc[c] = "zeroed" /\ UNCHANGED <<slot, armed, indexed>>
    BY <1>16 DEF BookAndRead, At
  <2> QED BY <1>3, <2>1, <2>2 DEF CloserPcs
<1>17. CASE FinalizeRead(c)
  <2>1. \E there \in {"closedSave", "idle"} : \E e : Goto(c, there, e)
    BY <1>17 DEF FinalizeRead
  <2>2. pc[c] = "inClosing" /\ UNCHANGED <<slot, armed, indexed>>
    BY <1>17 DEF FinalizeRead, At
  <2> QED BY <1>3, <2>1, <2>2 DEF CloserPcs
<1>18. CASE ReduceRead(c) \/ ReduceSave(c)
  <2>1. \E there \in {"reduced", "terminal"} : \E e : Goto(c, there, e)
    BY <1>18 DEF ReduceRead, ReduceSave
  <2>2. pc[c] # "idle" /\ UNCHANGED memory
    BY <1>18 DEF ReduceRead, ReduceSave, At
  <2> QED BY <1>3, <2>1, <2>2 DEF CloserPcs, memory
<1>19. CASE Terminal(c)
  <2>1. pc[c] = "terminal" /\ UNCHANGED memory
        /\ (Goto(c, "idle", NoEntity) \/ Escalated(c, "idle", NoEntity))
    BY <1>19 DEF Terminal, At
  <2> QED BY <1>3, <2>1 DEF CloserPcs, memory
<1> QED BY <1>5, <1>6, <1>7, <1>8, <1>9, <1>10, <1>11, <1>12, <1>13, <1>14, <1>15, <1>16,
           <1>17, <1>18, <1>19 DEF Close

\* On a settled live position the producers that take SharedCloseCoordinator's
\* slot never have two close intents in flight together, through partial fills,
\* reconciliation, external closes, throws and the closes of the momentum
\* de-rank, which takes no slot.
THEOREM OneCloseAtATime ==
    ASSUME Undisturbed
    PROVE  Spec => []SlotSerializesCloses
<1>1. Init => SlotCovers
  <2> SUFFICES ASSUME Init PROVE SlotCovers
    OBVIOUS
  <2>1. PICK pass \in {"idle", "snapped"} :
          pc = [p \in Procs |-> CASE p = "entry" /\ Entering -> "created"
                                  [] p = "recon" -> pass
                                  [] OTHER -> "idle"]
    BY DEF Init
  <2>2. {"idle", "snapped", "created"} \subseteq Pcs
    BY DEF Pcs, EntryPcs, ReconPcs
  <2>3. PcType /\ pc["entry"] = "idle" /\ \A c \in Closers : pc[c] = "idle"
    BY <2>1, <2>2, ClosersApart DEF PcType, Undisturbed
  <2> QED BY <2>3 DEF SlotCovers, SlotSerializesCloses, Takers, Idle
<1>2. SlotCovers /\ [Next]_vars => SlotCovers'
  <2> SUFFICES ASSUME SlotCovers, [Next]_vars PROVE SlotCovers'
    OBVIOUS
  <2>1. ~Entry
    BY DEF SlotCovers, Entry, AcceptFill, RejectFill, SaveAttachResult, OpenRead, OpenSave,
           RebuildIndex, At
  <2>2. CASE \E c \in Closers : Close(c)
    BY <2>2, ClosersKeepSlot
  <2>3. CASE NotACandidate
    <3>1. "timestop" \in Closers
      BY <2>3, CloserAssumption DEF NotACandidate, At, Procs, Unknowns, UnknownOf, CloserKinds
    <3> QED BY <2>3, <3>1, ClosersKeepSlot
  <2>4. CASE UNCHANGED vars
    BY <2>4 DEF vars, memory, SlotCovers, PcType, SlotSerializesCloses, Takers, Idle
  <2> QED BY <2>1, <2>2, <2>3, <2>4, OthersKeepSlot DEF Next
<1>3. SlotCovers => SlotSerializesCloses
  BY DEF SlotCovers
<1> QED BY <1>1, <1>2, <1>3, PTL DEF Spec
-----------------------------------------------------------------------------
\* The places where a close handler has a fill that is not booked yet.
Unbooked == {"applying", "promoting", "promoted", "zeroing", "zeroed", "reducing", "reduced"}

InHand(k) == IF k \in Closers /\ pc[k] \in Unbooked THEN order[k].fill ELSE 0

FillsInHand == InHand("monitor") + InHand("timestop") + InHand("unwind") + InHand("momentum")

\* The books never claim more than the exchange took off: what is booked, what
\* the handlers have in hand and what the exchange still holds is at most the
\* entry.  A fill clamped to its row, or one that finds no row, is less.
NothingBookedTwice == booked + FillsInHand + exch <= Qty

BookInv == TypeOK /\ NothingBookedTwice

\* A typed step of handler p, holding a row.
LEMMA GotoTyped ==
    ASSUME TypeOK, NEW p \in Procs, NEW there \in Pcs, NEW e \in Rows, Goto(p, there, e)
    PROVE  pc' \in [Procs -> Pcs] /\ ent' \in [Procs -> Rows]
BY DEF TypeOK, Goto, Pcs

LEMMA EscalatedTyped ==
    ASSUME TypeOK, NEW c \in Closers, NEW there \in Pcs, NEW e \in Rows, Escalated(c, there, e)
    PROVE  pc' \in [Procs -> Pcs] /\ ent' \in [Procs -> Rows]
<1>1. c \in Procs /\ UnknownOf[c] \in Procs /\ "pending" \in Pcs
  BY ClosersApart DEF Pcs, UnknownPcs
<1> QED BY <1>1 DEF TypeOK, Escalated, Pcs

\* NoEntity is a row.
LEMMA NoEntityTyped == NoEntity \in Rows /\ Qty \in Nat \ {0}
BY QtyAssumption DEF NoEntity, Rows, States

\* A step that leaves the orders and the producers' places keeps the fills in hand.
LEMMA InHandSame ==
    ASSUME order' = order, \A c \in Closers : pc'[c] = pc[c]
    PROVE  FillsInHand' = FillsInHand
BY DEF FillsInHand, InHand

\* A step of producer c changes what c has in hand, and nothing else.
LEMMA InHandStep ==
    ASSUME TypeOK, TypeOK', NEW c \in Closers, \A d \in Closers : d # c => pc'[d] = pc[d],
           \A d \in Closers : d # c => order'[d] = order[d]
    PROVE  FillsInHand' = FillsInHand - InHand(c) + InHand(c)'
<1>1. \A k \in CloserKinds : InHand(k) \in Nat /\ InHand(k)' \in Nat
  BY QtyAssumption DEF TypeOK, InHand, Orders
<1>2. \A k \in CloserKinds : k # c => InHand(k)' = InHand(k)
  BY DEF InHand
<1>3. c \in CloserKinds
  BY CloserAssumption
<1> HIDE DEF InHand
<1> QED BY <1>1, <1>2, <1>3 DEF FillsInHand, CloserKinds

\* The handlers that are no producer keep the row and what they hold typed.
LEMMA OthersTyped ==
    ASSUME TypeOK, \/ AcceptFill \/ SaveAttachResult \/ OpenRead \/ OpenSave \/ RebuildIndex
                   \/ \E u \in Unknowns : Unknown(u)
                   \/ Recon \/ Sweeper
    PROVE  TypeOK' /\ order' = order /\ booked' = booked /\ exch' = exch
<1> USE NoEntityTyped
<1> DEFINE Kept == TypeOK' /\ order' = order /\ booked' = booked /\ exch' = exch
<1>1. /\ {"entry", "recon", "sweep"} \subseteq Procs /\ Unknowns \subseteq Procs
      /\ {"idle", "attaching", "attached", "openSave", "indexing", "checked", "reconcilingSave",
          "snapped", "missing", "leadSave", "finalize", "closedSave", "mismatch", "qtySave",
          "unknownIntent", "orphan", "parked"} \subseteq Pcs
  BY ClosersApart DEF Pcs, CloserPcs, UnknownPcs, EntryPcs, ReconPcs, SweepPcs
<1>2. ASSUME NEW p \in Procs, NEW to \in States, NEW there \in Pcs, TransitionRead(p, to, there, "idle")
      PROVE  Kept
  <2>1. [row EXCEPT !.state = to] \in Rows
    BY DEF TypeOK, Rows
  <2>2. pc' \in [Procs -> Pcs] /\ ent' \in [Procs -> Rows]
    BY <1>1, <1>2, <2>1, GotoTyped DEF TransitionRead
  <2> QED BY <1>2, <2>2 DEF TransitionRead, TypeOK, memory, Pcs
<1>3. ASSUME NEW p \in Procs, NEW there \in Pcs, TransitionSave(p, there)
      PROVE  Kept
  <2>1. ent[p] \in Rows /\ NoEntity \in Rows
    BY DEF TypeOK
  <2>2. pc' \in [Procs -> Pcs] /\ ent' \in [Procs -> Rows]
    BY <1>1, <1>3, <2>1, GotoTyped DEF TransitionSave
  <2> QED BY <1>3, <2>1, <2>2 DEF TransitionSave, OnTransition, TypeOK, Pcs
<1>4. {"open", "reconciling", "closing", "closed"} \subseteq States
  BY DEF States
<1>5. ASSUME NEW p \in Procs, NEW there \in Pcs, NEW e \in Rows, Goto(p, there, e),
             row' \in Rows, seen' \in Rows, slot' \in BOOLEAN, armed' \in BOOLEAN,
             indexed' \in BOOLEAN, closing' = closing,
             order' = order, booked' = booked, exch' = exch
      PROVE  Kept
  <2>1. pc' \in [Procs -> Pcs] /\ ent' \in [Procs -> Rows]
    BY <1>5, GotoTyped
  <2> QED BY <1>5, <2>1 DEF TypeOK, Pcs
<1>6. /\ row \in Rows /\ seen \in Rows /\ slot \in BOOLEAN /\ armed \in BOOLEAN
      /\ indexed \in BOOLEAN /\ closing \in BOOLEAN /\ exch \in 0..Qty
      /\ \A p \in Procs : ent[p] \in Rows
  BY DEF TypeOK
<1>7. CASE AcceptFill
  BY <1>1, <1>5, <1>6, <1>7 DEF AcceptFill
<1>8. CASE SaveAttachResult
  BY <1>1, <1>5, <1>6, <1>8 DEF SaveAttachResult
<1>9. CASE OpenRead \/ OpenSave
  BY <1>1, <1>2, <1>3, <1>4, <1>9 DEF OpenRead, OpenSave
<1>10. CASE RebuildIndex
  <2>1. indexed' \in BOOLEAN
    BY <1>10 DEF RebuildIndex, IsTimeStopCandidate
  <2> QED BY <1>1, <1>5, <1>6, <1>10, <2>1 DEF RebuildIndex
<1>11. ASSUME NEW u \in Unknowns, Unknown(u) PROVE Kept
  <2>1. CASE UnknownCheck(u)
    <3>1. \E there \in {"idle", "checked"} : Goto(u, there, NoEntity)
      BY <2>1 DEF UnknownCheck
    <3> QED BY <1>1, <1>5, <1>6, <2>1, <3>1 DEF UnknownCheck, memory
  <2>2. CASE UnknownRead(u) \/ UnknownSave(u)
    BY <1>1, <1>2, <1>3, <1>4, <2>2 DEF UnknownRead, UnknownSave
  <2> QED BY <1>11, <2>1, <2>2 DEF Unknown
<1>12. CASE Recon
  <2>1. CASE Snapshot
    <3>1. seen' \in Rows
      BY <1>6, <2>1, QtyAssumption DEF Snapshot, Rows, NoEntity, States
    <3> QED BY <1>1, <1>5, <1>6, <2>1, <3>1 DEF Snapshot, memory
  <2>2. CASE LoadRow
    <3>1. \E there \in {"idle", "missing", "mismatch", "unknownIntent"} :
            Goto("recon", there, NoEntity)
      BY <2>2 DEF LoadRow
    <3>2. seen' \in Rows
      BY <1>6, <2>2 DEF LoadRow, Rows
    <3> QED BY <1>1, <1>5, <1>6, <2>2, <3>1, <3>2 DEF LoadRow, memory
  <2>3. CASE LeadRead
    <3>1. CASE \E to \in {"reconciling", "closing"} : TransitionRead("recon", to, "leadSave", "idle")
      BY <1>1, <1>2, <1>4, <3>1
    <3>2. CASE Goto("recon", "finalize", NoEntity)
               /\ UNCHANGED <<row, exch, booked, memory, order, seen>>
      BY <1>1, <1>5, <1>6, <3>2 DEF memory
    <3> QED BY <2>3, <3>1, <3>2 DEF LeadRead
  <2>4. CASE LeadSave \/ MissingRead \/ MissingSave \/ SurvivedRead \/ SurvivedSave
    BY <1>1, <1>2, <1>3, <1>4, <2>4 DEF LeadSave, MissingRead, MissingSave, SurvivedRead, SurvivedSave
  <2>5. CASE AdjustRead
    <3>1. [row EXCEPT !.qty = seen.qty] \in Rows
      BY <1>6 DEF Rows
    <3> QED BY <1>1, <1>5, <1>6, <2>5, <3>1 DEF AdjustRead, memory
  <2>6. CASE AdjustSave \/ PassOver
    BY <1>1, <1>5, <1>6, <2>6 DEF AdjustSave, PassOver, memory
  <2> QED BY <1>12, <2>1, <2>2, <2>3, <2>4, <2>5, <2>6 DEF Recon
<1>13. CASE Sweeper
  <2>1. CASE Sweep
    BY <1>1, <1>5, <1>6, <2>1 DEF Sweep
  <2>2. CASE OrphanRead \/ OrphanSave \/ ParkedRead \/ ParkedSave
    BY <1>1, <1>2, <1>3, <1>4, <2>2 DEF OrphanRead, OrphanSave, ParkedRead, ParkedSave
  <2> QED BY <1>13, <2>1, <2>2 DEF Sweeper
<1> QED BY <1>7, <1>8, <1>9, <1>10, <1>11, <1>12, <1>13
\* So do the close producers; a fill is in hand from the exchange's answer until
\* it is booked, clamped or dropped.
LEMMA ClosersBook ==
    ASSUME BookInv, NEW c \in Closers, Close(c) \/ (NotACandidate /\ c = "timestop")
    PROVE  BookInv'
<1> USE NoEntityTyped, ClosersApart
<1>1. TypeOK /\ PcType /\ c \in Procs /\ CloserPcs \subseteq Pcs
  BY DEF BookInv, TypeOK, PcType, Pcs
<1>2. /\ row \in Rows /\ exch \in 0..Qty /\ booked \in 0..Qty /\ seen \in Rows
      /\ slot \in BOOLEAN /\ armed \in BOOLEAN /\ indexed \in BOOLEAN /\ closing \in BOOLEAN
      /\ ent[c] \in Rows /\ order \in [Closers -> Orders] /\ order[c] \in Orders
      /\ order[c].fill \in 0..Qty /\ order[c].want \in 0..Qty /\ NoOrder \in Orders
  BY <1>1 DEF TypeOK, Orders, NoOrder
<1>3. ASSUME NEW there \in CloserPcs, NEW e \in Rows, Goto(c, there, e) \/ Escalated(c, there, e)
      PROVE  pc' \in [Procs -> Pcs] /\ ent' \in [Procs -> Rows] /\ Moves(c, there)
  BY <1>1, <1>3, GotoTyped, EscalatedTyped, GotoMoves, EscalatedMoves
<1>4. /\ FillsInHand \in Nat /\ InHand(c) \in Nat /\ InHand(c) <= FillsInHand
      /\ booked + FillsInHand + exch <= Qty
  <2>1. \A k \in CloserKinds : InHand(k) \in Nat
    BY <1>1 DEF TypeOK, InHand, Orders
  <2>2. c \in CloserKinds
    BY CloserAssumption
  <2>3. booked + FillsInHand + exch <= Qty
    BY DEF BookInv, NothingBookedTwice
  <2> HIDE DEF InHand
  <2> QED BY <2>1, <2>2, <2>3 DEF FillsInHand, CloserKinds
<1> DEFINE Rest == /\ row' \in Rows /\ seen' \in Rows
                   /\ slot' \in BOOLEAN /\ armed' \in BOOLEAN /\ indexed' \in BOOLEAN
                   /\ closing' \in BOOLEAN
           Accounts == booked' + InHand(c)' + exch' <= booked + InHand(c) + exch
\* A step typed apart from the books is typed, if it takes off no more than it books.
<1>5. ASSUME NEW there \in CloserPcs, NEW e \in Rows, Goto(c, there, e) \/ Escalated(c, there, e),
             Rest, order' \in [Closers -> Orders], \A d \in Closers : d # c => order'[d] = order[d],
             exch' \in 0..Qty, booked' \in Nat, InHand(c)' \in Nat, Accounts
      PROVE  BookInv'
  <2>1. pc' \in [Procs -> Pcs] /\ ent' \in [Procs -> Rows] /\ Moves(c, there)
    BY <1>3, <1>5
  <2>2. booked' \in 0..Qty
    BY <1>2, <1>4, <1>5
  <2>3. TypeOK'
    BY <1>5, <2>1, <2>2 DEF TypeOK, Pcs
  <2>4. FillsInHand' = FillsInHand - InHand(c) + InHand(c)'
    BY <1>1, <1>5, <2>1, <2>3, InHandStep DEF Moves
  <2>5. booked' + FillsInHand' + exch' <= Qty
    BY <1>2, <1>4, <1>5, <2>4
  <2> QED BY <2>3, <2>5 DEF BookInv, NothingBookedTwice
\* A step that leaves the exchange, the books and its own fill alone.
<1>6. ASSUME NEW there \in CloserPcs, NEW e \in Rows, Goto(c, there, e) \/ Escalated(c, there, e),
             there \in Unbooked => pc[c] \in Unbooked,
             Rest, order' = order, exch' = exch, booked' = booked
      PROVE  BookInv'
  <2>1. pc'[c] = there
    BY <1>3, <1>6 DEF Moves
  <2>2. InHand(c)' \in Nat /\ InHand(c)' <= InHand(c)
    BY <1>2, <1>6, <2>1 DEF InHand
  <2>3. Accounts
    BY <1>2, <1>4, <1>6, <2>2
  <2>4. exch' \in 0..Qty /\ booked' \in Nat
    BY <1>2, <1>6
  <2> QED BY <1>2, <1>5, <1>6, <2>2, <2>3, <2>4
\* A step that ends out of the fill's reach, with the fill booked or dropped.
<1>7. ASSUME NEW there \in CloserPcs \ Unbooked, NEW e \in Rows,
             Goto(c, there, e) \/ Escalated(c, there, e),
             Rest, exch' = exch, booked' \in Nat, booked' <= booked + InHand(c),
             order' \in [Closers -> Orders], \A d \in Closers : d # c => order'[d] = order[d]
      PROVE  BookInv'
  <2>1. pc'[c] = there
    BY <1>3, <1>7 DEF Moves
  <2>2. InHand(c)' = 0
    BY <1>7, <2>1 DEF InHand
  <2>3. Accounts
    BY <1>2, <1>4, <1>7, <2>2
  <2>4. exch' \in 0..Qty
    BY <1>2, <1>7
  <2> QED BY <1>5, <1>7, <2>2, <2>3, <2>4
<1>8. CASE Acquire(c)
  <2>1. Rest
    BY <1>2, <1>8 DEF Acquire
  <2> QED BY <1>6, <1>8, <2>1 DEF Acquire, CloserPcs, Unbooked
<1>9. CASE EmitClose(c)
  <2>1. Rest
    BY <1>2, <1>9 DEF EmitClose, memory
  <2>2. order' \in [Closers -> Orders] /\ \A d \in Closers : d # c => order'[d] = order[d]
    <3>1. (IF c = "unwind" THEN Qty ELSE row.qty) \in 0..Qty
      BY <1>2 DEF Rows
    <3>2. ASSUME NEW w \in 0..Qty PROVE [NoOrder EXCEPT !.want = w] \in Orders
      BY <1>2 DEF Orders
    <3>3. [NoOrder EXCEPT !.want = IF c = "unwind" THEN Qty ELSE row.qty] \in Orders
      BY <3>1, <3>2
    <3> QED BY <1>2, <1>9, <3>3 DEF EmitClose
  <2>3. booked' \in Nat /\ booked' <= booked + InHand(c) /\ exch' = exch
    BY <1>2, <1>4, <1>9 DEF EmitClose
  <2> QED BY <1>7, <1>9, <2>1, <2>2, <2>3 DEF EmitClose, CloserPcs, Unbooked
<1>10. CASE ProducerThrows(c)
  <2>1. Rest
    BY <1>2, <1>10 DEF ProducerThrows
  <2> QED BY <1>6, <1>10, <2>1 DEF ProducerThrows, CloserPcs, Unbooked
<1>11. CASE NotACandidate /\ c = "timestop"
  <2>1. Rest
    BY <1>2, <1>11 DEF NotACandidate
  <2> QED BY <1>6, <1>11, <2>1 DEF NotACandidate, CloserPcs, Unbooked
<1>12. CASE SubmitAnswer(c)
  <2>1. PICK fill \in 0..Least(order[c].want, exch), clean \in BOOLEAN :
          /\ exch' = exch - fill
          /\ order' = [order EXCEPT ![c].fill = fill, ![c].clean = clean]
          /\ Goto(c, IF fill > 0 THEN "applying" ELSE "terminal", NoEntity)
    BY <1>12 DEF SubmitAnswer
  <2>2. fill \in 0..Qty /\ fill <= exch
    BY <1>2, <2>1 DEF Least
  <2>3. order' \in [Closers -> Orders] /\ order'[c].fill = fill
    <3>1. [order[c] EXCEPT !.fill = fill, !.clean = clean] \in Orders
      BY <1>2, <2>2 DEF Orders
    <3>2. order' = [order EXCEPT ![c] = [order[c] EXCEPT !.fill = fill, !.clean = clean]]
      BY <1>2, <2>1
    <3> QED BY <1>2, <2>2, <3>1, <3>2 DEF Orders
  <2>4. \A d \in Closers : d # c => order'[d] = order[d]
    BY <1>2, <2>1
  <2>5. Rest /\ booked' = booked /\ pc[c] = "submitting"
    BY <1>2, <1>12 DEF SubmitAnswer, memory, At
  <2>6. InHand(c) = 0
    BY <2>5 DEF InHand, Unbooked
  <2>7. PICK there \in {"applying", "terminal"} : Goto(c, there, NoEntity)
    BY <2>1
  <2>8. there \in CloserPcs
    BY DEF CloserPcs
  <2>9. InHand(c)' \in Nat /\ InHand(c)' <= fill
    BY <2>2, <2>3 DEF InHand
  <2>10. exch' \in 0..Qty /\ Accounts /\ booked' \in Nat
    BY <1>2, <2>1, <2>2, <2>5, <2>6, <2>9
  <2> QED BY <1>5, <2>3, <2>4, <2>5, <2>7, <2>8, <2>9, <2>10
<1>13. CASE FillNoRow(c) \/ FillFlatRow(c)
  <2>1. Rest
    BY <1>2, <1>13 DEF FillNoRow, FillFlatRow, memory
  <2> QED BY <1>6, <1>13, <2>1 DEF FillNoRow, FillFlatRow, CloserPcs, Unbooked
<1>14. CASE FillCloses(c)
  <2>1. PICK there \in {"terminal", "promoting", "zeroing"} :
          Goto(c, there, row) \/ Escalated(c, there, row)
    BY <1>14 DEF FillCloses
  <2>2. Rest /\ exch' = exch /\ booked' = booked /\ pc[c] = "applying" /\ row.qty <= order[c].fill
    BY <1>2, <1>14 DEF FillCloses, At, Rows
  <2>3. row.qty \in 0..Qty
    BY <1>2 DEF Rows
  <2>4. order' \in [Closers -> Orders] /\ order'[c].fill = row.qty
        /\ \A d \in Closers : d # c => order'[d] = order[d]
    BY <1>2, <1>14, <2>3 DEF FillCloses, Orders
  <2>5. InHand(c)' \in Nat /\ InHand(c)' <= row.qty /\ InHand(c) = order[c].fill
    BY <2>2, <2>3, <2>4 DEF InHand, Unbooked
  <2>6. Accounts
    BY <1>2, <2>2, <2>3, <2>5
  <2>7. there \in CloserPcs
    BY DEF CloserPcs
  <2>8. exch' \in 0..Qty /\ booked' \in Nat
    BY <1>2, <2>2
  <2> QED BY <1>2, <1>5, <2>1, <2>2, <2>4, <2>5, <2>6, <2>7, <2>8
<1>15. CASE FillReduces(c)
  <2>1. Rest
    BY <1>2, <1>15 DEF FillReduces, memory
  <2>2. [row EXCEPT !.qty = @ - order[c].fill] \in Rows
    BY <1>2, <1>15 DEF FillReduces, Rows
  <2> QED BY <1>6, <1>15, <2>1, <2>2 DEF FillReduces, CloserPcs, Unbooked, At
<1>16. CASE PromoteRead(c)
  <2>1. Rest
    BY <1>2, <1>16 DEF PromoteRead
  <2>2. [row EXCEPT !.state = "open"] \in Rows
    BY <1>2 DEF Rows, States
  <2>3. \E there \in {"promoted", "terminal"} : \E e \in Rows :
          Goto(c, there, e) \/ Escalated(c, there, e)
    BY <1>16, <2>2 DEF PromoteRead
  <2> QED BY <1>6, <1>16, <2>1, <2>3 DEF PromoteRead, CloserPcs, Unbooked, At
<1>17. CASE PromoteSave(c)
  <2>1. Rest
    BY <1>2, <1>17 DEF PromoteSave, TransitionSave, OnTransition
  <2> QED BY <1>2, <1>6, <1>17, <2>1 DEF PromoteSave, TransitionSave, CloserPcs, Unbooked, At
<1>18. CASE ZeroAndSave(c)
  <2>1. Rest
    <3>1. 0 \in 0..Qty /\ [ent[c] EXCEPT !.qty = 0] \in Rows
      BY <1>2 DEF Rows
    <3> QED BY <1>2, <1>18, <3>1 DEF ZeroAndSave
  <2> QED BY <1>6, <1>18, <2>1 DEF ZeroAndSave, CloserPcs, Unbooked, At
<1>19. CASE BookAndRead(c)
  <2>1. Rest
    BY <1>2, <1>19 DEF BookAndRead
  <2>2. [row EXCEPT !.state = "closing"] \in Rows
    BY <1>2 DEF Rows, States
  <2>3. PICK there \in {"closingSave", "idle"} : \E e \in Rows : Goto(c, there, e)
    BY <1>19, <2>2 DEF BookAndRead
  <2>4. there \in CloserPcs \ Unbooked
    BY DEF CloserPcs, Unbooked
  <2>5. booked' = booked + order[c].fill /\ InHand(c) = order[c].fill /\ exch' = exch
    BY <1>19 DEF BookAndRead, At, InHand, Unbooked
  <2>6. order' \in [Closers -> Orders] /\ \A d \in Closers : d # c => order'[d] = order[d]
    BY <1>2, <1>19 DEF BookAndRead
  <2>7. booked' \in Nat /\ booked' <= booked + InHand(c)
    BY <1>2, <2>5
  <2> QED BY <1>7, <2>1, <2>3, <2>4, <2>5, <2>6, <2>7
<1>20. CASE ClosingSave(c)
  <2>1. Rest
    BY <1>2, <1>20 DEF ClosingSave, TransitionSave, OnTransition
  <2> QED BY <1>6, <1>20, <2>1 DEF ClosingSave, TransitionSave, CloserPcs, Unbooked
<1>21. CASE FinalizeRead(c)
  <2>1. Rest
    BY <1>2, <1>21 DEF FinalizeRead
  <2>2. [row EXCEPT !.state = "closed"] \in Rows
    BY <1>2 DEF Rows, States
  <2>3. PICK there \in {"closedSave", "idle"} : \E e \in Rows : Goto(c, there, e)
    BY <1>21, <2>2 DEF FinalizeRead
  <2>4. there \in CloserPcs \ Unbooked
    BY DEF CloserPcs, Unbooked
  <2>5. order' \in [Closers -> Orders] /\ \A d \in Closers : d # c => order'[d] = order[d]
    BY <1>2, <1>21 DEF FinalizeRead
  <2>6. exch' = exch /\ booked' \in Nat /\ booked' <= booked + InHand(c)
    BY <1>2, <1>4, <1>21 DEF FinalizeRead
  <2> QED BY <1>7, <2>1, <2>3, <2>4, <2>5, <2>6
<1>22. CASE FinalizeSave(c)
  <2>1. Rest
    BY <1>2, <1>22 DEF FinalizeSave, OnTransition
  <2> QED BY <1>6, <1>22, <2>1 DEF FinalizeSave, CloserPcs, Unbooked
<1>23. CASE ReduceRead(c)
  <2>1. Rest
    BY <1>2, <1>23 DEF ReduceRead, memory
  <2>2. [row EXCEPT !.qty = ent[c].qty] \in Rows
    BY <1>2 DEF Rows
  <2> QED BY <1>6, <1>23, <2>1, <2>2 DEF ReduceRead, CloserPcs, Unbooked, At
<1>24. CASE ReduceSave(c)
  <2>1. Rest /\ exch' = exch /\ Goto(c, "terminal", NoEntity)
    BY <1>2, <1>24 DEF ReduceSave, memory
  <2>2. booked' = booked + order[c].fill /\ InHand(c) = order[c].fill
    BY <1>24 DEF ReduceSave, At, InHand, Unbooked
  <2>3. order' \in [Closers -> Orders] /\ \A d \in Closers : d # c => order'[d] = order[d]
    BY <1>2, <1>24 DEF ReduceSave
  <2>4. booked' \in Nat /\ booked' <= booked + InHand(c)
    BY <1>2, <2>2
  <2>5. "terminal" \in CloserPcs \ Unbooked
    BY DEF CloserPcs, Unbooked
  <2> QED BY <1>7, <2>1, <2>3, <2>4, <2>5
<1>25. CASE Terminal(c)
  <2>1. Rest /\ exch' = exch /\ booked' = booked
        /\ (Goto(c, "idle", NoEntity) \/ Escalated(c, "idle", NoEntity))
    BY <1>2, <1>25 DEF Terminal, memory
  <2>2. order' \in [Closers -> Orders] /\ \A d \in Closers : d # c => order'[d] = order[d]
    BY <1>2, <1>25 DEF Terminal
  <2>3. booked' \in Nat /\ booked' <= booked + InHand(c)
    BY <1>2, <1>4, <2>1
  <2>4. "idle" \in CloserPcs \ Unbooked
    BY DEF CloserPcs, Unbooked
  <2> QED BY <1>7, <2>1, <2>2, <2>3, <2>4
<1> QED BY <1>8, <1>9, <1>10, <1>11, <1>12, <1>13, <1>14, <1>15, <1>16, <1>17, <1>18, <1>19,
           <1>20, <1>21, <1>22, <1>23, <1>24, <1>25 DEF Close

\* One position's transactions never add up to more than its entry, however the
\* close producers, the reconciliation pass and the exchange interleave, and
\* every save writes a row whose quantity is within the entry.
THEOREM LifecycleTyped == Spec => [](TypeOK /\ NothingBookedTwice)
<1> USE NoEntityTyped
<1>1. Init => BookInv
  <2> SUFFICES ASSUME Init PROVE BookInv
    OBVIOUS
  <2>1. PICK pass \in {"idle", "snapped"} :
          pc = [p \in Procs |-> CASE p = "entry" /\ Entering -> "created"
                                  [] p = "recon" -> pass
                                  [] OTHER -> "idle"]
    BY DEF Init
  <2>2. {"idle", "snapped", "created"} \subseteq Pcs
    BY DEF Pcs, EntryPcs, ReconPcs
  <2>3. pc \in [Procs -> Pcs] /\ \A c \in Closers : pc[c] = "idle"
    BY <2>1, <2>2, ClosersApart
  <2>4. ent \in [Procs -> Rows] /\ row \in Rows
    BY DEF Init, Rows, States
  <2>5. order \in [Closers -> Orders]
    BY DEF Init, Orders, NoOrder
  <2>6. armed \in BOOLEAN /\ indexed \in BOOLEAN /\ slot \in BOOLEAN /\ closing \in BOOLEAN
    BY ModeAssumption DEF Init
  <2>7. TypeOK
    BY <2>3, <2>4, <2>5, <2>6 DEF Init, TypeOK, Pcs
  <2>8. \A k \in CloserKinds : InHand(k) = 0
    BY <2>3 DEF InHand, Unbooked
  <2>9. FillsInHand = 0
    BY <2>8 DEF FillsInHand, CloserKinds
  <2> QED BY <2>7, <2>9 DEF BookInv, NothingBookedTwice, Init
<1>2. BookInv /\ [Next]_vars => BookInv'
  <2> SUFFICES ASSUME BookInv, [Next]_vars PROVE BookInv'
    OBVIOUS
  <2>1. TypeOK /\ PcType
    BY DEF BookInv, TypeOK, PcType, Pcs
  <2>2. CASE \/ AcceptFill \/ SaveAttachResult \/ OpenRead \/ OpenSave \/ RebuildIndex
             \/ (\E u \in Unknowns : Unknown(u)) \/ Recon \/ Sweeper
    <3>1. TypeOK' /\ order' = order /\ booked' = booked /\ exch' = exch
      BY <2>1, <2>2, OthersTyped
    <3>2. FillsInHand' = FillsInHand
      BY <2>1, <2>2, <3>1, OthersMoveNoCloser, InHandSame
    <3> QED BY <3>1, <3>2 DEF BookInv, NothingBookedTwice
  <2>3. CASE RejectFill
    <3>1. pc' \in [Procs -> Pcs] /\ \A c \in Closers : pc'[c] = pc[c] \/ (c = "unwind" /\ pc[c] = "idle" /\ pc'[c] = "held")
      BY <2>1, <2>3, ClosersApart DEF RejectFill, PcType, Pcs, CloserPcs
    <3>2. TypeOK'
      BY <2>1, <2>3, <3>1 DEF RejectFill, TypeOK, Pcs
    <3>3. \A k \in CloserKinds : InHand(k)' = InHand(k)
      BY <2>3, <3>1 DEF RejectFill, InHand, Unbooked
    <3>4. FillsInHand' = FillsInHand
      BY <3>3 DEF FillsInHand, CloserKinds
    <3> QED BY <2>3, <3>2, <3>4 DEF RejectFill, BookInv, NothingBookedTwice
  <2>4. CASE \E c \in Closers : Close(c)
    BY <2>4, ClosersBook
  <2>5. CASE NotACandidate
    <3>1. "timestop" \in Closers
      BY <2>5, CloserAssumption DEF NotACandidate, At, Procs, Unknowns, UnknownOf, CloserKinds
    <3> QED BY <2>5, <3>1, ClosersBook
  <2>6. CASE ExchangeCloses
    <3>1. TypeOK'
      BY <2>1, <2>6 DEF ExchangeCloses, TypeOK, memory
    <3>2. FillsInHand' = FillsInHand
      BY <2>6, InHandSame DEF ExchangeCloses
    <3>3. FillsInHand \in Int /\ exch' = 0 /\ booked' = booked /\ exch \in 0..Qty /\ booked \in 0..Qty
      <4>1. \A k \in CloserKinds : InHand(k) \in Nat
        BY <2>1 DEF TypeOK, InHand, Orders
      <4>2. FillsInHand \in Int
        BY <4>1 DEF FillsInHand, CloserKinds
      <4> QED BY <2>1, <2>6, <4>2 DEF ExchangeCloses, TypeOK
    <3> QED BY <3>1, <3>2, <3>3 DEF BookInv, NothingBookedTwice
  <2>7. CASE UNCHANGED vars
    <3>1. TypeOK' /\ FillsInHand' = FillsInHand
      BY <2>1, <2>7, InHandSame DEF vars, memory, TypeOK
    <3> QED BY <2>7, <3>1 DEF vars, BookInv, NothingBookedTwice
  <2> QED BY <2>2, <2>3, <2>4, <2>5, <2>6, <2>7 DEF Next, Entry
<1>3. BookInv => TypeOK /\ NothingBookedTwice
  BY DEF BookInv
<1> QED BY <1>1, <1>2, <1>3, PTL DEF Spec
-----------------------------------------------------------------------------
\* Every close order that fills takes the position off in one fill.
WholeFills == Qty = 1 \/ "partial" \notin Faults

\* The strengthening of ClosedMeansFlat.  As long as the exchange holds the
\* position it holds all of it, no close handler is past its submit, the
\* reconciliation pass has seen all of it, the sweep has nothing to do, and
\* whoever is about to save the row saves it whole, OPEN or RECONCILING.
Survives ==
    exch # 0 =>
      /\ exch = Qty
      /\ row.state \in {"open", "reconciling"} /\ row.qty = Qty
      /\ \A c \in Closers : /\ pc[c] \in {"idle", "held", "submitting", "terminal"}
                            /\ pc[c] = "submitting" => order[c].want = Qty
      /\ pc["recon"] \in {"idle", "snapped", "unknownIntent", "openSave"}
      /\ pc["recon"] # "idle" => seen.qty = Qty
      /\ pc["recon"] = "openSave" => ent["recon"] = [state |-> "open", qty |-> Qty]
      /\ pc["sweep"] = "idle"
      /\ \A u \in Unknowns :
           pc[u] = "reconcilingSave" => ent[u] = [state |-> "reconciling", qty |-> Qty]

HeldWhole == pc["entry"] = "idle" /\ Survives

\* The names of the handlers, apart.
LEMMA HandlersApart ==
    /\ {"entry", "recon", "sweep"} \cap (Closers \cup Unknowns) = {}
    /\ Closers \cap Unknowns = {} /\ \A c \in Closers : UnknownOf[c] \in Unknowns
    /\ Procs = Closers \cup Unknowns \cup {"entry", "recon", "sweep"}
BY CloserAssumption DEF Procs, Unknowns, UnknownOf, CloserKinds

\* A row is a state and a quantity.
LEMMA RowIs ==
    ASSUME NEW r \in Rows, r.qty = Qty, NEW to
    PROVE  [r EXCEPT !.state = to] = [state |-> to, qty |-> Qty]
BY DEF Rows

\* A producer's step.  Its fill, if there is one, leaves the exchange flat.
LEMMA ClosersHoldWhole ==
    ASSUME TypeOK, TypeOK', HeldWhole, Undisturbed, WholeFills,
           NEW c \in Closers, Close(c) \/ (NotACandidate /\ c = "timestop")
    PROVE  HeldWhole'
<1> USE HandlersApart, QtyAssumption
<1>1. /\ pc \in [Procs -> Pcs] /\ c \in Procs /\ exch \in 0..Qty /\ ent \in [Procs -> Rows]
      /\ order \in [Closers -> Orders] /\ order[c].want \in 0..Qty
  BY DEF TypeOK, Pcs, Orders
\* The places of the others, with the exchange held.
<1>2. ASSUME NEW there, NEW e, Goto(c, there, e) \/ Escalated(c, there, e)
      PROVE  /\ pc'[c] = there
             /\ \A p \in Procs \ {c} : p \notin Unknowns => pc'[p] = pc[p]
             /\ \A u \in Unknowns : pc'[u] = "reconcilingSave" => pc[u] = "reconcilingSave"
             /\ \A p \in Procs \ {c} : ent'[p] = ent[p]
  <2>1. CASE Goto(c, there, e)
    BY <1>1, <2>1 DEF Goto
  <2>2. CASE Escalated(c, there, e)
    BY <1>1, <2>2 DEF Escalated
  <2> QED BY <1>2, <2>1, <2>2
<1>3. ASSUME NEW there \in {"idle", "held", "submitting", "terminal"}, NEW e,
             Goto(c, there, e) \/ Escalated(c, there, e), row' = row, exch' = exch, seen' = seen,
             \A d \in Closers : d # c => order'[d] = order[d],
             exch # 0 /\ there = "submitting" => order'[c].want = Qty
      PROVE  HeldWhole'
  <2>1. /\ pc'[c] = there
        /\ \A p \in Procs \ {c} : p \notin Unknowns => pc'[p] = pc[p]
        /\ \A u \in Unknowns : pc'[u] = "reconcilingSave" => pc[u] = "reconcilingSave"
        /\ \A p \in Procs \ {c} : ent'[p] = ent[p]
    BY <1>2, <1>3
  <2>2. pc'["entry"] = pc["entry"]
    BY <2>1
  <2>3. pc'["recon"] = pc["recon"] /\ ent'["recon"] = ent["recon"] /\ pc'["sweep"] = pc["sweep"]
    BY <2>1
  <2>4. \A u \in Unknowns : ent'[u] = ent[u]
    BY <2>1
  <2>5. ASSUME exch # 0 PROVE \A d \in Closers :
                         /\ pc'[d] \in {"idle", "held", "submitting", "terminal"}
                         /\ pc'[d] = "submitting" => order'[d].want = Qty
    BY <1>3, <2>1, <2>5 DEF HeldWhole, Survives
  <2> QED BY <1>3, <2>1, <2>2, <2>3, <2>4, <2>5 DEF HeldWhole, Survives
\* A step that the exchange's holding rules out.
<1>4. ASSUME pc[c] \notin {"idle", "held", "submitting", "terminal"}, exch' = exch,
             \E there : \E e : Goto(c, there, e) \/ Escalated(c, there, e)
      PROVE  HeldWhole'
  <2>1. exch' = 0
    BY <1>4 DEF HeldWhole, Survives
  <2>2. pc'["entry"] = pc["entry"]
    BY <1>2, <1>4
  <2> QED BY <2>1, <2>2 DEF HeldWhole, Survives
<1>5. CASE Acquire(c) \/ ProducerThrows(c) \/ (NotACandidate /\ c = "timestop")
  BY <1>3, <1>5 DEF Acquire, ProducerThrows, NotACandidate
<1>6. CASE EmitClose(c)
  <2>1. exch # 0 => order'[c].want = Qty
    <3> SUFFICES ASSUME exch # 0 PROVE order'[c].want = Qty
      OBVIOUS
    <3>1. row.qty = Qty
      BY DEF HeldWhole, Survives
    <3>2. order' = [order EXCEPT ![c] = [NoOrder EXCEPT !.want = Qty]]
      BY <1>6, <3>1 DEF EmitClose
    <3> QED BY <1>1, <3>2 DEF NoOrder
  <2>2. \A d \in Closers : d # c => order'[d] = order[d]
    BY <1>1, <1>6 DEF EmitClose
  <2> QED BY <1>3, <1>6, <2>1, <2>2 DEF EmitClose
<1>7. CASE SubmitAnswer(c)
  <2>1. PICK fill \in 0..Least(order[c].want, exch), clean \in BOOLEAN :
          /\ fill = Least(order[c].want, exch) \/ "partial" \in Faults
          /\ exch' = exch - fill
          /\ order' = [order EXCEPT ![c].fill = fill, ![c].clean = clean]
          /\ Goto(c, IF fill > 0 THEN "applying" ELSE "terminal", NoEntity)
    BY <1>7 DEF SubmitAnswer
  <2>2. row' = row /\ seen' = seen /\ pc[c] = "submitting"
    BY <1>7 DEF SubmitAnswer, At
  <2>3. CASE fill = 0
    <3>1. \A d \in Closers : d # c => order'[d] = order[d]
      BY <1>1, <2>1
    <3>2. exch' = exch /\ Goto(c, "terminal", NoEntity)
      BY <1>1, <2>1, <2>3
    <3> QED BY <1>3, <2>2, <3>1, <3>2
  <2>4. CASE fill # 0
    <3>1. exch # 0 /\ fill <= exch /\ fill > 0
      BY <1>1, <2>1, <2>4 DEF Least
    <3>2. exch = Qty /\ order[c].want = Qty
      BY <2>2, <3>1 DEF HeldWhole, Survives
    <3>3. fill = Qty
      BY <1>1, <2>1, <2>4, <3>1, <3>2 DEF WholeFills, Least
    <3>4. exch' = 0
      BY <2>1, <3>2, <3>3
    <3>5. pc'["entry"] = pc["entry"]
      BY <1>2, <2>1
    <3> QED BY <3>4, <3>5 DEF HeldWhole, Survives
  <2> QED BY <2>3, <2>4
<1>8. CASE FillNoRow(c) \/ FillFlatRow(c) \/ FillReduces(c)
  BY <1>4, <1>8 DEF FillNoRow, FillFlatRow, FillReduces, At
<1>9. CASE FillCloses(c)
  <2>1. \E there : \E e : Goto(c, there, e) \/ Escalated(c, there, e)
    BY <1>9 DEF FillCloses
  <2> QED BY <1>4, <1>9, <2>1 DEF FillCloses, At
<1>10. CASE PromoteRead(c)
  <2>1. \E there : \E e : Goto(c, there, e) \/ Escalated(c, there, e)
    BY <1>10 DEF PromoteRead
  <2> QED BY <1>4, <1>10, <2>1 DEF PromoteRead, At
<1>11. CASE PromoteSave(c) \/ ClosingSave(c)
  BY <1>4, <1>11 DEF PromoteSave, ClosingSave, TransitionSave, At
<1>12. CASE ZeroAndSave(c) \/ FinalizeSave(c) \/ ReduceRead(c) \/ ReduceSave(c)
  BY <1>4, <1>12 DEF ZeroAndSave, FinalizeSave, ReduceRead, ReduceSave, At
<1>13. CASE BookAndRead(c) \/ FinalizeRead(c)
  <2>1. \E there : \E e : Goto(c, there, e) \/ Escalated(c, there, e)
    BY <1>13 DEF BookAndRead, FinalizeRead
  <2> QED BY <1>4, <1>13, <2>1 DEF BookAndRead, FinalizeRead, At
<1>14. CASE Terminal(c)
  <2>1. Goto(c, "idle", NoEntity) \/ Escalated(c, "idle", NoEntity)
    BY <1>14 DEF Terminal
  <2>2. \A d \in Closers : d # c => order'[d] = order[d]
    BY <1>1, <1>14 DEF Terminal
  <2> QED BY <1>3, <1>14, <2>1, <2>2 DEF Terminal
<1> QED BY <1>5, <1>6, <1>7, <1>8, <1>9, <1>10, <1>11, <1>12, <1>13, <1>14 DEF Close

\* The other handlers, while the exchange holds the position: the listener and
\* the pass's case (f) save the row whole; nothing else of them is enabled.
LEMMA OthersHoldWhole ==
    ASSUME TypeOK, HeldWhole, Undisturbed, "fetchFails" \notin Faults,
           \/ \E u \in Unknowns : Unknown(u)
           \/ Recon \/ Sweeper \/ ExchangeCloses
    PROVE  HeldWhole'
<1> USE HandlersApart, QtyAssumption
<1>1. /\ pc \in [Procs -> Pcs] /\ ent \in [Procs -> Rows] /\ row \in Rows /\ exch \in 0..Qty
      /\ seen \in Rows
  BY DEF TypeOK, Pcs
<1>2. ASSUME NEW p \in Procs, NEW there, NEW e, Goto(p, there, e)
      PROVE  /\ pc'[p] = there /\ ent'[p] = e
             /\ \A q \in Procs \ {p} : pc'[q] = pc[q] /\ ent'[q] = ent[q]
  BY <1>1, <1>2 DEF Goto
<1>3. ASSUME NEW p \in Procs \ {"entry"}, exch' = exch, exch = 0, \E there : \E e : Goto(p, there, e)
      PROVE  HeldWhole'
  <2>1. pc'["entry"] = pc["entry"]
    BY <1>2, <1>3
  <2> QED BY <1>3, <2>1 DEF HeldWhole, Survives
<1>4. ASSUME NEW p, NEW to, NEW there, TransitionRead(p, to, there, "idle")
      PROVE  exch' = exch /\ \E h : \E e : Goto(p, h, e)
  BY <1>4 DEF TransitionRead
<1>5. CASE exch = 0
  <2>1. ASSUME NEW u \in Unknowns, Unknown(u) PROVE HeldWhole'
    BY <1>3, <1>4, <1>5, <2>1 DEF Unknown, UnknownCheck, UnknownRead, UnknownSave, TransitionSave
  <2>2. CASE Recon
    <3>1. exch' = exch /\ \E h : \E e : Goto("recon", h, e)
      <4>1. CASE Snapshot \/ LoadRow \/ AdjustRead \/ AdjustSave \/ PassOver
        BY <4>1 DEF Snapshot, LoadRow, AdjustRead, AdjustSave, PassOver
      <4>2. CASE LeadRead
        BY <1>4, <4>2 DEF LeadRead
      <4>3. CASE LeadSave \/ MissingRead \/ MissingSave \/ SurvivedRead \/ SurvivedSave
        BY <1>4, <4>3 DEF LeadSave, MissingRead, MissingSave, SurvivedRead, SurvivedSave, TransitionSave
      <4> QED BY <2>2, <4>1, <4>2, <4>3 DEF Recon
    <3> QED BY <1>3, <1>5, <3>1
  <2>3. CASE Sweeper
    <3>1. exch' = exch /\ \E h : \E e : Goto("sweep", h, e)
      BY <1>4, <2>3 DEF Sweeper, Sweep, OrphanRead, OrphanSave, ParkedRead, ParkedSave, TransitionSave
    <3> QED BY <1>3, <1>5, <3>1
  <2>4. ~ExchangeCloses
    BY <1>5 DEF ExchangeCloses
  <2> QED BY <2>1, <2>2, <2>3, <2>4
<1>6. CASE exch # 0
  <2>1. /\ exch = Qty /\ row.state \in {"open", "reconciling"} /\ row.qty = Qty
        /\ pc["recon"] \in {"idle", "snapped", "unknownIntent", "openSave"}
        /\ pc["recon"] # "idle" => seen.qty = Qty
        /\ pc["recon"] = "openSave" => ent["recon"] = [state |-> "open", qty |-> Qty]
        /\ pc["sweep"] = "idle" /\ pc["entry"] = "idle"
        /\ \A c \in Closers : /\ pc[c] \in {"idle", "held", "submitting", "terminal"}
                              /\ pc[c] = "submitting" => order[c].want = Qty
        /\ \A u \in Unknowns :
             pc[u] = "reconcilingSave" => ent[u] = [state |-> "reconciling", qty |-> Qty]
    BY <1>6 DEF HeldWhole, Survives
  \* What a step of a listener, or of the pass, has to keep.
  <2>2. ASSUME NEW u \in Unknowns, NEW there, NEW e, Goto(u, there, e), order' = order, seen' = seen,
               row'.state \in {"open", "reconciling"}, row'.qty = Qty, exch' = exch,
               there = "reconcilingSave" => e = [state |-> "reconciling", qty |-> Qty]
        PROVE  HeldWhole'
    <3>1. /\ pc'[u] = there /\ ent'[u] = e
          /\ \A q \in Procs \ {u} : pc'[q] = pc[q] /\ ent'[q] = ent[q]
      BY <1>2, <2>2
    <3>2. /\ pc'["recon"] = pc["recon"] /\ ent'["recon"] = ent["recon"]
          /\ pc'["sweep"] = pc["sweep"] /\ pc'["entry"] = pc["entry"]
          /\ \A c \in Closers : pc'[c] = pc[c]
      BY <3>1
    <3>3. \A v \in Unknowns :
            pc'[v] = "reconcilingSave" => ent'[v] = [state |-> "reconciling", qty |-> Qty]
      BY <2>1, <2>2, <3>1
    <3> QED BY <2>1, <2>2, <3>2, <3>3 DEF HeldWhole, Survives
  <2>3. ASSUME NEW there \in {"idle", "snapped", "unknownIntent", "openSave"}, NEW e,
               Goto("recon", there, e), order' = order, exch' = exch,
               row'.state \in {"open", "reconciling"}, row'.qty = Qty,
               there # "idle" => seen'.qty = Qty,
               there = "openSave" => e = [state |-> "open", qty |-> Qty]
        PROVE  HeldWhole'
    <3>1. /\ pc'["recon"] = there /\ ent'["recon"] = e
          /\ \A q \in Procs \ {"recon"} : pc'[q] = pc[q] /\ ent'[q] = ent[q]
      BY <1>2, <2>3
    <3>2. /\ pc'["sweep"] = pc["sweep"] /\ pc'["entry"] = pc["entry"]
          /\ \A c \in Closers : pc'[c] = pc[c]
          /\ \A u \in Unknowns : pc'[u] = pc[u] /\ ent'[u] = ent[u]
      BY <3>1
    <3> QED BY <2>1, <2>3, <3>1, <3>2 DEF HeldWhole, Survives
  <2>4. ASSUME NEW u \in Unknowns, Unknown(u) PROVE HeldWhole'
    <3>1. CASE UnknownCheck(u)
      <4>1. \E there \in {"idle", "checked"} : Goto(u, there, NoEntity)
        BY <3>1 DEF UnknownCheck
      <4> QED BY <2>1, <2>2, <3>1, <4>1 DEF UnknownCheck
    <3>2. CASE UnknownRead(u)
      <4>1. [row EXCEPT !.state = "reconciling"] = [state |-> "reconciling", qty |-> Qty]
        BY <1>1, <2>1, RowIs
      <4>2. \/ Goto(u, "reconcilingSave", [state |-> "reconciling", qty |-> Qty])
            \/ Goto(u, "idle", NoEntity)
        BY <3>2, <4>1 DEF UnknownRead, TransitionRead
      <4>3. UNCHANGED <<row, exch, order, seen>>
        BY <3>2 DEF UnknownRead, TransitionRead
      <4> QED BY <2>1, <2>2, <4>2, <4>3
    <3>3. CASE UnknownSave(u)
      <4>1. row' = [state |-> "reconciling", qty |-> Qty] /\ Goto(u, "idle", NoEntity)
            /\ UNCHANGED <<exch, order, seen>>
        BY <2>1, <3>3 DEF UnknownSave, TransitionSave, At
      <4> QED BY <2>2, <4>1
    <3> QED BY <2>4, <3>1, <3>2, <3>3 DEF Unknown
  <2>5. CASE Recon
    <3>1. CASE Snapshot
      <4>1. seen' = [NoEntity EXCEPT !.qty = Qty]
        BY <2>1, <3>1 DEF Snapshot
      <4>2. seen'.qty = Qty
        BY <4>1 DEF NoEntity
      <4> QED BY <2>1, <2>3, <3>1, <4>2 DEF Snapshot
    <3>2. CASE LoadRow
      <4>1. pc["recon"] = "snapped" /\ seen.qty = Qty
        BY <2>1, <3>2 DEF LoadRow, At
      <4>2. Goto("recon", "unknownIntent", NoEntity)
        BY <2>1, <3>2, <4>1 DEF LoadRow
      <4>3. seen'.qty = Qty
        BY <1>1, <3>2, <4>1 DEF LoadRow, Rows
      <4> QED BY <2>1, <2>3, <3>2, <4>2, <4>3 DEF LoadRow
    <3>3. CASE SurvivedRead
      <4>1. [row EXCEPT !.state = "open"] = [state |-> "open", qty |-> Qty]
        BY <1>1, <2>1, RowIs
      <4>2. \/ Goto("recon", "openSave", [state |-> "open", qty |-> Qty])
            \/ Goto("recon", "idle", NoEntity)
        BY <3>3, <4>1 DEF SurvivedRead, TransitionRead
      <4>3. UNCHANGED <<row, exch, order, seen>> /\ seen.qty = Qty
        BY <2>1, <3>3 DEF SurvivedRead, TransitionRead, At
      <4> QED BY <2>1, <2>3, <4>2, <4>3
    <3>4. CASE PassOver
      BY <2>1, <2>3, <3>4 DEF PassOver
    <3>5. CASE SurvivedSave
      <4>1. row' = [state |-> "open", qty |-> Qty] /\ Goto("recon", "idle", NoEntity)
            /\ UNCHANGED <<exch, order>>
        BY <2>1, <3>5 DEF SurvivedSave, TransitionSave, At
      <4> QED BY <2>3, <4>1
    <3>6. ~LeadRead /\ ~LeadSave /\ ~MissingRead /\ ~MissingSave /\ ~AdjustRead /\ ~AdjustSave
      BY <2>1 DEF LeadRead, LeadSave, MissingRead, MissingSave, AdjustRead, AdjustSave, At
    <3> QED BY <2>5, <3>1, <3>2, <3>3, <3>4, <3>5, <3>6 DEF Recon
  <2>6. ~Sweeper
    BY <2>1 DEF Sweeper, Sweep, OrphanRead, OrphanSave, ParkedRead, ParkedSave, At, Undisturbed
  <2>7. CASE ExchangeCloses
    BY <2>1, <2>7 DEF ExchangeCloses, HeldWhole, Survives
  <2> QED BY <2>4, <2>5, <2>6, <2>7
<1> QED BY <1>5, <1>6

\* A live row is CLOSED only when the exchange holds nothing: no stale snapshot,
\* no save of an old entity and no race of the close producers with the pass
\* ends a position the exchange still has, when close orders fill whole and
\* fetchPositions answers.
THEOREM ClosedRowsAreFlat ==
    ASSUME Undisturbed, WholeFills, "fetchFails" \notin Faults
    PROVE  Spec => []ClosedMeansFlat
<1>1. Init => HeldWhole
  <2> SUFFICES ASSUME Init PROVE HeldWhole
    OBVIOUS
  <2>1. pc = [p \in Procs |-> "idle"]
    BY DEF Init, Undisturbed
  <2> QED BY <2>1, HandlersApart DEF Init, Undisturbed, HeldWhole, Survives
<1>2. TypeOK /\ TypeOK' /\ HeldWhole /\ [Next]_vars => HeldWhole'
  <2> SUFFICES ASSUME TypeOK, TypeOK', HeldWhole, [Next]_vars PROVE HeldWhole'
    OBVIOUS
  <2>1. ~Entry
    BY DEF HeldWhole, Entry, AcceptFill, RejectFill, SaveAttachResult, OpenRead, OpenSave,
           RebuildIndex, At
  <2>2. CASE \E c \in Closers : Close(c)
    BY <2>2, ClosersHoldWhole
  <2>3. CASE NotACandidate
    <3>1. "timestop" \in Closers
      BY <2>3, CloserAssumption DEF NotACandidate, At, Procs, Unknowns, UnknownOf, CloserKinds
    <3> QED BY <2>3, <3>1, ClosersHoldWhole
  <2>4. CASE UNCHANGED vars
    BY <2>4 DEF vars, HeldWhole, Survives
  <2> QED BY <2>1, <2>2, <2>3, <2>4, OthersHoldWhole DEF Next
<1>3. HeldWhole => ClosedMeansFlat
  BY DEF HeldWhole, Survives, ClosedMeansFlat
<1>4. Spec => []TypeOK
  BY LifecycleTyped, PTL
<1> QED BY <1>1, <1>2, <1>3, <1>4, PTL DEF Spec
=============================================================================
