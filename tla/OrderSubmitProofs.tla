------------------------- MODULE OrderSubmitProofs -------------------------
(***************************************************************************)
(* Proofs about OrderSubmit, for every quantity, budget and policy set:    *)
(* type correctness; that an entry is neither doubled nor lost as long as  *)
(* the exchange's errors mean what the code takes them to mean; that a     *)
(* reduce reported clean is complete; that a halt stops taker entries.     *)
(***************************************************************************)
EXTENDS OrderSubmit, TLAPS

USE DEF Attempts

\* A fill summary is a quantity that fits the order.
LEMMA SummaryType ==
    ASSUME TypeOK, NEW f \in Summary(attempt)
    PROVE  f \in 0..Qty
BY BudgetAssumption DEF TypeOK, Summary

\* The state machine never leaves its types: attempt numbers stay within the
\* two budgets, a remainder stays positive, no order fills beyond its amount.
THEOREM TypeCorrect == Spec => []TypeOK
<1>1. Init => TypeOK
  <2> SUFFICES ASSUME Init PROVE TypeOK
    OBVIOUS
  <2>1. policy \in Policies /\ faults \in FaultSets /\ halted \in BOOLEAN /\ pc \in PcStates
        /\ outcome \in Outcomes
    BY DEF Init, PcStates, Outcomes
  <2>2. /\ loop \in 0..MaxRetry /\ attempt \in Attempts /\ want \in 1..Qty
        /\ probes \in 0..MaxProbes /\ booked \in 0..Qty /\ held \in Nat
    BY BudgetAssumption DEF Init
  <2>3. result \in [state : SubmitStates, fill : 0..Qty]
    BY BudgetAssumption DEF Init, SubmitStates
  <2>4. /\ status \in [Attempts -> OrderStatuses]
        /\ amount \in [Attempts -> 0..Qty]
        /\ filled \in [Attempts -> 0..Qty]
    BY BudgetAssumption DEF Init, OrderStatuses
  <2> QED BY <2>1, <2>2, <2>3, <2>4 DEF TypeOK
<1>2. TypeOK /\ [Next]_vars => TypeOK'
  <2> SUFFICES ASSUME TypeOK, [Next]_vars PROVE TypeOK'
    OBVIOUS
  <2> USE BudgetAssumption
  <2>1. ASSUME NEW s \in SubmitStates, NEW f \in 0..Qty, Finish(s, f),
               UNCHANGED <<policy, faults, halted, exchange>>
        PROVE  TypeOK'
    BY <2>1 DEF TypeOK, Finish, exchange, PcStates
  <2>2. ASSUME NEW n \in Attempts, NEW q \in 1..Qty, Send(n, q),
               UNCHANGED <<policy, faults, halted, loop, result, booked, outcome>>
        PROVE  TypeOK'
    <3>0. q \in 0..Qty /\ "wire" \in OrderStatuses
      BY <2>2 DEF OrderStatuses
    <3>1. /\ status' \in [Attempts -> OrderStatuses]
          /\ amount' \in [Attempts -> 0..Qty]
      <4>1. CASE status[n] \in {"absent", "rejected"}
        BY <2>2, <3>0, <4>1 DEF TypeOK, Send
      <4>2. CASE status[n] \notin {"absent", "rejected"}
        BY <2>2, <4>2 DEF TypeOK, Send
      <4> QED BY <4>1, <4>2
    <3>2. pc' \in PcStates /\ attempt' \in Attempts /\ want' \in 1..Qty
          /\ probes' \in 0..MaxProbes
      BY <2>2 DEF Send, PcStates
    <3> QED BY <2>2, <3>1, <3>2 DEF TypeOK, Send
  <2>3. CASE LoopHead
    <3>1. CASE halted /\ IsOpen
      BY <2>1, <2>3, <3>1 DEF LoopHead, SubmitStates, exchange
    <3>2. CASE ~(halted /\ IsOpen) /\ policy = "maker"
      BY <2>3, <3>2 DEF LoopHead, TypeOK, PcStates, exchange
    <3>3. CASE ~(halted /\ IsOpen) /\ policy # "maker"
      <4>1. loop \in Attempts /\ Qty \in 1..Qty
        BY DEF TypeOK
      <4> QED BY <2>2, <2>3, <3>3, <4>1 DEF LoopHead
    <3> QED BY <3>1, <3>2, <3>3
  <2>4. CASE Peg
    <3>1. loop \in Attempts /\ Qty \in 1..Qty
      BY DEF TypeOK
    <3> QED BY <2>1, <2>2, <2>4, <3>1 DEF Peg, SubmitStates, exchange
  <2>5. CASE Ack
    <3>1. CASE status[attempt] = "open"
      BY <2>5, <3>1 DEF Ack, TypeOK, PcStates, exchange
    <3>2. CASE status[attempt] # "open"
      <4>1. PICK f \in Summary(attempt) :
              IF status[attempt] = "rejected" THEN Finish("ABORTED", 0)
              ELSE Finish(Classified(status[attempt]), f)
        BY <2>5, <3>2 DEF Ack
      <4>2. f \in 0..Qty
        BY SummaryType
      <4>3. status[attempt] = "rejected" \/ Classified(status[attempt]) \in SubmitStates
        BY <2>5, <3>2 DEF Ack, Landed, Classified, SubmitStates
      <4> QED BY <2>1, <2>5, <4>1, <4>2, <4>3 DEF Ack, SubmitStates
    <3> QED BY <3>1, <3>2
  <2>6. CASE SubmitTimeout
    BY <2>6 DEF SubmitTimeout, TypeOK, PcStates, exchange
  <2>7. ASSUME Refused PROVE status' \in [Attempts -> OrderStatuses]
    BY <2>7 DEF Refused, TypeOK, OrderStatuses
  <2>8. CASE RejectRetriable
    <3>0. /\ status' \in [Attempts -> OrderStatuses]
          /\ UNCHANGED <<policy, faults, halted, amount, filled, held>>
      BY <2>7, <2>8 DEF RejectRetriable
    <3>1. CASE loop < MaxRetry
      <4>1. /\ pc' = "loop" /\ loop' = loop + 1
            /\ UNCHANGED <<attempt, want, probes, result, booked, outcome>>
        BY <2>8, <3>1 DEF RejectRetriable
      <4>2. pc' \in PcStates /\ loop' \in 0..MaxRetry
        BY <3>1, <4>1 DEF TypeOK, PcStates
      <4> QED BY <3>0, <4>1, <4>2 DEF TypeOK
    <3>2. CASE ~(loop < MaxRetry)
      <4>1. Finish("RECONCILE_REQUIRED", 0)
        BY <2>8, <3>2 DEF RejectRetriable
      <4> QED BY <3>0, <4>1 DEF TypeOK, PcStates, Finish, SubmitStates
    <3> QED BY <3>1, <3>2
  <2>9. CASE RejectTerminal
    BY <2>7, <2>9 DEF RejectTerminal, TypeOK, PcStates, Finish, SubmitStates
  <2>10. CASE ProbeFinds
    <3>1. CASE status[attempt] = "open"
      BY <2>10, <3>1 DEF ProbeFinds, TypeOK, PcStates, exchange
    <3>2. CASE status[attempt] # "open"
      <4>1. PICK f \in Summary(attempt) : Finish(Classified(status[attempt]), f)
        BY <2>10, <3>2 DEF ProbeFinds
      <4>2. f \in 0..Qty
        BY SummaryType
      <4>3. Classified(status[attempt]) \in SubmitStates
        BY <2>10, <3>2 DEF ProbeFinds, Landed, Classified, SubmitStates
      <4> QED BY <2>1, <2>10, <4>1, <4>2, <4>3 DEF ProbeFinds
    <3> QED BY <3>1, <3>2
  <2>11. CASE ProbeFails
    BY <2>11 DEF ProbeFails, TypeOK, exchange
  <2>12. CASE RecoveryExhausted
    BY <2>1, <2>12 DEF RecoveryExhausted, SubmitStates
  <2>13. CASE PolicyTimeout
    BY <2>13 DEF PolicyTimeout, TypeOK, PcStates, OrderStatuses, exchange
  <2>14. CASE ResolveTerminal
    <3>1. PICK f \in Summary(attempt) : Resolve(f)
      BY <2>14 DEF ResolveTerminal
    <3>2. f \in 0..Qty
      BY SummaryType
    <3>3. CASE IsOpen \/ f = 0 \/ f >= want \/ attempt + 1 >= MaxRemainder
      BY <2>1, <2>14, <3>1, <3>2, <3>3 DEF ResolveTerminal, Resolve, SubmitStates
    <3>4. CASE ~(IsOpen \/ f = 0 \/ f >= want \/ attempt + 1 >= MaxRemainder)
      <4>1. attempt + 1 \in Attempts /\ want - f \in 1..Qty
        BY <3>2, <3>4 DEF TypeOK
      <4> QED BY <2>2, <2>14, <3>1, <3>4, <4>1 DEF ResolveTerminal, Resolve
    <3> QED BY <3>3, <3>4
  <2>15. CASE FetchThrows
    BY <2>15 DEF FetchThrows, TypeOK, PcStates, exchange
  <2>16. CASE Settle
    BY <2>16 DEF Settle, TypeOK, PcStates, exchange, Outcomes, EntryOutcome, ReduceOutcome
  <2>17. CASE ExchangeStep
    <3>1. PICK n \in Attempts : Deliver(n) \/ Fill(n) \/ ExpireIoc(n)
      BY <2>17 DEF ExchangeStep
    <3>2. CASE Deliver(n)
      BY <3>2 DEF Deliver, TypeOK, engine, OrderStatuses
    <3>3. CASE Fill(n)
      BY <3>3 DEF Fill, TypeOK, engine, OrderStatuses
    <3>4. CASE ExpireIoc(n)
      BY <3>4 DEF ExpireIoc, TypeOK, engine, OrderStatuses
    <3> QED BY <3>1, <3>2, <3>3, <3>4
  <2>18. CASE ToggleHalt
    BY <2>18 DEF ToggleHalt, TypeOK, engine, exchange
  <2>19. CASE UNCHANGED vars
    BY <2>19 DEF TypeOK, vars, engine, exchange
  <2> QED BY <2>3, <2>4, <2>5, <2>6, <2>8, <2>9, <2>10, <2>11, <2>12, <2>13,
             <2>14, <2>15, <2>16, <2>17, <2>18, <2>19 DEF Next, HandlerStep
<1> QED BY <1>1, <1>2, PTL DEF Spec
-----------------------------------------------------------------------------
(***************************************************************************)
(* Exactly once.  An error answer means the exchange does not have the     *)
(* order; then a new attempt number is only ever used while no order of    *)
(* the intent exists.                                                      *)
(***************************************************************************)

\* At most the order at hand exists, nothing fills before it is accepted, and
\* the exchange's position is what that order filled.
OneOrder ==
    IsOpen =>
        /\ \A n \in Attempts : n # attempt => status[n] = "absent"
        /\ pc \in {"loop", "pegging"} => \A n \in Attempts : status[n] = "absent"
        /\ \A n \in Attempts :
              status[n] \in {"absent", "wire", "rejected"} => filled[n] = 0
        /\ held = filled[attempt]

\* No step changes the policy of the intent, nor which faults may happen.
LEMMA PolicyFixed == ASSUME [Next]_vars PROVE policy' = policy /\ faults' = faults
  BY DEF Next, HandlerStep, ExchangeStep, LoopHead, Peg, Ack, SubmitTimeout,
         RejectRetriable, RejectTerminal, ProbeFinds, ProbeFails,
         RecoveryExhausted, PolicyTimeout, ResolveTerminal, FetchThrows, Settle,
         Deliver, Fill, ExpireIoc, ToggleHalt, vars

\* Every step of the handler and of the exchange keeps at most one order.
LEMMA OneOrderStep ==
    ASSUME ErrorsAreRefusals, TypeOK, OneOrder, [Next]_vars
    PROVE  OneOrder'
<1> SUFFICES ASSUME IsOpen' PROVE OneOrder'
  BY DEF OneOrder
<1>0. IsOpen
  BY PolicyFixed DEF IsOpen
<1> USE <1>0
<1> USE DEF OneOrder
<1>1. ASSUME NEW s, NEW f, Finish(s, f), UNCHANGED <<policy, faults, halted, exchange>>
      PROVE  OneOrder'
  BY <1>1 DEF Finish, exchange, IsOpen
<1>2. ASSUME NEW n \in Attempts, NEW q, Send(n, q), pc \in {"loop", "pegging"},
             UNCHANGED policy
      PROVE  OneOrder'
  <2>1. \A m \in Attempts : status[m] = "absent" /\ filled[m] = 0
    BY <1>2
  <2>2. /\ attempt' = n /\ filled' = filled /\ held' = held
        /\ status' = [status EXCEPT ![n] = "wire"] /\ pc' = "submitting"
    BY <1>2, <2>1 DEF Send
  <2>3. \A m \in Attempts : m # n => status'[m] = "absent"
    BY <2>1, <2>2 DEF TypeOK
  <2>4. held' = filled'[n]
    BY <2>1, <2>2, <1>2 DEF TypeOK
  <2> QED BY <2>1, <2>2, <2>3, <2>4
<1>3. CASE LoopHead
  <2>1. CASE halted /\ IsOpen
    BY <1>1, <1>3, <2>1 DEF LoopHead, exchange
  <2>2. CASE ~(halted /\ IsOpen) /\ policy = "maker"
    BY <1>3, <2>2 DEF LoopHead, exchange, IsOpen
  <2>3. CASE ~(halted /\ IsOpen) /\ policy # "maker"
    <3>1. loop \in Attempts
      BY BudgetAssumption DEF TypeOK
    <3> QED BY <1>2, <1>3, <2>3, <3>1 DEF LoopHead
  <2> QED BY <2>1, <2>2, <2>3
<1>4. CASE Peg
  <2>1. loop \in Attempts
    BY BudgetAssumption DEF TypeOK
  <2> QED BY <1>1, <1>2, <1>4, <2>1 DEF Peg, exchange
<1>5. CASE Ack
  BY <1>1, <1>5 DEF Ack, exchange, IsOpen
<1>6. CASE SubmitTimeout
  BY <1>6 DEF SubmitTimeout, exchange, IsOpen
<1>7. ASSUME Refused, pc = "submitting",
             UNCHANGED <<policy, faults, attempt, filled, held>>
      PROVE  OneOrder' /\ \A n \in Attempts : status'[n] = "absent"
  <2>1. status' = [status EXCEPT ![attempt] = "absent"] /\ status[attempt] = "wire"
    BY <1>7 DEF Refused, ErrorsAreRefusals
  <2>2. \A n \in Attempts : status'[n] = "absent"
    BY <2>1 DEF TypeOK
  <2>3. \A n \in Attempts : filled[n] = 0
    BY <2>1
  <2> QED BY <1>7, <2>2, <2>3
<1>8. CASE RejectRetriable \/ RejectTerminal
  BY <1>7, <1>8 DEF RejectRetriable, RejectTerminal, Finish
<1>9. CASE ProbeFinds \/ ProbeFails \/ RecoveryExhausted
  BY <1>1, <1>9 DEF ProbeFinds, ProbeFails, RecoveryExhausted, exchange, IsOpen
<1>10. CASE PolicyTimeout
  BY <1>10 DEF PolicyTimeout, exchange, IsOpen, TypeOK
<1>11. CASE ResolveTerminal
  BY <1>1, <1>11 DEF ResolveTerminal, Resolve
<1>12. CASE FetchThrows \/ Settle
  BY <1>12 DEF FetchThrows, Settle, exchange, IsOpen
<1>13. CASE ExchangeStep
  <2>1. PICK n \in Attempts : Deliver(n) \/ Fill(n) \/ ExpireIoc(n)
    BY <1>13 DEF ExchangeStep
  <2>2. n = attempt /\ pc \notin {"loop", "pegging"}
    BY <2>1 DEF Deliver, Fill, ExpireIoc
  <2>3. CASE Deliver(n)
    BY <2>2, <2>3 DEF Deliver, engine, TypeOK
  <2>4. CASE Fill(n)
    BY <2>2, <2>4 DEF Fill, engine, TypeOK
  <2>5. CASE ExpireIoc(n)
    BY <2>2, <2>5 DEF ExpireIoc, engine, TypeOK
  <2> QED BY <2>1, <2>3, <2>4, <2>5
<1>14. CASE ToggleHalt
  BY <1>14 DEF ToggleHalt, engine, exchange, IsOpen
<1>15. CASE UNCHANGED vars
  BY <1>15 DEF vars, engine, exchange, IsOpen
<1> QED BY <1>3, <1>4, <1>5, <1>6, <1>8, <1>9, <1>10, <1>11, <1>12, <1>13,
           <1>14, <1>15 DEF Next, HandlerStep

\* The exchange never holds more of an entry than was asked for, whatever is
\* lost, delayed or retried, provided an error answer means refusal.
THEOREM EntryExactlyOnce == Spec => []RefusedEntryNeverDoubled
<1> DEFINE Inv == ErrorsAreRefusals => OneOrder
<1>1. Init => Inv
  BY BudgetAssumption DEF Init, OneOrder, IsOpen
<1>2. TypeOK /\ Inv /\ [Next]_vars => Inv'
  BY OneOrderStep, PolicyFixed DEF ErrorsAreRefusals
<1>3. TypeOK /\ Inv => RefusedEntryNeverDoubled
  BY BudgetAssumption DEF TypeOK, OneOrder, EntryNeverDoubled, RefusedEntryNeverDoubled
<1> QED BY <1>1, <1>2, <1>3, TypeCorrect, PTL DEF Spec
-----------------------------------------------------------------------------
(***************************************************************************)
(* Accounting.  When cancels reach the exchange and every fill carries its *)
(* price, what the handler decided on can no longer change.                *)
(***************************************************************************)

\* A result is either an escalation without a fill, or the final word of an
\* order that has ended.
Conclusive ==
    \/ result.state = "RECONCILE_REQUIRED" /\ result.fill = 0
    \/ /\ result.state # "RECONCILE_REQUIRED"
       /\ result.fill = filled[attempt]
       /\ status[attempt] \notin {"wire", "open"}

EntryProgress ==
    IsOpen =>
        /\ pc = "resting" => status[attempt] \in {"open", "closed", "canceled"}
        /\ pc \in {"cancelled", "fetching"} => status[attempt] \in {"closed", "canceled"}
        /\ pc \in {"decided", "settled"} => Conclusive
        /\ pc = "settled" => booked = result.fill /\ outcome = EntryOutcome

\* Every step keeps the handler's conclusion true of the exchange.
LEMMA EntryProgressStep ==
    ASSUME Reliable, TypeOK, OneOrder, EntryProgress, [Next]_vars
    PROVE  EntryProgress'
<1> SUFFICES ASSUME IsOpen' PROVE EntryProgress'
  BY DEF EntryProgress
<1>0. IsOpen
  BY PolicyFixed DEF IsOpen
<1> USE <1>0 DEF EntryProgress
<1>1. ASSUME NEW s, NEW f, Finish(s, f), UNCHANGED <<status, filled>>,
             \/ s = "RECONCILE_REQUIRED" /\ f = 0
             \/ /\ s # "RECONCILE_REQUIRED" /\ f = filled[attempt]
                /\ status[attempt] \notin {"wire", "open"}
      PROVE  EntryProgress'
  BY <1>1 DEF Finish, Conclusive
<1>2. ASSUME pc' \in {"loop", "pegging", "submitting", "recovering", "thrown"}
      PROVE  EntryProgress'
  BY <1>2
<1>3. \A f \in Summary(attempt) : f = filled[attempt]
  BY DEF Summary, Reliable
<1>4. CASE LoopHead \/ Peg
  <2>1. pc \in {"loop", "pegging"}
    BY <1>4 DEF LoopHead, Peg
  <2>2. status[attempt] = "absent" /\ filled[attempt] = 0
    BY <2>1 DEF OneOrder, TypeOK
  <2>3. pc' \in {"pegging", "submitting", "recovering"}
        \/ \E s \in {"ABORTED", "CANCELLED"} : Finish(s, 0) /\ UNCHANGED exchange
    BY <1>4 DEF LoopHead, Peg, Send
  <2> QED BY <1>1, <1>2, <2>2, <2>3 DEF exchange
<1>5. CASE Ack
  <2>1. CASE status[attempt] = "open"
    BY <1>5, <2>1 DEF Ack, exchange
  <2>2. CASE status[attempt] # "open"
    <3>1. \/ status[attempt] = "rejected" /\ Finish("ABORTED", 0)
          \/ /\ status[attempt] \in {"closed", "canceled"}
             /\ Finish(Classified(status[attempt]), filled[attempt])
      BY <1>3, <1>5, <2>2 DEF Ack, Landed
    <3>2. status[attempt] = "rejected" => filled[attempt] = 0
      BY DEF OneOrder, TypeOK
    <3>3. status[attempt] \in {"closed", "canceled"} =>
            Classified(status[attempt]) # "RECONCILE_REQUIRED"
      BY DEF Classified
    <3> QED BY <1>1, <1>5, <3>1, <3>2, <3>3 DEF Ack, exchange
  <2> QED BY <2>1, <2>2
<1>6. CASE SubmitTimeout \/ ProbeFails \/ FetchThrows
  BY <1>2, <1>6 DEF SubmitTimeout, ProbeFails, FetchThrows
<1>7. CASE RejectRetriable \/ RejectTerminal
  <2>1. /\ status[attempt] = "wire"
        /\ status' = [status EXCEPT ![attempt] = "absent"]
        /\ filled' = filled
    BY <1>7 DEF RejectRetriable, RejectTerminal, Refused, Reliable, ErrorsAreRefusals
  <2>2. status'[attempt] = "absent" /\ filled[attempt] = 0
    BY <2>1 DEF OneOrder, TypeOK
  <2>3. pc' = "loop" \/ \E s \in {"RECONCILE_REQUIRED", "ABORTED"} : Finish(s, 0)
    BY <1>7 DEF RejectRetriable, RejectTerminal
  <2> QED BY <1>2, <2>1, <2>2, <2>3 DEF Finish, Conclusive
<1>8. CASE ProbeFinds
  <2>1. CASE status[attempt] = "open"
    BY <1>8, <2>1 DEF ProbeFinds, exchange
  <2>2. CASE status[attempt] # "open"
    <3>1. /\ status[attempt] \in {"closed", "canceled", "rejected"}
          /\ Finish(Classified(status[attempt]), filled[attempt])
      BY <1>3, <1>8, <2>2 DEF ProbeFinds, Landed
    <3>2. Classified(status[attempt]) # "RECONCILE_REQUIRED"
      BY <3>1 DEF Classified
    <3> QED BY <1>1, <1>8, <3>1, <3>2 DEF ProbeFinds, exchange
  <2> QED BY <2>1, <2>2
<1>9. CASE RecoveryExhausted
  BY <1>1, <1>9 DEF RecoveryExhausted, exchange
<1>10. CASE PolicyTimeout
  BY <1>10 DEF PolicyTimeout, Reliable, TypeOK, exchange
<1>11. CASE ResolveTerminal
  <2>1. \E s \in {"CANCELLED", "PARTIAL"} : Finish(s, filled[attempt]) /\ UNCHANGED exchange
    BY <1>3, <1>11 DEF ResolveTerminal, Resolve
  <2>2. status[attempt] \notin {"wire", "open"}
    BY <1>11 DEF ResolveTerminal
  <2> QED BY <1>1, <2>1, <2>2 DEF exchange
<1>12. CASE Settle
  BY <1>12 DEF Settle, Conclusive, EntryOutcome, exchange
<1>13. CASE ExchangeStep
  <2>1. PICK n \in Attempts : Deliver(n) \/ Fill(n) \/ ExpireIoc(n)
    BY <1>13 DEF ExchangeStep
  <2>2. n = attempt
    BY <2>1 DEF Deliver, Fill, ExpireIoc, OneOrder
  <2>3. status[n] \in {"wire", "open"}
    BY <2>1 DEF Deliver, Fill, ExpireIoc
  <2>4. pc' = pc /\ result' = result /\ attempt' = attempt /\ booked' = booked
        /\ outcome' = outcome
    BY <2>1 DEF Deliver, Fill, ExpireIoc, engine
  <2>5. pc = "resting" => status'[n] \in {"open", "closed", "canceled"}
    BY <2>1, <2>2 DEF Deliver, Fill, ExpireIoc, TypeOK
  <2> QED BY <2>2, <2>3, <2>4, <2>5 DEF Conclusive, EntryOutcome
<1>14. CASE ToggleHalt \/ UNCHANGED vars
  BY <1>14 DEF ToggleHalt, vars, engine, exchange, Conclusive, EntryOutcome
<1> QED BY <1>4, <1>5, <1>6, <1>7, <1>8, <1>9, <1>10, <1>11, <1>12, <1>13,
           <1>14 DEF Next, HandlerStep

\* On a reliable exchange an entry that does not escalate books exactly what the
\* exchange holds and leaves no order that could still fill.
THEOREM EntriesAccounted == Spec => []EntryAccounted
<1> DEFINE Inv == Reliable => OneOrder /\ EntryProgress
<1>1. Init => Inv
  BY BudgetAssumption DEF Init, OneOrder, EntryProgress, IsOpen
<1>2. TypeOK /\ Inv /\ [Next]_vars => Inv'
  BY OneOrderStep, EntryProgressStep, PolicyFixed DEF Reliable, ErrorsAreRefusals
<1>3. TypeOK /\ Inv => EntryAccounted
  BY DEF TypeOK, OneOrder, EntryProgress, Conclusive, EntryAccounted, EntryOutcome
<1> QED BY <1>1, <1>2, <1>3, TypeCorrect, PTL DEF Spec
-----------------------------------------------------------------------------
(***************************************************************************)
(* Reduces.  An ambiguous error may leave several orders of one reduce at  *)
(* work, and a retry may meet the id of an earlier remainder, so no single *)
(* order bounds what is held.  The argument counts over the attempt        *)
(* numbers: g[n] is what the attempts before n have taken off together.    *)
(* An order is sent for at least what they left, so when it fills nothing  *)
(* is left.                                                                *)
(***************************************************************************)

Last == MaxRetry + MaxRemainder + 1

\* g sums the fills of the attempts before each number, and what all of them
\* took off is what the exchange no longer holds.
TakenOff(g) ==
    /\ g \in [0..Last -> Nat]
    /\ \A n \in Attempts : g[n + 1] = g[n] + filled[n]
    /\ \A k \in 0..Last : g[k] <= g[Last]
    /\ held + g[Last] = Qty

\* Every order was sent for at least what the attempts before it left...
CoversRest(g) ==
    /\ \A n \in Attempts : status[n] \in {"wire", "open", "closed"} => amount[n] + g[n] >= Qty
    /\ pc \in {"submitting", "recovering", "resting", "cancelled", "fetching"} =>
          want + g[attempt] >= Qty

\* ...so that a handler that decided on FILLED finds nothing left.
FilledIsFlat ==
    /\ \A n \in Attempts : status[n] = "closed" => filled[n] = amount[n]
    /\ pc \in {"decided", "settled"} /\ result.state = "FILLED" => held = 0
    /\ pc = "settled" /\ outcome = "filled" => result.state = "FILLED"

ReduceInv == ~IsOpen => FilledIsFlat /\ \E g : TakenOff(g) /\ CoversRest(g)

\* An order that took all the attempts before it left has emptied the position.
LEMMA NothingLeft ==
    ASSUME TypeOK, NEW g, TakenOff(g), NEW n \in Attempts, g[n] + filled[n] >= Qty
    PROVE  held = 0
<1>1. n + 1 \in 0..Last /\ n \in 0..Last /\ Last \in 0..Last
  BY BudgetAssumption DEF Last
<1>2. g[n + 1] = g[n] + filled[n] /\ g[n + 1] <= g[Last] /\ held + g[Last] = Qty
  BY <1>1 DEF TakenOff
<1>3. g[n + 1] \in Nat /\ g[Last] \in Nat /\ held \in Nat /\ Qty \in Nat
  BY <1>1, BudgetAssumption DEF TakenOff, TypeOK
<1> QED BY <1>2, <1>3

\* A step that fills nothing keeps the sums.
LEMMA TakenOffStays ==
    ASSUME NEW g, TakenOff(g), UNCHANGED <<filled, held>>
    PROVE  TakenOff(g)'
  BY DEF TakenOff

\* Sending an order for at least what is left keeps the orders covering.
LEMMA SendCovers ==
    ASSUME TypeOK, NEW g, TakenOff(g), CoversRest(g), FilledIsFlat, ~IsOpen, policy' = policy,
           NEW n \in Attempts, NEW q \in 1..Qty, Send(n, q), q + g[n] >= Qty,
           UNCHANGED <<result, outcome>>
    PROVE  ReduceInv'
<1>1. TakenOff(g)'
  BY TakenOffStays DEF Send
<1>2. CoversRest(g)'
  BY DEF CoversRest, Send, TypeOK
<1>3. FilledIsFlat'
  BY DEF FilledIsFlat, Send, TypeOK
<1> QED BY <1>1, <1>2, <1>3 DEF ReduceInv

\* Every step keeps what a reduce has taken off and what it still covers.
LEMMA ReduceStep ==
    ASSUME TypeOK, ReduceInv, [Next]_vars
    PROVE  ReduceInv'
<1> SUFFICES ASSUME ~IsOpen' PROVE ReduceInv'
  BY DEF ReduceInv
<1>0. ~IsOpen /\ policy' = policy /\ policy = "reduce"
  BY PolicyFixed DEF IsOpen
<1>1. PICK g : TakenOff(g) /\ CoversRest(g)
  BY <1>0 DEF ReduceInv
<1>2. FilledIsFlat
  BY <1>0 DEF ReduceInv
<1>3. /\ g \in [0..Last -> Nat] /\ Qty \in Nat \ {0} /\ want \in 1..Qty
      /\ \A n \in Attempts : n \in 0..Last /\ g[n] \in Nat /\ filled[n] \in 0..Qty
  BY <1>1, BudgetAssumption DEF TakenOff, TypeOK, Last
<1> USE <1>0
<1>4. SUFFICES ASSUME ~(\E n \in Attempts : Fill(n))
               PROVE  ReduceInv'
  <2> SUFFICES ASSUME NEW n \in Attempts, Fill(n) PROVE ReduceInv'
    OBVIOUS
  <2> DEFINE h == [k \in 0..Last |-> IF k > n THEN g[k] + 1 ELSE g[k]]
  <2>0. /\ held > 0 /\ held' = held - 1 /\ held \in Nat
        /\ filled' = [filled EXCEPT ![n] = @ + 1]
        /\ status' = [status EXCEPT ![n] = IF filled[n] + 1 = amount[n] THEN "closed" ELSE @]
        /\ status[n] = "open"
        /\ UNCHANGED <<engine, amount>>
    BY DEF Fill, TypeOK
  <2>1. Last \in 0..Last /\ Last > n /\ \A k \in Attempts : k + 1 \in 0..Last
    BY BudgetAssumption DEF Last
  <2>2. TakenOff(h)'
    <3>1. h \in [0..Last -> Nat]
      BY <1>3
    <3>2. ASSUME NEW k \in Attempts PROVE h[k + 1] = h[k] + filled'[k]
      <4>1. g[k + 1] = g[k] + filled[k]
        BY <1>1 DEF TakenOff
      <4>2. filled'[k] = IF k = n THEN filled[k] + 1 ELSE filled[k]
        BY <2>0 DEF TypeOK
      <4>3. /\ h[k + 1] = IF k + 1 > n THEN g[k + 1] + 1 ELSE g[k + 1]
            /\ h[k] = IF k > n THEN g[k] + 1 ELSE g[k]
        BY <1>3, <2>1
      <4> QED BY <4>1, <4>2, <4>3, <1>3
    <3>3. ASSUME NEW k \in 0..Last PROVE h[k] <= h[Last]
      <4>1. g[k] <= g[Last] /\ g[k] \in Nat /\ g[Last] \in Nat
        BY <1>1, <1>3, <2>1 DEF TakenOff
      <4> QED BY <4>1, <2>1
    <3>4. held' + h[Last] = Qty
      BY <1>1, <1>3, <2>0, <2>1 DEF TakenOff
    <3> HIDE DEF h
    <3> QED BY <3>1, <3>2, <3>3, <3>4 DEF TakenOff
  <2>3. \A k \in Attempts : h[k] >= g[k] /\ h[k] \in Nat
    BY <1>3
  <2>4. CoversRest(h)'
    <3>1. attempt \in Attempts /\ amount \in [Attempts -> 0..Qty]
      BY DEF TypeOK
    <3>2. ASSUME NEW k \in Attempts, status'[k] \in {"wire", "open", "closed"}
          PROVE  amount[k] + h[k] >= Qty
      <4>1. amount[k] + g[k] >= Qty
        BY <1>1, <2>0, <3>2 DEF CoversRest, TypeOK
      <4> HIDE DEF h
      <4> QED BY <4>1, <2>3, <3>1, <1>3
    <3>3. pc \in {"submitting", "recovering", "resting", "cancelled", "fetching"} =>
             want + h[attempt] >= Qty
      <4>1. pc \in {"submitting", "recovering", "resting", "cancelled", "fetching"} =>
               want + g[attempt] >= Qty
        BY <1>1 DEF CoversRest
      <4> HIDE DEF h
      <4> QED BY <4>1, <2>3, <3>1, <1>3
    <3> HIDE DEF h
    <3> QED BY <2>0, <3>2, <3>3 DEF CoversRest, engine
  <2>5. FilledIsFlat'
    <3>1. \A k \in Attempts : status'[k] = "closed" => filled'[k] = amount'[k]
      BY <1>2, <2>0 DEF FilledIsFlat, TypeOK
    <3>2. ~(pc \in {"decided", "settled"} /\ result.state = "FILLED")
      BY <1>2, <2>0 DEF FilledIsFlat
    <3> QED BY <1>2, <2>0, <3>1, <3>2 DEF FilledIsFlat, engine
  <2> HIDE DEF h
  <2> QED BY <2>2, <2>4, <2>5 DEF ReduceInv
<1>5. ASSUME UNCHANGED <<filled, held>>, CoversRest(g)', FilledIsFlat' PROVE ReduceInv'
  BY <1>1, <1>5, TakenOffStays DEF ReduceInv
<1>6. ASSUME NEW s, NEW f, Finish(s, f), UNCHANGED <<filled, held, amount>>,
             \A n \in Attempts : status'[n] = status[n] \/ status'[n] = "absent",
             s = "FILLED" => held = 0
      PROVE  ReduceInv'
  <2>1. CoversRest(g)'
    BY <1>1, <1>6 DEF CoversRest, Finish
  <2>2. FilledIsFlat'
    BY <1>2, <1>6 DEF FilledIsFlat, Finish
  <2> QED BY <1>5, <1>6, <2>1, <2>2
<1>7. status[attempt] = "closed" => held = 0
  <2> SUFFICES ASSUME status[attempt] = "closed" PROVE held = 0
    OBVIOUS
  <2>1. attempt \in Attempts /\ amount[attempt] + g[attempt] >= Qty
        /\ filled[attempt] = amount[attempt]
    BY <1>1, <1>2 DEF CoversRest, FilledIsFlat, TypeOK
  <2>2. g[attempt] + filled[attempt] >= Qty
    BY <2>1, <1>3 DEF TypeOK
  <2> QED BY <1>1, <2>1, <2>2, NothingLeft
<1>8. CASE LoopHead \/ Peg
  <2>1. loop \in Attempts /\ Qty \in 1..Qty /\ Qty + g[loop] >= Qty
    BY <1>3, BudgetAssumption DEF TypeOK
  <2>2. CASE Send(loop, Qty) /\ UNCHANGED <<loop, result, booked, outcome>>
    BY <1>1, <1>2, <2>1, <2>2, SendCovers
  <2>3. CASE Finish("CANCELLED", 0) /\ UNCHANGED exchange
    BY <1>6, <2>3 DEF exchange
  <2> QED BY <1>8, <2>2, <2>3 DEF LoopHead, Peg, IsOpen
<1>9. CASE Ack \/ ProbeFinds
  <2>1. CASE status[attempt] = "open"
    <3>1. pc' = "resting" /\ pc \in {"submitting", "recovering"}
          /\ UNCHANGED <<attempt, want, result, outcome, exchange>>
      BY <1>9, <2>1 DEF Ack, ProbeFinds
    <3> QED BY <1>1, <1>2, <1>5, <3>1 DEF exchange, CoversRest, FilledIsFlat
  <2>2. CASE status[attempt] # "open"
    <3>1. \E s, f : Finish(s, f) /\ UNCHANGED exchange
                    /\ (s = "FILLED" => status[attempt] = "closed")
      BY <1>9, <2>2 DEF Ack, ProbeFinds, Landed, Classified
    <3> QED BY <1>6, <1>7, <3>1 DEF exchange
  <2> QED BY <2>1, <2>2
<1>10. CASE SubmitTimeout \/ ProbeFails
  BY <1>1, <1>2, <1>5, <1>10
     DEF SubmitTimeout, ProbeFails, exchange, CoversRest, FilledIsFlat
<1>11. CASE FetchThrows
  BY <1>1, <1>2, <1>5, <1>11 DEF FetchThrows, exchange, CoversRest, FilledIsFlat
<1>12. CASE RejectRetriable \/ RejectTerminal
  <2>1. \A n \in Attempts : status'[n] = status[n] \/ status'[n] = "absent"
    BY <1>12 DEF RejectRetriable, RejectTerminal, Refused, TypeOK
  <2>2. UNCHANGED <<filled, held, amount>>
    BY <1>12 DEF RejectRetriable, RejectTerminal
  <2>3. CASE \E s \in {"ABORTED", "RECONCILE_REQUIRED"} : Finish(s, 0)
    BY <1>6, <2>1, <2>2, <2>3
  <2>4. CASE pc' = "loop" /\ UNCHANGED <<result, outcome>>
    <3>1. CoversRest(g)'
      BY <1>1, <2>1, <2>2, <2>4 DEF CoversRest
    <3>2. FilledIsFlat'
      BY <1>2, <2>1, <2>2, <2>4 DEF FilledIsFlat
    <3> QED BY <1>5, <2>2, <3>1, <3>2
  <2> QED BY <1>12, <2>3, <2>4 DEF RejectRetriable, RejectTerminal
<1>13. CASE RecoveryExhausted
  BY <1>6, <1>13 DEF RecoveryExhausted, exchange
<1>14. CASE PolicyTimeout
  BY <1>1, <1>2, <1>5, <1>14 DEF PolicyTimeout, exchange, CoversRest, FilledIsFlat, TypeOK
<1>15. CASE ResolveTerminal
  <2>1. PICK f \in Summary(attempt) : Resolve(f)
    BY <1>15 DEF ResolveTerminal
  <2>2. /\ f = 0 \/ f = filled[attempt]
        /\ attempt \in Attempts
        /\ want + g[attempt] >= Qty
    BY <1>1, <1>15 DEF Summary, ResolveTerminal, CoversRest, TypeOK
  <2>3. CASE f = 0 \/ (f < want /\ attempt + 1 >= MaxRemainder)
    BY <1>3, <1>6, <2>1, <2>2, <2>3 DEF Resolve, exchange
  <2>4. CASE f # 0 /\ f >= want
    <3>1. g[attempt] + filled[attempt] >= Qty
      BY <1>3, <2>2, <2>4
    <3>2. held = 0
      BY <1>1, <2>2, <3>1, NothingLeft
    <3> QED BY <1>6, <2>1, <2>4, <3>2 DEF Resolve, exchange
  <2>5. CASE f # 0 /\ f < want /\ ~(attempt + 1 >= MaxRemainder)
    <3>1. Send(attempt + 1, want - f) /\ UNCHANGED <<loop, result, booked, outcome>>
      BY <1>3, <2>1, <2>2, <2>5 DEF Resolve
    <3>2. attempt + 1 \in Attempts /\ want - f \in 1..Qty
      BY <1>3, <2>2, <2>5, BudgetAssumption DEF TypeOK
    <3>3. g[attempt + 1] = g[attempt] + f
      BY <1>1, <2>2, <2>5 DEF TakenOff
    <3>4. (want - f) + g[attempt + 1] >= Qty
      BY <1>3, <2>2, <2>5, <3>3
    <3> QED BY <1>1, <1>2, <3>1, <3>2, <3>4, SendCovers
  <2> QED BY <1>3, <2>2, <2>3, <2>4, <2>5
<1>16. CASE Settle
  BY <1>1, <1>2, <1>5, <1>16 DEF Settle, exchange, CoversRest, FilledIsFlat, ReduceOutcome
<1>17. CASE ExchangeStep
  <2>1. PICK n \in Attempts : Deliver(n) \/ ExpireIoc(n)
    BY <1>4, <1>17 DEF ExchangeStep
  <2>2. Deliver(n)
    BY <2>1 DEF ExpireIoc
  <2>3. CoversRest(g)'
    BY <1>1, <2>2 DEF Deliver, CoversRest, engine, TypeOK
  <2>4. FilledIsFlat'
    BY <1>2, <2>2 DEF Deliver, FilledIsFlat, engine, TypeOK
  <2> QED BY <1>5, <2>2, <2>3, <2>4 DEF Deliver
<1>18. CASE ToggleHalt \/ UNCHANGED vars
  BY <1>1, <1>2, <1>5, <1>18
     DEF ToggleHalt, vars, engine, exchange, CoversRest, FilledIsFlat
<1> QED BY <1>8, <1>9, <1>10, <1>11, <1>12, <1>13, <1>14, <1>15, <1>16, <1>17, <1>18
           DEF Next, HandlerStep

\* A reduce that reports a clean fill has left nothing on the exchange, over
\* retries, remainders, ambiguous errors, failed cancels and unpriced fills.
THEOREM CleanReducesFlat == Spec => []CleanReduceIsFlat
<1>1. Init => ReduceInv
  <2> SUFFICES ASSUME Init, ~IsOpen PROVE ReduceInv
    BY DEF ReduceInv
  <2> DEFINE g == [k \in 0..Last |-> 0]
  <2>1. TakenOff(g)
    BY BudgetAssumption DEF Init, IsOpen, TakenOff, Last
  <2>2. CoversRest(g)
    BY DEF Init, CoversRest
  <2>3. FilledIsFlat
    BY DEF Init, FilledIsFlat
  <2> HIDE DEF g
  <2> QED BY <2>1, <2>2, <2>3 DEF ReduceInv
<1>2. TypeOK /\ ReduceInv /\ [Next]_vars => ReduceInv'
  BY ReduceStep
<1>3. ReduceInv => CleanReduceIsFlat
  BY DEF ReduceInv, FilledIsFlat, CleanReduceIsFlat
<1> QED BY <1>1, <1>2, <1>3, TypeCorrect, PTL DEF Spec
-----------------------------------------------------------------------------
(***************************************************************************)
(* Halts.                                                                  *)
(***************************************************************************)

\* Only a maker order waits for the book between the halt check and the submit.
PegsAreMakers == pc = "pegging" => policy = "maker"

\* Every step keeps pegging to maker orders.
LEMMA PegsStep == PegsAreMakers /\ [Next]_vars => PegsAreMakers'
<1> SUFFICES ASSUME PegsAreMakers, [Next]_vars PROVE PegsAreMakers'
  OBVIOUS
<1>1. policy' = policy
  BY PolicyFixed
<1> USE <1>1 DEF PegsAreMakers, Finish, Send
<1>2. CASE LoopHead \/ Peg
  BY <1>2 DEF LoopHead, Peg
<1>3. CASE Ack \/ SubmitTimeout \/ RejectRetriable \/ RejectTerminal
  BY <1>3 DEF Ack, SubmitTimeout, RejectRetriable, RejectTerminal
<1>4. CASE ProbeFinds \/ ProbeFails \/ RecoveryExhausted
  BY <1>4 DEF ProbeFinds, ProbeFails, RecoveryExhausted
<1>5. CASE PolicyTimeout \/ FetchThrows \/ Settle
  BY <1>5 DEF PolicyTimeout, FetchThrows, Settle
<1>6. CASE ResolveTerminal
  BY <1>6 DEF ResolveTerminal, Resolve
<1>7. CASE ExchangeStep \/ ToggleHalt \/ UNCHANGED vars
  BY <1>7 DEF ExchangeStep, Deliver, Fill, ExpireIoc, ToggleHalt, vars, engine
<1> QED BY <1>2, <1>3, <1>4, <1>5, <1>6, <1>7 DEF Next, HandlerStep

\* No step puts an immediate-or-cancel entry on the wire while trading is halted.
LEMMA WireStep ==
    ASSUME TypeOK, PegsAreMakers, [Next]_vars, policy = "ioc", NEW n \in Attempts,
           status[n] # "wire", status'[n] = "wire"
    PROVE  ~halted
<1> USE DEF TypeOK
<1>1. CASE LoopHead
  BY <1>1 DEF LoopHead, IsOpen, exchange
<1>2. CASE Peg
  BY <1>2 DEF Peg, PegsAreMakers
<1>3. CASE Ack \/ SubmitTimeout \/ ProbeFinds \/ ProbeFails \/ RecoveryExhausted
  BY <1>3 DEF Ack, SubmitTimeout, ProbeFinds, ProbeFails, RecoveryExhausted, exchange
<1>4. CASE RejectRetriable \/ RejectTerminal
  BY <1>4 DEF RejectRetriable, RejectTerminal, Refused
<1>5. CASE PolicyTimeout \/ FetchThrows \/ Settle
  BY <1>5 DEF PolicyTimeout, FetchThrows, Settle, exchange
<1>6. CASE ResolveTerminal
  BY <1>6 DEF ResolveTerminal, Resolve, IsOpen, exchange
<1>7. CASE ExchangeStep
  BY <1>7 DEF ExchangeStep, Deliver, Fill, ExpireIoc
<1>8. CASE ToggleHalt \/ UNCHANGED vars
  BY <1>8 DEF ToggleHalt, vars, exchange
<1> QED BY <1>1, <1>2, <1>3, <1>4, <1>5, <1>6, <1>7, <1>8 DEF Next, HandlerStep

\* The kill switch stops immediate-or-cancel entries at the wire: a first attempt
\* and a retry alike are only sent while trading is not halted.
THEOREM HaltsStopIoc == Spec => HaltStopsIoc
<1>1. Init => PegsAreMakers
  BY DEF Init, PegsAreMakers
<1>2. TypeOK /\ PegsAreMakers /\ [Next]_vars =>
        [\A n \in Attempts :
            (policy = "ioc" /\ status[n] # "wire" /\ status'[n] = "wire") => ~halted]_vars
  BY WireStep
<1> QED BY <1>1, <1>2, PegsStep, TypeCorrect, PTL DEF Spec, HaltStopsIoc
=============================================================================
