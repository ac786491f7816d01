---------------------------- MODULE OrderSubmit ----------------------------
(***************************************************************************)
(* The executor's submit / recover / cancel / retry machine for one        *)
(* approved intent, against an exchange that may lose a request, deliver   *)
(* it late, lose the answer, or fill an order at any moment.               *)
(*                                                                         *)
(* An order is known by its attempt number: the clientOrderId is a hash of *)
(* the intent and attemptN, so submitting attempt n twice is submitting the*)
(* same id twice.  A fill summary is the filled quantity, 0 standing for   *)
(* null.                                                                   *)
(***************************************************************************)
EXTENDS Integers

CONSTANTS
    Policies,       \* the order policies of this instance
    Qty,            \* intent.sizing.qty, in lots
    MaxRetry,       \* MAX_PERMANENT_RETRY_ATTEMPTS
    MaxRemainder,   \* MAX_REDUCE_REMAINDER_ATTEMPTS
    MaxProbes,      \* MAX_UNKNOWN_RECOVERY_ATTEMPTS
    FaultSets       \* sets of faults, besides lost and late requests

OrderPolicies == {"ioc", "maker", "reduce"}

\* "ambiguous": an error answer (-1007, -1000, RequestTimeout) for an order the
\* exchange did accept; "cancelFails": the cancel is refused locally, by the
\* rate limiter; "fetchThrows": a status query fails; "unpriced": a snapshot
\* has filled > 0 and no average price.
FaultKinds == {"ambiguous", "cancelFails", "fetchThrows", "unpriced"}

ASSUME PolicyAssumption ==
    Policies \subseteq OrderPolicies /\ \A F \in FaultSets : F \subseteq FaultKinds
ASSUME BudgetAssumption ==
    /\ Qty \in Nat \ {0}
    /\ MaxRetry \in Nat /\ MaxRemainder \in Nat /\ MaxProbes \in Nat

\* Every attemptN the two budgets allow lies in this range.
Attempts == 0..(MaxRetry + MaxRemainder)

VARIABLES
    policy,     \* plan.policy
    faults,     \* what may go wrong in this behaviour
    halted,     \* haltFlag.isHalted()
    pc,         \* where the handler is
    loop,       \* attemptN of runSubmitStateMachine's for loop
    attempt,    \* attemptN of the order at hand; ahead of loop on a remainder
    want,       \* the quantity of the order at hand
    probes,     \* recovery probes made
    result,     \* [state, fill], what submitOnce returned
    status,     \* [Attempts -> order status at the exchange]
    amount,     \* [Attempts -> quantity ordered]
    filled,     \* [Attempts -> quantity filled]
    held,       \* the position the exchange holds for this symbol
    booked,     \* the quantity the executor wrote to the position
    outcome     \* the event the handler ended with

engine == <<pc, loop, attempt, want, probes, result, booked, outcome>>
exchange == <<status, amount, filled, held>>
vars == <<policy, faults, halted, engine, exchange>>

PcStates == {"loop", "pegging", "submitting", "recovering", "resting",
             "cancelled", "fetching", "decided", "settled", "thrown"}
SubmitStates == {"NONE", "FILLED", "PARTIAL", "CANCELLED", "REJECTED", "ABORTED",
                 "RECONCILE_REQUIRED"}
OrderStatuses == {"absent", "wire", "open", "closed", "canceled", "rejected"}
Outcomes == {"none", "filled", "failed", "unknown", "expired"}

TypeOK ==
    /\ policy \in Policies
    /\ faults \in FaultSets
    /\ halted \in BOOLEAN
    /\ pc \in PcStates
    /\ loop \in 0..MaxRetry
    /\ attempt \in Attempts
    /\ want \in 1..Qty
    /\ probes \in 0..MaxProbes
    /\ result \in [state : SubmitStates, fill : 0..Qty]
    /\ status \in [Attempts -> OrderStatuses]
    /\ amount \in [Attempts -> 0..Qty]
    /\ filled \in [Attempts -> 0..Qty]
    /\ held \in Nat
    /\ booked \in 0..Qty
    /\ outcome \in Outcomes

Init ==
    /\ policy \in Policies
    /\ faults \in FaultSets
    /\ halted = FALSE
    /\ pc = "loop"
    /\ loop = 0 /\ attempt = 0 /\ want = Qty /\ probes = 0
    /\ result = [state |-> "NONE", fill |-> 0]
    /\ status = [n \in Attempts |-> "absent"]
    /\ amount = [n \in Attempts |-> 0]
    /\ filled = [n \in Attempts |-> 0]
    /\ held = IF policy = "reduce" THEN Qty ELSE 0
    /\ booked = 0
    /\ outcome = "none"

\* isOpenOrAddIntent: halts stop entries, never exits.
IsOpen == policy # "reduce"

-----------------------------------------------------------------------------
(***************************************************************************)
(* The exchange (external).                                                *)
(***************************************************************************)

Landed(n) == status[n] \in {"open", "closed", "canceled", "rejected"}

\* A request reaches the exchange, is refused there, or is lost on the way.
Deliver(n) ==
    /\ status[n] = "wire"
    /\ status' \in {[status EXCEPT ![n] = s] : s \in {"open", "rejected", "absent"}}
    /\ UNCHANGED <<policy, faults, halted, engine, amount, filled, held>>

\* One lot fills.  A reduce-only order never fills beyond the position.
Fill(n) ==
    /\ status[n] = "open"
    /\ filled[n] < amount[n]
    /\ IsOpen \/ held > 0
    /\ held' = IF IsOpen THEN held + 1 ELSE held - 1
    /\ filled' = [filled EXCEPT ![n] = @ + 1]
    /\ status' = [status EXCEPT ![n] = IF filled[n] + 1 = amount[n] THEN "closed" ELSE @]
    /\ UNCHANGED <<policy, faults, halted, engine, amount>>

\* The exchange cancels what an immediate-or-cancel order could not fill.
ExpireIoc(n) ==
    /\ policy = "ioc"
    /\ status[n] = "open"
    /\ status' = [status EXCEPT ![n] = "canceled"]
    /\ UNCHANGED <<policy, faults, halted, engine, amount, filled, held>>

\* The kill switch is set or cleared at any time.
ToggleHalt ==
    /\ halted' = ~halted
    /\ UNCHANGED <<policy, faults, engine, exchange>>

-----------------------------------------------------------------------------
(***************************************************************************)
(* Building blocks of the handler.                                         *)
(***************************************************************************)

\* submitOnce returns a terminal result.
Finish(state, fill) ==
    /\ pc' = "decided"
    /\ result' = [state |-> state, fill |-> fill]
    /\ UNCHANGED <<loop, attempt, want, probes, booked, outcome>>

\* submitter.submit for attempt n: a fresh id goes on the wire, an id the
\* exchange already has is answered -5022, which means recover.
Send(n, qty) ==
    /\ attempt' = n
    /\ want' = qty
    /\ probes' = 0
    /\ IF status[n] \in {"absent", "rejected"}
       THEN /\ pc' = "submitting"
            /\ status' = [status EXCEPT ![n] = "wire"]
            /\ amount' = [amount EXCEPT ![n] = qty]
       ELSE /\ pc' = "recovering"
            /\ UNCHANGED <<status, amount>>
    /\ UNCHANGED <<filled, held>>

\* toSummary: nothing when nothing filled, or when the price is unknown.
Summary(n) == {filled[n]} \cup (IF "unpriced" \in faults THEN {0} ELSE {})

\* The state of an order snapshot, classifyRecoveredStatus and mapCcxtStatus.
Classified(s) == CASE s = "closed" -> "FILLED"
                   [] s = "canceled" -> "CANCELLED"
                   [] s = "rejected" -> "REJECTED"

-----------------------------------------------------------------------------
(***************************************************************************)
(* runSubmitStateMachine and submitOnce.                                   *)
(***************************************************************************)

\* Mutant: the halt flag is read only when the intent arrives.
LoopHeadNoHalt ==
    /\ pc = "loop"
    /\ Send(loop, Qty)
    /\ UNCHANGED <<policy, faults, halted, loop, result, booked, outcome>>

\* The halt flag is read before every attempt; a maker order then reads the
\* book, which is an await between the check and the submit.
LoopHead ==
    /\ pc = "loop"
    /\ IF halted /\ IsOpen THEN Finish("ABORTED", 0) /\ UNCHANGED exchange
       ELSE IF policy = "maker"
       THEN /\ pc' = "pegging"
            /\ UNCHANGED <<loop, attempt, want, probes, result, booked, outcome, exchange>>
       ELSE Send(loop, Qty) /\ UNCHANGED <<loop, result, booked, outcome>>
    /\ UNCHANGED <<policy, faults, halted>>

\* resolveLimitPrice: peg to the book and submit, or the peg would cross.
Peg ==
    /\ pc = "pegging"
    /\ \/ Send(loop, Qty) /\ UNCHANGED <<loop, result, booked, outcome>>
       \/ Finish("CANCELLED", 0) /\ UNCHANGED exchange
    /\ UNCHANGED <<policy, faults, halted>>

\* createOrder answers with the order as the exchange has it.
Ack ==
    /\ pc = "submitting"
    /\ Landed(attempt)
    /\ IF status[attempt] = "open"
       THEN pc' = "resting" /\ UNCHANGED <<loop, attempt, want, probes, result, booked, outcome>>
       ELSE \E f \in Summary(attempt) :
              IF status[attempt] = "rejected" THEN Finish("ABORTED", 0)
              ELSE Finish(Classified(status[attempt]), f)
    /\ UNCHANGED <<policy, faults, halted, exchange>>

\* Mutant: a lost acknowledgement is retried as the next attempt.
SubmitTimeoutRetrying ==
    /\ pc = "submitting"
    /\ loop < MaxRetry
    /\ pc' = "loop"
    /\ loop' = loop + 1
    /\ UNCHANGED <<policy, faults, halted, attempt, want, probes, result, booked, outcome, exchange>>

\* No answer within SUBMIT_NETWORK_TIMEOUT_MS; the request stays where it is.
SubmitTimeout ==
    /\ pc = "submitting"
    /\ pc' = "recovering"
    /\ UNCHANGED <<policy, faults, halted, loop, attempt, want, probes, result, booked, outcome, exchange>>

\* handleSubmitFailure: an error answer.  It means the exchange did not take
\* the order, unless the error is ambiguous.
Refused ==
    \/ status[attempt] = "wire" /\ status' = [status EXCEPT ![attempt] = "absent"]
    \/ "ambiguous" \in faults /\ UNCHANGED status

\* RETRIABLE: the for loop goes on with the full quantity, until its budget ends.
RejectRetriable ==
    /\ pc = "submitting"
    /\ Refused
    /\ IF loop < MaxRetry
       THEN /\ pc' = "loop"
            /\ loop' = loop + 1
            /\ UNCHANGED <<attempt, want, probes, result, booked, outcome>>
       ELSE Finish("RECONCILE_REQUIRED", 0)
    /\ UNCHANGED <<policy, faults, halted, amount, filled, held>>

\* TERMINAL, or not in the table.
RejectTerminal ==
    /\ pc = "submitting"
    /\ Refused
    /\ Finish("ABORTED", 0)
    /\ UNCHANGED <<policy, faults, halted, amount, filled, held>>

-----------------------------------------------------------------------------
(***************************************************************************)
(* recoverFromUnknown, awaitPolicyTimeout and its three branches.          *)
(***************************************************************************)

\* One probe of recover(): the order is found...
ProbeFinds ==
    /\ pc = "recovering"
    /\ probes < MaxProbes
    /\ Landed(attempt)
    /\ IF status[attempt] = "open"
       THEN pc' = "resting" /\ UNCHANGED <<loop, attempt, want, probes, result, booked, outcome>>
       ELSE \E f \in Summary(attempt) : Finish(Classified(status[attempt]), f)
    /\ UNCHANGED <<policy, faults, halted, exchange>>

\* Mutant: an order that is not found is submitted again, without a budget.
ProbeFailsUncounted ==
    /\ pc = "recovering"
    /\ probes < MaxProbes
    /\ Landed(attempt) => "fetchThrows" \in faults
    /\ pc' = "submitting"
    /\ UNCHANGED <<policy, faults, halted, loop, attempt, want, probes, result, booked, outcome, exchange>>

\* ...or it is not there yet, or the probe fails...
ProbeFails ==
    /\ pc = "recovering"
    /\ probes < MaxProbes
    /\ Landed(attempt) => "fetchThrows" \in faults
    /\ probes' = probes + 1
    /\ UNCHANGED <<policy, faults, halted, pc, loop, attempt, want, result, booked, outcome, exchange>>

\* ...and when the probes are used up reconciliation takes over.
RecoveryExhausted ==
    /\ pc = "recovering"
    /\ probes = MaxProbes
    /\ Finish("RECONCILE_REQUIRED", 0)
    /\ UNCHANGED <<policy, faults, halted, exchange>>

\* resolveIocTerminal, resolveMakerTerminal and resolveReduceTerminal: an entry
\* keeps what it got, a reduce sends the remainder as the next attempt.
Resolve(f) ==
    IF IsOpen THEN Finish(IF f = 0 THEN "CANCELLED" ELSE "PARTIAL", f) /\ UNCHANGED exchange
    ELSE IF f = 0 THEN Finish("CANCELLED", 0) /\ UNCHANGED exchange
    ELSE IF f >= want THEN Finish("FILLED", f) /\ UNCHANGED exchange
    ELSE IF attempt + 1 >= MaxRemainder
    THEN Finish("RECONCILE_REQUIRED", f) /\ UNCHANGED exchange
    ELSE Send(attempt + 1, want - f) /\ UNCHANGED <<loop, result, booked, outcome>>

\* Mutant: a maker order is not cancelled when its time is up.
CancelMakerNever ==
    /\ pc = "resting"
    /\ pc' = "fetching"
    /\ UNCHANGED <<policy, faults, halted, loop, attempt, want, probes, result, booked, outcome, exchange>>

\* The policy timeout: an IOC order is only looked up (the exchange has ended
\* it by then); the others are cancelled, and looked up if the cancel fails.
PolicyTimeout ==
    /\ pc = "resting"
    /\ policy = "ioc" => status[attempt] # "open"
    /\ \/ /\ policy # "ioc" => status[attempt] # "open" \/ "cancelFails" \in faults
          /\ pc' = "fetching"
          /\ UNCHANGED <<loop, attempt, want, probes, result, booked, outcome, exchange>>
       \/ /\ policy # "ioc" /\ status[attempt] = "open"
          /\ pc' = "cancelled"
          /\ status' = [status EXCEPT ![attempt] = "canceled"]
          /\ UNCHANGED <<loop, attempt, want, probes, result, booked, outcome, amount, filled, held>>
    /\ UNCHANGED <<policy, faults, halted>>

\* The order as it is after the cancel or the lookup decides the attempt...
ResolveTerminal ==
    /\ pc \in {"cancelled", "fetching"}
    /\ \E f \in Summary(attempt) : Resolve(f)
    /\ UNCHANGED <<policy, faults, halted>>

\* ...or the lookup throws out of the handler: onOrderIntentApproved logs it
\* and releases the reservation.
FetchThrows ==
    /\ "fetchThrows" \in faults
    /\ pc = "fetching"
    /\ pc' = "thrown"
    /\ UNCHANGED <<policy, faults, halted, loop, attempt, want, probes, result, booked, outcome, exchange>>

-----------------------------------------------------------------------------
(***************************************************************************)
(* executeLive: what the result becomes.                                   *)
(***************************************************************************)

\* handleNoFill by state, or the position row for an entry that filled.
EntryOutcome == IF result.fill > 0 THEN "filled"
                ELSE IF result.state \in {"ABORTED", "REJECTED"} THEN "failed"
                ELSE IF result.state = "RECONCILE_REQUIRED" THEN "unknown"
                ELSE "expired"

\* Mutant: a partial reduce counts as clean.
ReduceOutcomeLenient == IF result.fill > 0 THEN "filled" ELSE "unknown"

\* handleReduceTerminal: anything but a clean fill goes to reconciliation.
ReduceOutcome == IF result.state = "FILLED" /\ result.fill > 0 THEN "filled" ELSE "unknown"

Settle ==
    /\ pc = "decided"
    /\ pc' = "settled"
    /\ booked' = result.fill
    /\ outcome' = IF IsOpen THEN EntryOutcome ELSE ReduceOutcome
    /\ UNCHANGED <<policy, faults, halted, loop, attempt, want, probes, result, exchange>>

HandlerStep ==
    \/ LoopHead \/ Peg
    \/ Ack \/ SubmitTimeout \/ RejectRetriable \/ RejectTerminal
    \/ ProbeFinds \/ ProbeFails \/ RecoveryExhausted
    \/ PolicyTimeout \/ ResolveTerminal \/ FetchThrows
    \/ Settle

ExchangeStep == \E n \in Attempts : Deliver(n) \/ Fill(n) \/ ExpireIoc(n)

Next == HandlerStep \/ ExchangeStep \/ ToggleHalt

Spec == Init /\ [][Next]_vars

\* Every await of the handler is bounded by a timer, and the exchange ends an
\* immediate-or-cancel order by itself.
Fairness == WF_vars(HandlerStep) /\ WF_vars(\E n \in Attempts : ExpireIoc(n))

FairSpec == Spec /\ Fairness

-----------------------------------------------------------------------------
(***************************************************************************)
(* Properties                                                              *)
(***************************************************************************)

ErrorsAreRefusals == "ambiguous" \notin faults

Reliable == ErrorsAreRefusals /\ "cancelFails" \notin faults /\ "unpriced" \notin faults

\* The exchange never holds more of an entry than the intent asked for: neither
\* a lost answer, a late request nor a retry doubles an order (ADR 0006).
EntryNeverDoubled == IsOpen => held <= Qty

\* So it is while an error answer means that the exchange refused the order.
RefusedEntryNeverDoubled == ErrorsAreRefusals => EntryNeverDoubled

\* An entry that ended without escalating to reconciliation left no order that
\* can still fill, and the position it booked is the one the exchange holds, as
\* long as errors are refusals, cancels arrive and fills carry their price.
EntryAccounted ==
    (Reliable /\ IsOpen /\ pc = "settled" /\ outcome # "unknown") =>
        /\ booked = held
        /\ \A n \in Attempts : status[n] \notin {"wire", "open"}

\* A reduce reported as cleanly filled took off the books what it took off the
\* exchange, over all of its remainder attempts.
CleanReduceAccounted ==
    (~IsOpen /\ pc = "settled" /\ outcome = "filled") => booked = Qty - held

\* A reduce that reports a clean fill has left nothing on the exchange: whatever
\* is still held goes to reconciliation instead.
CleanReduceIsFlat ==
    (~IsOpen /\ pc = "settled" /\ outcome = "filled") => held = 0

\* An immediate-or-cancel entry is only ever put on the wire while trading is not
\* halted, be it the first attempt or a retry (a maker entry reads the book after
\* its halt check, and may be sent under a halt).
HaltStopsIoc ==
    [][\A n \in Attempts :
          (policy = "ioc" /\ status[n] # "wire" /\ status'[n] = "wire") => ~halted]_vars

\* Every approved intent is settled, whatever the exchange answers: the retry,
\* probe and remainder budgets together are finite.
HandlerEnds == <>(pc \in {"settled", "thrown"})
=============================================================================
