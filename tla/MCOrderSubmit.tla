--------------------------- MODULE MCOrderSubmit ---------------------------
(***************************************************************************)
(* Instances of OrderSubmit: the policies, and the faults they meet.       *)
(***************************************************************************)
EXTENDS OrderSubmit

Entries == {"ioc", "maker"}
AllPolicies == OrderPolicies

\* Every combination of faults.
AnyFaults == SUBSET FaultKinds
Ambiguous == {{"ambiguous"}}
=============================================================================
