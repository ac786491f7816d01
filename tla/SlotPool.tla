------------------------------ MODULE SlotPool ------------------------------
(***************************************************************************)
(* What the gate promises about slots, without ledger states, snapshots or *)
(* executors: a pool of three slots in which A and B have one holder at a  *)
(* time and C has at most one holder of each correlation mode.  A claim is *)
(* taken one at a time; any number of holders may leave in one step (a TTL *)
(* sweep or a restart frees several).                                      *)
(***************************************************************************)
CONSTANTS Claims, ModeOf

Places == {"A", "B", "C"}

VARIABLE holders    \* [Places -> SUBSET Claims]

PoolInit == holders = [p \in Places |-> {}]

\* A place that would take claim c.
Free(p, c) == IF p = "C" THEN \A d \in holders[p] : ModeOf[d] # ModeOf[c]
                         ELSE holders[p] = {}

Take(p, c) ==
    /\ Free(p, c)
    /\ \A q \in Places : c \notin holders[q]
    /\ holders' = [holders EXCEPT ![p] = @ \cup {c}]

Leave == /\ holders' \in [Places -> SUBSET Claims]
         /\ \A p \in Places : holders'[p] \subseteq holders[p]

PoolNext == (\E p \in Places, c \in Claims : Take(p, c)) \/ Leave

PoolSpec == PoolInit /\ [][PoolNext]_holders
=============================================================================
