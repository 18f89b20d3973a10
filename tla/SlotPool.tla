------------------------------- MODULE SlotPool -------------------------------
(***************************************************************************)
(* What the concurrency limits promise: a counting semaphore for each      *)
(* credential, whose limit (0: none) may be changed at any time.  Lowering *)
(* it takes no slot away; it only keeps new holders out until enough old   *)
(* ones have left.                                                         *)
(***************************************************************************)
EXTENDS Naturals, FiniteSets

CONSTANTS Ids, Requests

VARIABLES holders, limit

Init == /\ holders = [c \in Ids |-> {}]
        /\ limit \in [Ids -> Nat]

Acquire(r, c) ==
  /\ \A d \in Ids : r \notin holders[d]
  /\ limit[c] = 0 \/ Cardinality(holders[c]) < limit[c]
  /\ holders' = [holders EXCEPT ![c] = @ \cup {r}]
  /\ UNCHANGED limit

Release(r, c) ==
  /\ r \in holders[c]
  /\ holders' = [holders EXCEPT ![c] = @ \ {r}]
  /\ UNCHANGED limit

ChangeLimits == /\ limit' \in [Ids -> Nat]
                /\ UNCHANGED holders

Next == \/ \E r \in Requests, c \in Ids : Acquire(r, c) \/ Release(r, c)
        \/ ChangeLimits

Spec == Init /\ [][Next]_<<holders, limit>>
=============================================================================
