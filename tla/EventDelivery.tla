--------------------------- MODULE EventDelivery ---------------------------
(***************************************************************************)
(* What the outbox promises about one event: it is delivered at least once *)
(* before it counts as delivered, not at all before it is recorded, never  *)
(* again afterwards, and it is forgotten only when it was delivered.  An   *)
(* event that cannot be delivered is parked until an operator resumes it.  *)
(***************************************************************************)
VARIABLES
    stage,      \* absent, waiting, parked, delivered or forgotten
    received    \* whether the sink has got it

vars == <<stage, received>>

Init == stage = "absent" /\ received = FALSE

Record ==
    /\ stage = "absent"
    /\ stage' = "waiting"
    /\ UNCHANGED received

Receive ==
    /\ stage = "waiting"
    /\ received' = TRUE
    /\ UNCHANGED stage

Acknowledge ==
    /\ stage = "waiting"
    /\ received
    /\ stage' = "delivered"
    /\ UNCHANGED received

Park ==
    /\ stage = "waiting"
    /\ stage' = "parked"
    /\ UNCHANGED received

Resume ==
    /\ stage = "parked"
    /\ stage' = "waiting"
    /\ UNCHANGED received

Forget ==
    /\ stage = "delivered"
    /\ stage' = "forgotten"
    /\ UNCHANGED received

Next == Record \/ Receive \/ Acknowledge \/ Park \/ Resume \/ Forget

Spec == Init /\ [][Next]_vars
=============================================================================
