--------------------------- MODULE TaskLifecycle ---------------------------
(***************************************************************************)
(* What the control plane promises about one read-only Runner task: it is  *)
(* attempted a bounded number of times, one attempt at a time, every loss  *)
(* of an attempt is followed by a new one or by the failure of the task,   *)
(* and the task ends once.                                                 *)
(***************************************************************************)
EXTENDS Naturals

CONSTANT MaxAttempts

VARIABLES
    status,     \* none, waiting, running, succeeded, failed or cancelled
    attempt     \* attempts started so far

vars == <<status, attempt>>

Init == status = "none" /\ attempt = 0

Submit ==
    /\ status = "none"
    /\ status' = "waiting"
    /\ UNCHANGED attempt

Start ==
    /\ status = "waiting"
    /\ attempt < MaxAttempts
    /\ status' = "running"
    /\ attempt' = attempt + 1

\* An attempt was lost or failed, and another one is allowed.
Retry ==
    /\ status = "running"
    /\ attempt < MaxAttempts
    /\ status' = "waiting"
    /\ UNCHANGED attempt

\* The same, and the next attempt starts at once.
Restart ==
    /\ status = "running"
    /\ attempt < MaxAttempts
    /\ attempt' = attempt + 1
    /\ UNCHANGED status

Succeed ==
    /\ status = "running"
    /\ status' = "succeeded"
    /\ UNCHANGED attempt

Fail ==
    /\ status = "running"
    /\ status' = "failed"
    /\ UNCHANGED attempt

Cancel ==
    /\ status \in {"waiting", "running"}
    /\ status' = "cancelled"
    /\ UNCHANGED attempt

Next == Submit \/ Start \/ Retry \/ Restart \/ Succeed \/ Fail \/ Cancel

Spec == Init /\ [][Next]_vars
=============================================================================
