--------------------------- MODULE MCRunnerTasks ---------------------------
(* Instances of RunnerTasks for TLC.  Runners, tasks and incidents are model *)
(* values; the maps over tasks are defined here.                             *)
EXTENDS RunnerTasks

CONSTANTS w1, w2, t1, t2, i1

\* t1 is observed for an investigation, t2 verifies an action of w1.
OneIncident == [t \in Tasks |-> i1]
VerifierAssigned == [t \in Tasks |-> IF t = t1 THEN NoRunner ELSE w1]
\* observation_specs.py gives an observation one attempt unless its spec says
\* otherwise; a verification has more than one.
SingleObservation == [t \in Tasks |-> IF t = t1 THEN 1 ELSE 2]
=============================================================================
