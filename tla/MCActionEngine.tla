--------------------------- MODULE MCActionEngine ---------------------------
(* Instances of ActionEngine for TLC.  Actions and Runners are model values; *)
(* the maps from actions to resources are defined here.                      *)
EXTENDS ActionEngine

CONSTANTS a1, a2, a3, r1, r2, w1, w2

\* Every action competes for one resource.
OneResource == [a \in Actions |-> r1]
\* a1 and a2 have a resource each.
OwnResource == [a \in Actions |-> IF a = a1 THEN r1 ELSE r2]
=============================================================================
