--------------------------- MODULE MCEventStream ---------------------------
(* Instances of EventStream for TLC: up to three handlers and one client.    *)
EXTENDS EventStream

CONSTANTS u1, u2, u3, c1
=============================================================================
