-------------------------- MODULE MCOutboxDelivery --------------------------
(* Instances of OutboxDelivery for TLC: two publishers.                      *)
EXTENDS OutboxDelivery

CONSTANTS p1, p2
=============================================================================
