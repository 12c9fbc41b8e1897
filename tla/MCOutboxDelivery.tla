-------------------------- MODULE MCOutboxDelivery --------------------------
(* An instance of OutboxDelivery for TLC. Replicas are interchangeable, but  *)
(* the runs check liveness, so no symmetry is used.                          *)
EXTENDS OutboxDelivery
=============================================================================
