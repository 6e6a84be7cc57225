-------------------------- MODULE MCResultDelivery --------------------------
(* ResultDelivery on small instances, for TLC. *)
EXTENDS ResultDelivery
=============================================================================
