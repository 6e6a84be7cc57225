---------------------------- MODULE MCTransport ----------------------------
(* Transport on a small instance, for TLC. *)
EXTENDS Transport
=============================================================================
