--------------------------- MODULE MCActionWorker ---------------------------
(* ActionWorker, for TLC. *)
EXTENDS ActionWorker
=============================================================================
