---------------------------- MODULE MCStreamWorker ----------------------------
(* The constants of MCStreamWorker.cfg are numbers and sets of numbers. *)
EXTENDS StreamWorker
=============================================================================
