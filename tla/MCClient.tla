------------------------------ MODULE MCClient ------------------------------
(* Client on a small instance, for TLC. *)
EXTENDS Client

\* What retry.maxAttempts may be: unset, NaN or infinite, two and a half, and
\* less than none.
MCConfigured == {Unset, NotFinite, Tenths(25), Tenths(-5)}
=============================================================================
