-------------------------- MODULE MCCircuitBreaker --------------------------
(***************************************************************************)
(* TLC instances of CircuitBreaker: the repository's own configurations.   *)
(***************************************************************************)
EXTENDS CircuitBreaker
=============================================================================
