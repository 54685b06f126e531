-------------------------- MODULE MCCircuitBreaker --------------------------
(* Model-checking instance of CircuitBreaker: callers are interchangeable. *)
EXTENDS CircuitBreaker, TLC

Symmetry == Permutations(Callers)
=============================================================================
