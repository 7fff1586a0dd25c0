--------------------------- MODULE MCCircuitBreaker ---------------------------
(* Instances of CircuitBreaker for TLC. *)
EXTENDS CircuitBreaker, TLC

\* Calls are interchangeable.
Symmetry == Permutations(Calls)
=============================================================================
