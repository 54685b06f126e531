--------------------------- MODULE MCHealthChecker ---------------------------
(* Model-checking instance of HealthChecker: nodes are interchangeable.    *)
EXTENDS HealthChecker, TLC

Symmetry == Permutations(Nodes)
==============================================================================
