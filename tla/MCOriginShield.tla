--------------------------- MODULE MCOriginShield ---------------------------
(* Model-checking instance of OriginShield: requests are interchangeable,  *)
(* and so are paths.                                                       *)
EXTENDS OriginShield, TLC

Symmetry == Permutations(Requests) \cup Permutations(Paths)
=============================================================================
