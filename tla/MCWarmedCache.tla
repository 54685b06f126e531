--------------------------- MODULE MCWarmedCache ----------------------------
(* The warmed in-memory tier for TLC: the instance is in the configuration *)
(* file.                                                                   *)
EXTENDS WarmedCache
=============================================================================
