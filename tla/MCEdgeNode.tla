----------------------------- MODULE MCEdgeNode -----------------------------
(* The edge node for TLC: instances are given in the configuration files.  *)
EXTENDS EdgeNode
=============================================================================
