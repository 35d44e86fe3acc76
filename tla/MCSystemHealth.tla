--------------------------- MODULE MCSystemHealth ---------------------------
(* Instances of SystemHealth for TLC.                                      *)
EXTENDS SystemHealth

=============================================================================
