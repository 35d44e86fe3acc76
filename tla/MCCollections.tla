--------------------------- MODULE MCCollections ---------------------------
(* Instances of Collections for TLC.                                       *)
EXTENDS Collections, TLC

Symmetry == Permutations(Reqs) \cup Permutations(Submissions)
=============================================================================
