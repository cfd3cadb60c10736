---------------------------- MODULE MCDataPlane ----------------------------
(* Instances of DataPlane for TLC. *)
EXTENDS DataPlane, TLC

CONSTANTS k1, k2
=============================================================================
