----------------------------- MODULE MCOverlap ------------------------------
(* The registries, flags and referrers of MCUnpackerRun, for Overlap. *)
EXTENDS Overlap, MCUnpackerRun
=============================================================================
