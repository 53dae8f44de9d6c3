-------------------------- MODULE MCMarkerContinuity --------------------------
(* Instances of MarkerContinuity for TLC. *)
EXTENDS MarkerContinuity

CONSTANTS s1, c1, c2, j1, j2
==============================================================================
