----------------------------- MODULE MCProduction -----------------------------
(* Instance of Production for TLC: workers are interchangeable. *)
EXTENDS Production, TLC

WorkerSymmetry == Permutations(Workers)
=============================================================================
