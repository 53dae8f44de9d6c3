------------------------- MODULE MCWorkerRegistration -------------------------
(* Model-checking instance of WorkerRegistration: one process of the first *)
(* generation and two of the second.                                       *)
EXTENDS WorkerRegistration, TLC

CONSTANTS p1, p2, p3

Rollout == (p1 :> 1) @@ (p2 :> 2) @@ (p3 :> 2)

Symmetry == Permutations({p2, p3})
==============================================================================
