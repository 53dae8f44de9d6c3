------------------------------- MODULE Faults -------------------------------
(***************************************************************************)
(* What the environment does to a component (crashes, lost answers, leases *)
(* that run out in use) is counted, so that a behaviour has finitely many  *)
(* of them.  Each module says which of its steps are faults.               *)
(***************************************************************************)
EXTENDS Naturals

CONSTANT MaxFaults   \* bound: faults in one behaviour

VARIABLE faults      \* faults so far

Fault == faults < MaxFaults /\ faults' = faults + 1
=============================================================================
