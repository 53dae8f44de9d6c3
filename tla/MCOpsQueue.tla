------------------------------ MODULE MCOpsQueue ------------------------------
(* Model-checking instance of OpsQueue. *)
EXTENDS OpsQueue, TLC

\* The managed deployment gives every replica the same CHANNELOPS_RUNNER_ID.
SharedHolderId == [r \in Runner |-> "channelops-go"]

Symmetry == Permutations(Runner) \cup Permutations(Item)
==============================================================================
