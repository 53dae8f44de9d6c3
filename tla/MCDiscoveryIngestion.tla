------------------------- MODULE MCDiscoveryIngestion -------------------------
(* Model-checking instance of DiscoveryIngestion. *)
EXTENDS DiscoveryIngestion, TLC

\* The managed deployment gives every replica the same CHANNELOPS_RUNNER_ID.
SharedHolderId == [r \in Runner |-> "channelops-go"]

Symmetry == Permutations(Runner)
==============================================================================
