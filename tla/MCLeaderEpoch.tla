---------------------------- MODULE MCLeaderEpoch ----------------------------
(* Model-checking instance of LeaderEpoch. *)
EXTENDS LeaderEpoch, TLC

\* The managed deployment gives every replica the same CHANNELOPS_RUNNER_ID.
SharedHolderId == [r \in Runner |-> "channelops-go"]

Symmetry == Permutations(Runner) \cup Permutations(Thread)
==============================================================================
