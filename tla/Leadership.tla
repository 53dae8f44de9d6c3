------------------------------ MODULE Leadership ------------------------------
(***************************************************************************)
(* What leadership promises the rest of the ChannelOps runner: the leader  *)
(* row names one runner and epoch, epochs only advance, a runner's cached  *)
(* authority may vanish or go stale at any time, and a fenced write        *)
(* commits only while the row names the writer.  LeaderEpoch implements    *)
(* this; OpsQueue builds on it.                                            *)
(***************************************************************************)
EXTENDS Naturals

CONSTANTS Runner, NoRunner

VARIABLES
    row,      \* the channelops_leader_epochs row; epoch 0 before it exists
    auth,     \* each runner's cached epoch, 0 without authority
    written   \* epoch of the last fenced write, 0 before the first

leadershipVars == <<row, auth, written>>

NoRow == [epoch |-> 0, holder |-> NoRunner, released |-> TRUE]

LeadershipInit ==
    /\ row = NoRow
    /\ auth = [r \in Runner |-> 0]
    /\ written = 0

\* A runner takes over; its cache learns of it unless the answer is lost.
Takeover(r) ==
    /\ row' = [epoch |-> row.epoch + 1, holder |-> r, released |-> FALSE]
    /\ auth' \in {auth, [auth EXCEPT ![r] = row.epoch + 1]}
    /\ UNCHANGED written

\* A failed heartbeat, a rejected fence or a crash clears the cache.
Forget(r) ==
    /\ auth' = [auth EXCEPT ![r] = 0]
    /\ UNCHANGED <<row, written>>

\* The leader shuts down and marks the row released.
Resign(r) ==
    /\ row.holder = r /\ row.epoch = auth[r]
    /\ row' = [epoch |-> row.epoch, holder |-> r, released |-> TRUE]
    /\ auth' = [auth EXCEPT ![r] = 0]
    /\ UNCHANGED written

\* A fenced transaction of the current leader commits.
FencedWrite(r) ==
    /\ row.holder = r /\ ~row.released
    /\ written' = row.epoch
    /\ UNCHANGED <<row, auth>>

LeadershipNext ==
    \E r \in Runner : Takeover(r) \/ Forget(r) \/ Resign(r) \/ FencedWrite(r)

LeadershipSpec == LeadershipInit /\ [][LeadershipNext]_leadershipVars
==============================================================================
