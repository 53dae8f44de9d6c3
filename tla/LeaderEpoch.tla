----------------------------- MODULE LeaderEpoch -----------------------------
(***************************************************************************)
(* Leadership of the Go ChannelOps runner (internal/channelops/leader.go   *)
(* and the leadership controller of runner.go).                            *)
(*                                                                         *)
(* A runner leads while its dedicated Postgres session holds the advisory  *)
(* lock.  On every acquisition it bumps the epoch of the single row of     *)
(* channelops_leader_epochs, and caches that epoch in the process.  The    *)
(* cache may be stale: the server can drop the session, and with it the    *)
(* advisory lock, long before the process notices.  Every write the runner *)
(* makes as leader therefore runs in a "fenced" transaction which first    *)
(* reads the row FOR SHARE and compares it with the cached epoch.          *)
(*                                                                         *)
(* Two threads of one process use the fence and the controller: the queue  *)
(* loop and the HTTP server (/readyz, /internal/learning/recompute).       *)
(***************************************************************************)
EXTENDS Faults, FiniteSets

CONSTANTS
    Runner,     \* runner processes
    HolderId,   \* the holder_id each is configured with; they may coincide
    Thread,     \* threads of a process that open fenced transactions
    NoRunner,   \* nobody holds the advisory lock
    Orphan      \* the lock is held by a server session its client abandoned

ASSUME LeaderAssumption ==
    /\ NoRunner \notin Runner
    /\ Orphan \notin Runner
    /\ NoRunner # Orphan
    /\ Thread # {}
    /\ MaxFaults \in Nat

VARIABLES
    lock,        \* owner of the session advisory lock
    row,         \* the channelops_leader_epochs row
    owner,       \* history: the process whose upsert wrote the row
    pending,     \* runners between pg_try_advisory_lock and the epoch upsert
    lease,       \* epoch of the controller's LeaderLease, 0 without one
    auth,        \* epoch published in leaderState.authority, 0 for nil
    snap,        \* authority a thread has snapshotted to assert next, or 0
    tx,          \* epoch asserted by a thread's open fenced transaction, or 0
    lastCommit   \* history: epoch of the last fenced transaction committed

leaderVars ==
    <<lock, row, owner, pending, lease, auth, snap, tx, lastCommit, faults>>

Row == [epoch : Nat, holder : {HolderId[r] : r \in Runner} \cup {NoRunner},
        released : BOOLEAN]

LeaderTypeOK ==
    /\ lock \in Runner \cup {NoRunner, Orphan}
    /\ row \in Row
    /\ owner \in Runner \cup {NoRunner}
    /\ pending \in SUBSET Runner
    /\ lease \in [Runner -> Nat]
    /\ auth \in [Runner -> Nat]
    /\ snap \in [Runner \X Thread -> Nat]
    /\ tx \in [Runner \X Thread -> Nat]
    /\ lastCommit \in Nat
    /\ faults \in 0..MaxFaults

\* No row exists before the first acquisition; epoch 0 stands for that.
LeaderInit ==
    /\ lock = NoRunner
    /\ row = [epoch |-> 0, holder |-> NoRunner, released |-> TRUE]
    /\ owner = NoRunner
    /\ pending = {}
    /\ lease = [r \in Runner |-> 0]
    /\ auth = [r \in Runner |-> 0]
    /\ snap = [p \in Runner \X Thread |-> 0]
    /\ tx = [p \in Runner \X Thread |-> 0]
    /\ lastCommit = 0
    /\ faults = 0

-----------------------------------------------------------------------------
(* Row locks and authority *)

\* Mutant: the fence reads the row without FOR SHARE, so nothing waits.
RowNeverLocked == TRUE

\* An UPDATE of the leader row waits for every FOR SHARE lock on it.
RowUnlocked == \A p \in Runner \X Thread : tx[p] = 0

\* Mutant: the fence compares the holder and forgets the epoch.
RowMatchesHolder(r, e) == row.holder = HolderId[r] /\ ~row.released

\* WHERE holder_id = $ AND epoch = $ AND released_at IS NULL
RowMatches(r, e) ==
    row.epoch = e /\ row.holder = HolderId[r] /\ ~row.released

\* Mutant: clear does not compare with the authority the caller observed.
ClearedAlways(r, e) == [auth EXCEPT ![r] = 0]

\* leaderState.clear: only the authority the caller observed is cleared.
Cleared(r, e) == [auth EXCEPT ![r] = IF @ = e THEN 0 ELSE @]

\* Mutant: the connection goes back to the pool with the lock still held.
NeverUnlocked(r) == {lock}

\* unlockAndReleaseLeaderConn: the lock is unlocked, or, when the connection
\* is closed under a failed unlock, survives until the server notices.
Unlocked(r) == IF lock = r THEN {NoRunner, Orphan} ELSE {lock}

-----------------------------------------------------------------------------
(* Acquisition *)

\* EnsureActive without a lease: pg_try_advisory_lock succeeds.
TryLock(r) ==
    /\ lease[r] = 0 /\ r \notin pending
    /\ lock = NoRunner
    /\ lock' = r
    /\ pending' = pending \cup {r}
    /\ UNCHANGED <<row, owner, lease, auth, snap, tx, lastCommit, faults>>

\* Mutants: the conflict branch keeps the epoch; it restarts the epoch; it
\* writes the process instead of its configured holder_id.
NextRowSameEpoch(r) ==
    [epoch |-> IF row.epoch = 0 THEN 1 ELSE row.epoch,
     holder |-> HolderId[r], released |-> FALSE]
NextRowFirstEpoch(r) ==
    [epoch |-> 1, holder |-> HolderId[r], released |-> FALSE]
NextRowOfProcess(r) ==
    [epoch |-> row.epoch + 1, holder |-> r, released |-> FALSE]

NextRow(r) ==
    [epoch |-> row.epoch + 1, holder |-> HolderId[r], released |-> FALSE]

\* The upsert commits on the lock session, then the authority is published.
AcquireEpoch(r) ==
    /\ r \in pending
    /\ lock = r
    /\ RowUnlocked
    /\ row' = NextRow(r)
    /\ owner' = r
    /\ lease' = [lease EXCEPT ![r] = row'.epoch]
    /\ auth' = [auth EXCEPT ![r] = row'.epoch]
    /\ pending' = pending \ {r}
    /\ UNCHANGED <<lock, snap, tx, lastCommit, faults>>

\* The upsert commits but its acknowledgement is lost: no authority.
AcquireEpochUnacknowledged(r) ==
    /\ r \in pending
    /\ lock = r
    /\ RowUnlocked
    /\ Fault
    /\ row' = NextRow(r)
    /\ owner' = r
    /\ lock' \in Unlocked(r)
    /\ pending' = pending \ {r}
    /\ UNCHANGED <<lease, auth, snap, tx, lastCommit>>

\* The upsert fails on a live session (timeout, cancellation): unlock.
AcquireFails(r) ==
    /\ r \in pending
    /\ lock = r
    /\ Fault
    /\ lock' \in Unlocked(r)
    /\ pending' = pending \ {r}
    /\ UNCHANGED <<row, owner, lease, auth, snap, tx, lastCommit>>

\* The session died under the acquisition, which therefore fails.
AcquireFailsOnDeadSession(r) ==
    /\ r \in pending
    /\ lock # r
    /\ pending' = pending \ {r}
    /\ UNCHANGED <<lock, row, owner, lease, auth, snap, tx, lastCommit, faults>>

-----------------------------------------------------------------------------
(* Heartbeat, validation, release *)

\* A success of Heartbeat or Validate changes timestamps only.  Any error of
\* either drops the lease and its connection.
DropLease(r) ==
    /\ auth' = Cleared(r, lease[r])
    /\ lease' = [lease EXCEPT ![r] = 0]
    /\ lock' \in Unlocked(r)
    /\ UNCHANGED <<row, owner, pending, snap, tx, lastCommit>>

\* Heartbeat or Validate finds the session dead, or the row replaced.
LeaseLossNoticed(r) ==
    /\ lease[r] # 0
    /\ lock # r \/ row.epoch # lease[r] \/ row.holder # HolderId[r]
    /\ DropLease(r)
    /\ UNCHANGED faults

\* Heartbeat or Validate fails although the session is healthy: a timeout, a
\* cancelled request, or a wait behind a FOR SHARE lock of this very runner.
LeaseCheckFails(r) ==
    /\ lease[r] # 0
    /\ Fault
    /\ DropLease(r)

\* Runner.Close: released_at is set if the row is still ours, then unlock.
ReleaseLease(r) ==
    /\ lease[r] # 0
    /\ lock = r
    /\ RowUnlocked
    /\ Fault
    /\ row' = IF RowMatches(r, lease[r]) THEN [row EXCEPT !.released = TRUE]
                                          ELSE row
    /\ auth' = Cleared(r, lease[r])
    /\ lease' = [lease EXCEPT ![r] = 0]
    /\ lock' \in Unlocked(r)
    /\ UNCHANGED <<owner, pending, snap, tx, lastCommit>>

-----------------------------------------------------------------------------
(* The fence *)

\* assertLeaderAuthority snapshots the authority before it queries the row.
SnapshotAuthority(r, t) ==
    /\ snap[<<r, t>>] = 0 /\ tx[<<r, t>>] = 0
    /\ auth[r] # 0
    /\ snap' = [snap EXCEPT ![<<r, t>>] = auth[r]]
    /\ UNCHANGED <<lock, row, owner, pending, lease, auth, tx, lastCommit, faults>>

\* The row matches the snapshot and stays share-locked to the end.
OpenFencedTx(r, t) ==
    /\ snap[<<r, t>>] # 0
    /\ RowMatches(r, snap[<<r, t>>])
    /\ tx' = [tx EXCEPT ![<<r, t>>] = snap[<<r, t>>]]
    /\ snap' = [snap EXCEPT ![<<r, t>>] = 0]
    /\ UNCHANGED <<lock, row, owner, pending, lease, auth, lastCommit, faults>>

\* No row matches: the authority is cleared if it is still the snapshot.
FenceRejected(r, t) ==
    /\ snap[<<r, t>>] # 0
    /\ ~RowMatches(r, snap[<<r, t>>])
    /\ auth' = Cleared(r, snap[<<r, t>>])
    /\ snap' = [snap EXCEPT ![<<r, t>>] = 0]
    /\ UNCHANGED <<lock, row, owner, pending, lease, tx, lastCommit, faults>>

CommitFencedTx(r, t) ==
    /\ tx[<<r, t>>] # 0
    /\ lastCommit' = tx[<<r, t>>]
    /\ tx' = [tx EXCEPT ![<<r, t>>] = 0]
    /\ UNCHANGED <<lock, row, owner, pending, lease, auth, snap, faults>>

\* The dispatched work fails, or the transaction's connection is lost.
AbortFencedTx(r, t) ==
    /\ tx[<<r, t>>] # 0
    /\ tx' = [tx EXCEPT ![<<r, t>>] = 0]
    /\ UNCHANGED <<lock, row, owner, pending, lease, auth, snap, lastCommit, faults>>

-----------------------------------------------------------------------------
(* Failures of the environment *)

\* The server ends a lock session; its client learns of it only later.
SessionDropped(r) ==
    /\ lock = r
    /\ Fault
    /\ lock' = NoRunner
    /\ UNCHANGED <<row, owner, pending, lease, auth, snap, tx, lastCommit>>

\* The server notices that an abandoned session is dead.
OrphanExpires ==
    /\ lock = Orphan
    /\ lock' = NoRunner
    /\ UNCHANGED <<row, owner, pending, lease, auth, snap, tx, lastCommit, faults>>

\* The process dies and restarts empty; the server rolls its work back.
RunnerCrash(r) ==
    /\ Fault
    /\ lock' \in Unlocked(r)
    /\ pending' = pending \ {r}
    /\ lease' = [lease EXCEPT ![r] = 0]
    /\ auth' = [auth EXCEPT ![r] = 0]
    /\ snap' = [p \in Runner \X Thread |-> IF p[1] = r THEN 0 ELSE snap[p]]
    /\ tx' = [p \in Runner \X Thread |-> IF p[1] = r THEN 0 ELSE tx[p]]
    /\ UNCHANGED <<row, owner, lastCommit>>

LeaderNext ==
    \/ OrphanExpires
    \/ \E r \in Runner :
        \/ TryLock(r)
        \/ AcquireEpoch(r)
        \/ AcquireEpochUnacknowledged(r)
        \/ AcquireFails(r)
        \/ AcquireFailsOnDeadSession(r)
        \/ LeaseLossNoticed(r)
        \/ LeaseCheckFails(r)
        \/ ReleaseLease(r)
        \/ SessionDropped(r)
        \/ RunnerCrash(r)
        \/ \E t \in Thread :
            \/ SnapshotAuthority(r, t)
            \/ OpenFencedTx(r, t)
            \/ FenceRejected(r, t)
            \/ CommitFencedTx(r, t)
            \/ AbortFencedTx(r, t)

LeaderSpec == LeaderInit /\ [][LeaderNext]_leaderVars

\* The loop polls for ever, so each runner keeps trying to lock, to finish an
\* acquisition, to heartbeat and to end its transactions; the server notices
\* dead sessions.  Nothing makes a fault happen.
LeaderFairness ==
    /\ WF_leaderVars(OrphanExpires)
    /\ \A r \in Runner :
        /\ WF_leaderVars(TryLock(r))
        /\ WF_leaderVars(AcquireEpoch(r))
        /\ WF_leaderVars(AcquireFailsOnDeadSession(r))
        /\ WF_leaderVars(LeaseLossNoticed(r))
        /\ \A t \in Thread : WF_leaderVars(CommitFencedTx(r, t) \/ AbortFencedTx(r, t))

LeaderFairSpec == LeaderSpec /\ LeaderFairness

-----------------------------------------------------------------------------
(* Properties *)

\* While a fenced transaction is open, the row it asserted still stands: a
\* takeover cannot slip in between assertLeaderAuthority and the commit.
OpenFenceIsCurrent ==
    \A r \in Runner, t \in Thread :
        tx[<<r, t>>] # 0 => RowMatches(r, tx[<<r, t>>])

\* Two runners never have fenced transactions open at the same time, however
\* stale the authority either of them caches.
FencedExclusion ==
    \A p, q \in Runner \X Thread : tx[p] # 0 /\ tx[q] # 0 => p[1] = q[1]

\* A lease whose session still holds the lock is never one that the heartbeat
\* accepts while the fence rejects it: such a leader would idle for ever.
LiveLeaseHasAuthority ==
    \A r \in Runner :
        lease[r] # 0 /\ lock = r =>
            auth[r] = lease[r] /\ RowMatches(r, lease[r])

\* Once a transaction of an epoch has committed, no transaction of an earlier
\* epoch ever commits: a deposed leader cannot write behind its successor.
CommitsNeverGoBack == [][lastCommit' >= lastCommit]_lastCommit

\* When faults stop, one runner ends up leading for good, and its fence passes.
LeaderEventually ==
    <>[](\E r \in Runner : lock = r /\ auth[r] # 0 /\ RowMatches(r, auth[r]))

\* An epoch a process remembers is an old one, or one it acquired itself.
OwnEpoch(r, e) == e <= row.epoch /\ (e # 0 /\ e = row.epoch => r = owner)

\* Two processes never share an epoch, even under one holder_id: whatever a
\* process caches, leases or asserts, the current epoch is its owner's alone.
OwnEpochsOnly ==
    \A r \in Runner, t \in Thread :
        \A e \in {auth[r], lease[r], snap[<<r, t>>], tx[<<r, t>>]} :
            OwnEpoch(r, e)

Promise == INSTANCE Leadership
    WITH row <- [epoch |-> row.epoch, holder |-> owner,
                 released |-> row.released],
         written <- lastCommit

\* Every step is a takeover that advances the epoch by one, a loss of cached
\* authority, a resignation or a write in the epoch the row names: leader.go
\* keeps the promise that the queue and the handlers rely on.
ImplementsLeadership == Promise!LeadershipSpec
==============================================================================
