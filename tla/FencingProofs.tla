---------------------------- MODULE FencingProofs ----------------------------
(***************************************************************************)
(* Proofs about the three components that keep an old process from acting  *)
(* after a new one has taken its place.                                    *)
(*                                                                         *)
(* LeaderEpoch, for any runners, threads and faults: epochs grow, so a     *)
(* fenced transaction of an old leader cannot commit behind a new one.     *)
(*                                                                         *)
(* WorkerRegistration, for any processes, generations and epochs, whatever *)
(* crashes, lost answers and operators do.                                 *)
(*                                                                         *)
(* MarkerContinuity, for any sources, readiness processes, janitors and    *)
(* faults.                                                                 *)
(***************************************************************************)
EXTENDS LeaderEpoch, WorkerRegistration, MarkerContinuity, TLAPS

(***************************************************************************)
(* The leader's epoch.                                                     *)
(***************************************************************************)

USE LeaderAssumption

(***************************************************************************)
(* The type invariant.                                                     *)
(***************************************************************************)

\* LeaderTypeOK: the leadership state keeps its shape in every behaviour.
THEOREM LeaderTypeCorrect == LeaderSpec => []LeaderTypeOK
<1>1. LeaderInit => LeaderTypeOK
  BY SMTT(30) DEF LeaderInit, LeaderTypeOK, Row
<1>2. LeaderTypeOK /\ [LeaderNext]_leaderVars => LeaderTypeOK'
  <2> SUFFICES ASSUME LeaderTypeOK, [LeaderNext]_leaderVars
               PROVE  LeaderTypeOK'
    BY ZenonT(30)
  <2> USE DEF LeaderTypeOK
  <2>1. CASE UNCHANGED leaderVars
    BY <2>1, ZenonT(30) DEF leaderVars
  <2>2. CASE OrphanExpires
    BY <2>2, ZenonT(30) DEF OrphanExpires
  <2>3. ASSUME NEW r \in Runner, TryLock(r)  PROVE LeaderTypeOK'
    BY <2>3, ZenonT(30) DEF TryLock
  <2>4. ASSUME NEW r \in Runner, AcquireEpoch(r)  PROVE LeaderTypeOK'
    BY <2>4, SMTT(30) DEF AcquireEpoch, NextRow, Row
  <2>5. ASSUME NEW r \in Runner, AcquireEpochUnacknowledged(r)
        PROVE  LeaderTypeOK'
    BY <2>5, SMTT(30) DEF AcquireEpochUnacknowledged, NextRow, Row, Unlocked, Fault
  <2>6. ASSUME NEW r \in Runner, AcquireFails(r)  PROVE LeaderTypeOK'
    BY <2>6, SMTT(30) DEF AcquireFails, Unlocked, Fault
  <2>7. ASSUME NEW r \in Runner, AcquireFailsOnDeadSession(r)
        PROVE  LeaderTypeOK'
    BY <2>7, ZenonT(30) DEF AcquireFailsOnDeadSession
  <2>8. ASSUME NEW r \in Runner, LeaseLossNoticed(r)  PROVE LeaderTypeOK'
    BY <2>8, ZenonT(30) DEF LeaseLossNoticed, DropLease, Unlocked, Cleared
  <2>9. ASSUME NEW r \in Runner, LeaseCheckFails(r)  PROVE LeaderTypeOK'
    BY <2>9, SMTT(30) DEF LeaseCheckFails, DropLease, Unlocked, Cleared, Fault
  <2>10. ASSUME NEW r \in Runner, ReleaseLease(r)  PROVE LeaderTypeOK'
    <3>1. row' \in Row
      BY <2>10, ZenonT(30) DEF ReleaseLease, Row
    <3> QED
      BY <2>10, <3>1, SMTT(30) DEF ReleaseLease, Unlocked, Cleared, Fault
  <2>11. ASSUME NEW r \in Runner, SessionDropped(r)  PROVE LeaderTypeOK'
    BY <2>11, SMTT(30) DEF SessionDropped, Fault
  <2>12. ASSUME NEW r \in Runner, RunnerCrash(r)  PROVE LeaderTypeOK'
    BY <2>12, SMTT(30) DEF RunnerCrash, Unlocked, Fault
  <2>13. ASSUME NEW r \in Runner, NEW t \in Thread, SnapshotAuthority(r, t)
         PROVE  LeaderTypeOK'
    BY <2>13, ZenonT(30) DEF SnapshotAuthority
  <2>14. ASSUME NEW r \in Runner, NEW t \in Thread, OpenFencedTx(r, t)
         PROVE  LeaderTypeOK'
    BY <2>14, ZenonT(30) DEF OpenFencedTx
  <2>15. ASSUME NEW r \in Runner, NEW t \in Thread, FenceRejected(r, t)
         PROVE  LeaderTypeOK'
    BY <2>15, ZenonT(30) DEF FenceRejected, Cleared
  <2>16. ASSUME NEW r \in Runner, NEW t \in Thread, CommitFencedTx(r, t)
         PROVE  LeaderTypeOK'
    BY <2>16, ZenonT(30) DEF CommitFencedTx
  <2>17. ASSUME NEW r \in Runner, NEW t \in Thread, AbortFencedTx(r, t)
         PROVE  LeaderTypeOK'
    BY <2>17, ZenonT(30) DEF AbortFencedTx
  <2> HIDE DEF LeaderTypeOK
  <2> QED
    BY <2>1, <2>2, <2>3, <2>4, <2>5, <2>6, <2>7, <2>8, <2>9, <2>10, <2>11, <2>12, <2>13, <2>14, <2>15, <2>16,
      <2>17, ZenonT(30) DEF LeaderNext
<1> QED
  BY <1>1, <1>2, PTL DEF LeaderSpec

(***************************************************************************)
(* The fence.  An open transaction pins the row it asserted, because the   *)
(* only three actions that write the row wait for RowUnlocked; and what    *)
(* has been committed never ran ahead of the row.  OwnEpochsOnly ties the  *)
(* row's epoch to one process, whatever holder_id the processes share.     *)
(***************************************************************************)

LeaderFenceInv ==
    /\ LeaderTypeOK
    /\ OwnEpochsOnly
    /\ OpenFenceIsCurrent
    /\ lastCommit <= row.epoch

\* While a transaction is open its row stands, so no write of the row happens.
LEMMA RowWritesWait ==
    ASSUME LeaderFenceInv, LeaderNext
    PROVE  \/ row' = row /\ owner' = owner
           \/ RowUnlocked /\ row'.epoch >= row.epoch /\ tx' = tx
<1> USE DEF LeaderFenceInv, LeaderTypeOK, Row
<1>1. CASE OrphanExpires
  BY <1>1, ZenonT(30) DEF OrphanExpires
<1>2. ASSUME NEW r \in Runner,
             AcquireEpoch(r) \/ AcquireEpochUnacknowledged(r) \/ ReleaseLease(r)
      PROVE  RowUnlocked /\ row'.epoch >= row.epoch /\ tx' = tx
  BY <1>2, SMTT(30) DEF AcquireEpoch, AcquireEpochUnacknowledged, ReleaseLease, NextRow
<1>3. ASSUME NEW r \in Runner,
             \/ TryLock(r) \/ AcquireFails(r) \/ AcquireFailsOnDeadSession(r)
             \/ LeaseLossNoticed(r) \/ LeaseCheckFails(r)
             \/ SessionDropped(r) \/ RunnerCrash(r)
      PROVE  row' = row /\ owner' = owner
  BY <1>3, ZenonT(30) DEF TryLock, AcquireFails, AcquireFailsOnDeadSession, RunnerCrash, LeaseLossNoticed,
    LeaseCheckFails, DropLease, SessionDropped
<1>4. ASSUME NEW r \in Runner, NEW t \in Thread,
             \/ SnapshotAuthority(r, t) \/ OpenFencedTx(r, t)
             \/ FenceRejected(r, t) \/ CommitFencedTx(r, t) \/ AbortFencedTx(r, t)
      PROVE  row' = row /\ owner' = owner
  BY <1>4, ZenonT(30) DEF SnapshotAuthority, OpenFencedTx, FenceRejected, CommitFencedTx, AbortFencedTx
<1> QED
  BY <1>1, <1>2, <1>3, <1>4, ZenonT(30) DEF LeaderNext

\* A step leaves a thread's transaction alone, ends it, or opens it on a row
\* that matches.
LEMMA FenceOpensOnMatch ==
    ASSUME LeaderFenceInv, LeaderNext, NEW q \in Runner, NEW u \in Thread
    PROVE  \/ tx'[<<q, u>>] \in {0, tx[<<q, u>>]}
           \/ row' = row /\ RowMatches(q, tx'[<<q, u>>])
<1> USE DEF LeaderFenceInv, LeaderTypeOK
<1>1. CASE OrphanExpires
  BY <1>1, ZenonT(30) DEF OrphanExpires
<1>2. ASSUME NEW r \in Runner,
             \/ TryLock(r) \/ AcquireEpoch(r) \/ AcquireEpochUnacknowledged(r)
             \/ AcquireFails(r) \/ AcquireFailsOnDeadSession(r)
             \/ LeaseLossNoticed(r) \/ LeaseCheckFails(r) \/ ReleaseLease(r)
             \/ SessionDropped(r)
      PROVE  tx' = tx
  BY <1>2, ZenonT(30) DEF TryLock, AcquireEpoch, AcquireEpochUnacknowledged, AcquireFails,
    AcquireFailsOnDeadSession, LeaseLossNoticed, LeaseCheckFails, DropLease, ReleaseLease, SessionDropped
<1>3. ASSUME NEW r \in Runner, RunnerCrash(r)
      PROVE  tx'[<<q, u>>] \in {0, tx[<<q, u>>]}
  BY <1>3, ZenonT(30) DEF RunnerCrash
<1>4. ASSUME NEW r \in Runner, NEW t \in Thread,
             \/ SnapshotAuthority(r, t) \/ FenceRejected(r, t)
             \/ CommitFencedTx(r, t) \/ AbortFencedTx(r, t)
      PROVE  tx'[<<q, u>>] \in {0, tx[<<q, u>>]}
  BY <1>4, ZenonT(30) DEF SnapshotAuthority, FenceRejected, CommitFencedTx, AbortFencedTx
<1>5. ASSUME NEW r \in Runner, NEW t \in Thread, OpenFencedTx(r, t)
      PROVE  \/ tx'[<<q, u>>] = tx[<<q, u>>]
             \/ row' = row /\ RowMatches(q, tx'[<<q, u>>])
  BY <1>5, ZenonT(30) DEF OpenFencedTx
<1> QED
  BY <1>1, <1>2, <1>3, <1>4, <1>5, ZenonT(30) DEF LeaderNext

\* lastCommit changes only to the epoch of an open transaction, row unchanged.
LEMMA CommitIsOfOpenFence ==
    ASSUME LeaderFenceInv, LeaderNext
    PROVE  \/ lastCommit' = lastCommit
           \/ /\ row' = row
              /\ \E r \in Runner, t \in Thread :
                    tx[<<r, t>>] # 0 /\ lastCommit' = tx[<<r, t>>]
<1>1. CASE OrphanExpires
  BY <1>1, ZenonT(30) DEF OrphanExpires
<1>2. ASSUME NEW r \in Runner,
             \/ TryLock(r) \/ AcquireEpoch(r) \/ AcquireEpochUnacknowledged(r)
             \/ AcquireFails(r) \/ AcquireFailsOnDeadSession(r)
             \/ LeaseLossNoticed(r) \/ LeaseCheckFails(r) \/ ReleaseLease(r)
             \/ SessionDropped(r) \/ RunnerCrash(r)
      PROVE  lastCommit' = lastCommit
  BY <1>2, ZenonT(30) DEF TryLock, AcquireEpoch, AcquireEpochUnacknowledged, AcquireFails,
    AcquireFailsOnDeadSession, LeaseLossNoticed, LeaseCheckFails, DropLease, ReleaseLease, SessionDropped, RunnerCrash
<1>3. ASSUME NEW r \in Runner, NEW t \in Thread,
             \/ SnapshotAuthority(r, t) \/ FenceRejected(r, t)
             \/ OpenFencedTx(r, t) \/ AbortFencedTx(r, t)
      PROVE  lastCommit' = lastCommit
  BY <1>3, ZenonT(30) DEF SnapshotAuthority, FenceRejected, OpenFencedTx, AbortFencedTx
<1>4. ASSUME NEW r \in Runner, NEW t \in Thread, CommitFencedTx(r, t)
      PROVE  row' = row /\ tx[<<r, t>>] # 0 /\ lastCommit' = tx[<<r, t>>]
  BY <1>4, ZenonT(30) DEF CommitFencedTx
<1> QED
  BY <1>1, <1>2, <1>3, <1>4, ZenonT(30) DEF LeaderNext

\* OwnEpochsOnly is inductive: only an upsert makes the row's epoch new, and it
\* makes it larger than every epoch any process remembers.
LEMMA OwnEpochsStep ==
    ASSUME LeaderFenceInv, LeaderTypeOK', LeaderNext
    PROVE  OwnEpochsOnly'
<1> SUFFICES ASSUME NEW q \in Runner, NEW u \in Thread
             PROVE  \A e \in {auth'[q], lease'[q], snap'[<<q, u>>],
                              tx'[<<q, u>>]} :
                        e <= row'.epoch /\ (e # 0 /\ e = row'.epoch => q = owner')
  BY ZenonT(30) DEF OwnEpochsOnly, OwnEpoch
<1> DEFINE Old == {auth[q], lease[q], snap[<<q, u>>], tx[<<q, u>>]}
           New == {auth'[q], lease'[q], snap'[<<q, u>>], tx'[<<q, u>>]}
           Own == \A e \in New :
                    e <= row'.epoch /\ (e # 0 /\ e = row'.epoch => q = owner')
<1>0. /\ \A e \in Old : e \in Nat /\ e <= row.epoch
                        /\ (e # 0 /\ e = row.epoch => q = owner)
      /\ row.epoch \in Nat
  BY SMTT(30) DEF LeaderFenceInv, OwnEpochsOnly, OwnEpoch, LeaderTypeOK, Row
<1>1. ASSUME New \subseteq Old \cup {0}, row' = row, owner' = owner
      PROVE  Own
  BY <1>0, <1>1, SMTT(30)
<1> USE DEF LeaderFenceInv, LeaderTypeOK
<1>2. ASSUME OrphanExpires  PROVE Own
  BY <1>1, <1>2, ZenonT(30) DEF OrphanExpires
<1>3. ASSUME NEW r \in Runner,
             \/ TryLock(r) \/ AcquireFails(r) \/ AcquireFailsOnDeadSession(r)
             \/ SessionDropped(r)
      PROVE  Own
  BY <1>1, <1>3, ZenonT(30) DEF TryLock, AcquireFails, AcquireFailsOnDeadSession, SessionDropped
<1>4. ASSUME NEW r \in Runner,
             LeaseLossNoticed(r) \/ LeaseCheckFails(r) \/ RunnerCrash(r)
      PROVE  Own
  BY <1>1, <1>4, SMTT(30) DEF LeaseLossNoticed, LeaseCheckFails, DropLease, Cleared, RunnerCrash
<1>5. ASSUME NEW r \in Runner, NEW t \in Thread,
             \/ SnapshotAuthority(r, t) \/ OpenFencedTx(r, t)
             \/ FenceRejected(r, t) \/ CommitFencedTx(r, t) \/ AbortFencedTx(r, t)
      PROVE  Own
  BY <1>1, <1>5, ZenonT(60) DEF SnapshotAuthority, OpenFencedTx, FenceRejected, CommitFencedTx, AbortFencedTx, Cleared
<1>6. ASSUME NEW r \in Runner, ReleaseLease(r)
      PROVE  Own
  <2>1. row'.epoch = row.epoch /\ owner' = owner
    BY <1>6, ZenonT(30) DEF ReleaseLease, Row
  <2>2. New \subseteq Old \cup {0}
    BY <1>6, ZenonT(30) DEF ReleaseLease, Cleared
  <2> QED
    BY <1>0, <2>1, <2>2, SMTT(30)
<1>7. ASSUME NEW r \in Runner,
             AcquireEpoch(r) \/ AcquireEpochUnacknowledged(r)
      PROVE  Own
  <2>1. row'.epoch = row.epoch + 1 /\ owner' = r
    BY <1>7, SMTT(30) DEF AcquireEpoch, AcquireEpochUnacknowledged, NextRow
  <2>2. New \subseteq Old \cup (IF q = r THEN {row'.epoch} ELSE {})
    BY <1>7, ZenonT(30) DEF AcquireEpoch, AcquireEpochUnacknowledged
  <2> QED
    BY <1>0, <2>1, <2>2, SMTT(30)
<1> HIDE DEF LeaderFenceInv, LeaderTypeOK, Own
<1>8. Own
  BY <1>2, <1>3, <1>4, <1>5, <1>6, <1>7, ZenonT(30) DEF LeaderNext
<1> QED
  BY <1>8, ZenonT(30) DEF Own

\* LeaderFenceInv: an open fenced transaction pins the row, and no committed epoch
\* is ahead of the row.
THEOREM FenceInvariant == LeaderSpec => []LeaderFenceInv
<1>1. LeaderInit => LeaderFenceInv
  BY SMTT(30) DEF LeaderInit, LeaderFenceInv, LeaderTypeOK, OwnEpochsOnly, OwnEpoch, OpenFenceIsCurrent, Row
<1>2. LeaderFenceInv /\ LeaderTypeOK' /\ [LeaderNext]_leaderVars => LeaderFenceInv'
  <2> SUFFICES ASSUME LeaderFenceInv, LeaderTypeOK', [LeaderNext]_leaderVars
               PROVE  LeaderFenceInv'
    BY ZenonT(30)
  <2>1. CASE UNCHANGED leaderVars
    BY <2>1, SMTT(30) DEF leaderVars, LeaderFenceInv, OwnEpochsOnly, OwnEpoch, OpenFenceIsCurrent, RowMatches
  <2>2. CASE LeaderNext
    <3>1. OpenFenceIsCurrent'
      <4> SUFFICES ASSUME NEW q \in Runner, NEW u \in Thread,
                          tx'[<<q, u>>] # 0
                   PROVE  RowMatches(q, tx[<<q, u>>])'
        BY ZenonT(30) DEF OpenFenceIsCurrent
      <4>1. CASE row' = row
        BY <2>2, <4>1, FenceOpensOnMatch, SMTT(30) DEF LeaderFenceInv, OpenFenceIsCurrent, RowMatches
      <4>2. CASE RowUnlocked /\ tx' = tx
        BY <4>2, ZenonT(30) DEF RowUnlocked
      <4> QED
        BY <2>2, <4>1, <4>2, RowWritesWait, ZenonT(30)
    <3>2. lastCommit' <= row'.epoch
      <4>1. row'.epoch >= row.epoch
        BY <2>2, RowWritesWait, SMTT(30) DEF LeaderFenceInv, LeaderTypeOK, Row
      <4>2. lastCommit' = lastCommit \/ lastCommit' = row'.epoch
        BY <2>2, CommitIsOfOpenFence, ZenonT(30) DEF LeaderFenceInv, OpenFenceIsCurrent, RowMatches
      <4> QED
        BY <4>1, <4>2, SMTT(30) DEF LeaderFenceInv, LeaderTypeOK, Row
    <3>3. OwnEpochsOnly'
      BY <2>2, OwnEpochsStep, ZenonT(30)
    <3> QED
      BY <3>1, <3>2, <3>3, ZenonT(30) DEF LeaderFenceInv
  <2> QED
    BY <2>1, <2>2, ZenonT(30)
<1> QED
  BY <1>1, <1>2, LeaderTypeCorrect, PTL DEF LeaderSpec

\* OwnEpochsOnly: two processes never share an epoch.
THEOREM EpochsHaveOneOwner == LeaderSpec => []OwnEpochsOnly
<1>1. LeaderFenceInv => OwnEpochsOnly
  BY ZenonT(30) DEF LeaderFenceInv
<1> QED
  BY <1>1, FenceInvariant, PTL

\* OpenFenceIsCurrent: no takeover between the fence's check and its commit.
THEOREM FencesAreCurrent == LeaderSpec => []OpenFenceIsCurrent
<1>1. LeaderFenceInv => OpenFenceIsCurrent
  BY ZenonT(30) DEF LeaderFenceInv
<1> QED
  BY <1>1, FenceInvariant, PTL

\* FencedExclusion: two runners never have fenced transactions open at once.
THEOREM FencesExclude == LeaderSpec => []FencedExclusion
<1>1. LeaderFenceInv => FencedExclusion
  <2> SUFFICES ASSUME LeaderFenceInv, NEW p \in Runner \X Thread,
                      NEW q \in Runner \X Thread, tx[p] # 0, tx[q] # 0
               PROVE  p[1] = q[1]
    BY ZenonT(30) DEF FencedExclusion
  <2>1. p = <<p[1], p[2]>> /\ q = <<q[1], q[2]>>
    BY SMTT(30)
  <2>2. tx[p] = row.epoch /\ tx[q] = row.epoch
    BY <2>1, SMTT(30) DEF LeaderFenceInv, OpenFenceIsCurrent, RowMatches
  <2>3. owner = p[1] /\ owner = q[1]
    BY <2>1, <2>2, SMTT(30) DEF LeaderFenceInv, OwnEpochsOnly, OwnEpoch
  <2> QED
    BY <2>3, ZenonT(30)
<1> QED
  BY <1>1, FenceInvariant, PTL

\* CommitsNeverGoBack: no transaction of a deposed epoch commits after one of
\* its successor.
THEOREM CommitsAreOrdered == LeaderSpec => CommitsNeverGoBack
<1>1. LeaderFenceInv /\ [LeaderNext]_leaderVars => [lastCommit' >= lastCommit]_lastCommit
  <2> SUFFICES ASSUME LeaderFenceInv, LeaderNext, lastCommit' # lastCommit
               PROVE  lastCommit' >= lastCommit
    BY ZenonT(30) DEF leaderVars
  <2> QED
    BY CommitIsOfOpenFence, ZenonT(30) DEF LeaderFenceInv, OpenFenceIsCurrent, RowMatches, LeaderTypeOK, Row
<1> QED
  BY <1>1, FenceInvariant, PTL DEF LeaderSpec, CommitsNeverGoBack

(***************************************************************************)
(* A live lease keeps its authority.  LiveLeaseHasAuthority is inductive   *)
(* with the types: only the lock's owner writes the row, and clearing      *)
(* compares the epoch, so a late rejection of an old snapshot is harmless. *)
(***************************************************************************)

\* LiveLeaseHasAuthority: a lease on a live session always passes the fence.
THEOREM LiveLeases == LeaderSpec => []LiveLeaseHasAuthority
<1>1. LeaderInit => LiveLeaseHasAuthority
  BY ZenonT(30) DEF LeaderInit, LiveLeaseHasAuthority
<1>2. LeaderTypeOK /\ LiveLeaseHasAuthority /\ [LeaderNext]_leaderVars
        => LiveLeaseHasAuthority'
  <2> SUFFICES ASSUME LeaderTypeOK, LiveLeaseHasAuthority,
                      [LeaderNext]_leaderVars,
                      NEW q \in Runner, lease'[q] # 0, lock' = q
               PROVE  auth'[q] = lease'[q] /\ RowMatches(q, lease[q])'
    BY ZenonT(30) DEF LiveLeaseHasAuthority
  <2> DEFINE Goal == auth'[q] = lease'[q] /\ RowMatches(q, lease[q])'
  <2> USE DEF LeaderTypeOK, LiveLeaseHasAuthority, RowMatches
  <2>1. CASE UNCHANGED leaderVars
    BY <2>1, ZenonT(30) DEF leaderVars
  <2>2. CASE OrphanExpires
    BY <2>2, ZenonT(30) DEF OrphanExpires
  <2>3. ASSUME NEW r \in Runner, TryLock(r)  PROVE Goal
    BY <2>3, ZenonT(30) DEF TryLock
  <2>4. ASSUME NEW r \in Runner, AcquireEpoch(r)  PROVE Goal
    BY <2>4, ZenonT(30) DEF AcquireEpoch, NextRow
  <2>5. ASSUME NEW r \in Runner,
               \/ AcquireEpochUnacknowledged(r) \/ AcquireFails(r)
        PROVE  Goal
    BY <2>5, ZenonT(30) DEF AcquireEpochUnacknowledged, AcquireFails, Unlocked
  <2>6. ASSUME NEW r \in Runner, AcquireFailsOnDeadSession(r)  PROVE Goal
    BY <2>6, ZenonT(30) DEF AcquireFailsOnDeadSession
  <2>7. ASSUME NEW r \in Runner, LeaseLossNoticed(r) \/ LeaseCheckFails(r)
        PROVE  Goal
    BY <2>7, ZenonT(30) DEF LeaseLossNoticed, LeaseCheckFails, DropLease, Unlocked, Cleared
  <2>8. ASSUME NEW r \in Runner, ReleaseLease(r)  PROVE Goal
    BY <2>8, ZenonT(30) DEF ReleaseLease, Unlocked
  <2>9. ASSUME NEW r \in Runner, SessionDropped(r) \/ RunnerCrash(r)  PROVE Goal
    BY <2>9, ZenonT(30) DEF SessionDropped, RunnerCrash, Unlocked
  <2>10. ASSUME NEW r \in Runner, NEW t \in Thread, FenceRejected(r, t)
         PROVE  Goal
    BY <2>10, ZenonT(30) DEF FenceRejected, Cleared
  <2>11. ASSUME NEW r \in Runner, NEW t \in Thread,
                \/ SnapshotAuthority(r, t) \/ OpenFencedTx(r, t)
                \/ CommitFencedTx(r, t) \/ AbortFencedTx(r, t)
         PROVE  Goal
    BY <2>11, ZenonT(30) DEF SnapshotAuthority, OpenFencedTx, CommitFencedTx, AbortFencedTx
  <2> HIDE DEF Goal, LeaderTypeOK, LiveLeaseHasAuthority
  <2> QED
    BY <2>1, <2>2, <2>3, <2>4, <2>5, <2>6, <2>7, <2>8, <2>9, <2>10, <2>11, ZenonT(30) DEF LeaderNext, Goal
<1> QED
  BY <1>1, <1>2, LeaderTypeCorrect, PTL DEF LeaderSpec

(***************************************************************************)
(* Refinement of Leadership.                                               *)
(***************************************************************************)

\* ImplementsLeadership: each leadership step is an abstract step or stutters.
THEOREM LeaderEpochRefines == LeaderSpec => ImplementsLeadership
<1>1. LeaderInit => Promise!LeadershipInit
  BY SMTT(30) DEF LeaderInit, Promise!LeadershipInit, Promise!NoRow
<1>2. LeaderFenceInv /\ LiveLeaseHasAuthority /\ [LeaderNext]_leaderVars
        => [Promise!LeadershipNext]_Promise!leadershipVars
  <2> SUFFICES ASSUME LeaderFenceInv, LiveLeaseHasAuthority,
                      [LeaderNext]_leaderVars
               PROVE  \/ Promise!LeadershipNext
                      \/ UNCHANGED <<row, owner, auth, lastCommit>>
    BY ZenonT(30) DEF Promise!leadershipVars
  <2> DEFINE Idle == UNCHANGED <<row, owner, auth, lastCommit>>
  <2>1. CASE UNCHANGED leaderVars
    BY <2>1, ZenonT(30) DEF leaderVars
  <2>2. ASSUME NEW r \in Runner,
               AcquireEpoch(r) \/ AcquireEpochUnacknowledged(r)
        PROVE  Promise!Takeover(r)
    <3>1. /\ row'.epoch = row.epoch + 1 /\ row'.released = FALSE
          /\ owner' = r /\ lastCommit' = lastCommit
      BY <2>2, SMTT(30) DEF AcquireEpoch, AcquireEpochUnacknowledged, NextRow
    <3>2. auth' = auth \/ auth' = [auth EXCEPT ![r] = row.epoch + 1]
      BY <2>2, SMTT(30) DEF AcquireEpoch, AcquireEpochUnacknowledged, NextRow
    <3> QED
      BY <3>1, <3>2, ZenonT(30) DEF Promise!Takeover
  <2>3. ASSUME NEW r \in Runner, ReleaseLease(r)
        PROVE  Promise!Resign(r)
    <3>1. auth[r] = lease[r] /\ RowMatches(r, lease[r])
      BY <2>3, ZenonT(30) DEF ReleaseLease, LiveLeaseHasAuthority
    <3>2. row.epoch = auth[r] /\ owner = r
      BY <2>3, <3>1, ZenonT(30) DEF ReleaseLease, RowMatches, LeaderFenceInv, OwnEpochsOnly, OwnEpoch
    <3>3. row'.epoch = row.epoch /\ row'.released = TRUE /\ owner' = owner
      BY <2>3, <3>1, ZenonT(30) DEF ReleaseLease, LeaderFenceInv, LeaderTypeOK, Row
    <3>4. auth' = [auth EXCEPT ![r] = 0] /\ lastCommit' = lastCommit
      BY <2>3, <3>1, ZenonT(30) DEF ReleaseLease, Cleared
    <3> QED
      BY <3>2, <3>3, <3>4, ZenonT(30) DEF Promise!Resign
  <2>4. ASSUME NEW r \in Runner, NEW t \in Thread, CommitFencedTx(r, t)
        PROVE  Promise!FencedWrite(r)
    <3>1. tx[<<r, t>>] = row.epoch /\ ~row.released /\ owner = r
      BY <2>4, ZenonT(30) DEF CommitFencedTx, LeaderFenceInv, OpenFenceIsCurrent, RowMatches, OwnEpochsOnly, OwnEpoch
    <3> QED
      BY <2>4, <3>1, ZenonT(30) DEF CommitFencedTx, Promise!FencedWrite
  <2>5. ASSUME NEW r \in Runner,
               \/ TryLock(r) \/ AcquireFails(r)
               \/ AcquireFailsOnDeadSession(r) \/ SessionDropped(r)
        PROVE  Idle
    BY <2>5, ZenonT(30) DEF TryLock, AcquireFails, AcquireFailsOnDeadSession, SessionDropped
  <2>6. ASSUME NEW r \in Runner,
               LeaseLossNoticed(r) \/ LeaseCheckFails(r) \/ RunnerCrash(r)
        PROVE  Promise!Forget(r) \/ Idle
    BY <2>6, ZenonT(30) DEF LeaseLossNoticed, LeaseCheckFails, DropLease, RunnerCrash, Cleared, LeaderFenceInv,
      LeaderTypeOK, Promise!Forget
  <2>7. ASSUME NEW r \in Runner, NEW t \in Thread, FenceRejected(r, t)
        PROVE  Promise!Forget(r) \/ Idle
    BY <2>7, ZenonT(30) DEF FenceRejected, Cleared, LeaderFenceInv, LeaderTypeOK, Promise!Forget
  <2>8. ASSUME NEW r \in Runner, NEW t \in Thread,
               \/ SnapshotAuthority(r, t) \/ OpenFencedTx(r, t)
               \/ AbortFencedTx(r, t)
        PROVE  Idle
    BY <2>8, ZenonT(30) DEF SnapshotAuthority, OpenFencedTx, AbortFencedTx
  <2>9. CASE OrphanExpires
    BY <2>9, ZenonT(30) DEF OrphanExpires
  <2> QED
    BY <2>1, <2>2, <2>3, <2>4, <2>5, <2>6, <2>7, <2>8, <2>9, ZenonT(30) DEF LeaderNext, Promise!LeadershipNext
<1> QED
  BY <1>1, <1>2, FenceInvariant, LiveLeases, PTL
     DEF LeaderSpec, ImplementsLeadership, Promise!LeadershipSpec

(***************************************************************************)
(* Registrations and their leases.                                         *)
(***************************************************************************)

HIDE LeaderAssumption
USE RegistrationConstants

Shape ==
    /\ newest \in Nat /\ newest <= MaxEpoch
    /\ DOMAIN reg = Epoch /\ \A e \in Epoch : DOMAIN reg[e] = {"status", "gen", "fresh"}
    /\ DOMAIN grant = Gen
    /\ held \in [Proc -> Nat] /\ fence \in [Proc -> Nat] /\ committed \in Nat

\* Epochs above the newest are not in use.
Used ==
    /\ \A e \in Epoch : reg[e].status # "none" =>
            (e <= newest /\ reg[e].gen \in Gen /\ grant[reg[e].gen] \in {"active", "revoked"})
    /\ committed <= newest

\* A process holds a lease of its own generation.
HeldInv ==
    \A p \in Proc : held[p] # 0 => (held[p] \in Epoch /\ held[p] <= newest /\ reg[held[p]].gen = GenOf[p])

\* Only the newest registration is active, and an open transaction works
\* under it and under an active grant.
FenceInv ==
    \A p \in Proc : fence[p] # 0 => /\ fence[p] \in Epoch /\ reg[fence[p]].status = "active"
                                    /\ grant[reg[fence[p]].gen] = "active"

RegistrationInv == Shape /\ Used /\ HeldInv /\ ActiveIsNewest /\ FenceInv /\ OneActiveGrant

-----------------------------------------------------------------------------
(* The locks. *)

\* The epoch a registering process or an operator locks is the newest, if any
\* registration is active.
LEMMA ActiveEpochIs ==
    ASSUME ActiveIsNewest, Shape
    PROVE  \A e \in Epoch : reg[e].status = "active" => (e = newest /\ ActiveEpoch = e)
<1> SUFFICES ASSUME NEW e \in Epoch, reg[e].status = "active"  PROVE e = newest /\ ActiveEpoch = e
  BY ZenonT(30)
<1>1. e \in Active /\ Active \subseteq {newest}
  BY ZenonT(30) DEF Active, ActiveIsNewest
<1>2. Active = {e} /\ e = newest
  BY <1>1, ZenonT(30)
<1>3. (CHOOSE x \in Active : TRUE) \in Active
  BY <1>1, ZenonT(30)
<1> QED
  BY <1>2, <1>3, ZenonT(30) DEF ActiveEpoch

\* Whoever has the exclusive lock of the active registration meets no open
\* transaction of the service.
LEMMA NobodyInside ==
    ASSUME ActiveIsNewest, Shape, FenceInv, Lockable(ActiveEpoch)  PROVE \A p \in Proc : fence[p] = 0
<1> SUFFICES ASSUME NEW p \in Proc, fence[p] # 0  PROVE FALSE
  BY ZenonT(30)
<1>1. fence[p] \in Epoch /\ reg[fence[p]].status = "active"
  BY ZenonT(30) DEF FenceInv
<1>2. ActiveEpoch = fence[p]
  BY <1>1, ActiveEpochIs, ZenonT(30)
<1> QED
  BY <1>2, ZenonT(30) DEF Lockable

-----------------------------------------------------------------------------
(* The steps that write registrations. *)

\* One registration ends, and no open transaction required it.
Ends(e) ==
    /\ e \in Epoch /\ reg[e].status = "active" /\ \A p \in Proc : fence[p] # e
    /\ \E ending \in {"revoked", "expired"} : reg' = Ended(e, ending)

LEMMA EndedShape ==
    ASSUME Shape, NEW e \in Epoch, NEW ending, reg' = Ended(e, ending)
    PROVE  /\ DOMAIN reg' = Epoch /\ reg'[e].status = ending
           /\ \A x \in Epoch : /\ DOMAIN reg'[x] = {"status", "gen", "fresh"}
                               /\ reg'[x].gen = reg[x].gen /\ reg'[x].fresh = reg[x].fresh
                               /\ x # e => reg'[x] = reg[x]
  BY ZenonT(30) DEF Shape, Ended

LEMMA EndKeeps ==
    ASSUME RegistrationInv, NEW e, Ends(e), UNCHANGED <<grant, newest, fence, committed>>,
           held' \in [Proc -> Nat], \A p \in Proc : held'[p] \in {0, held[p]}
    PROVE  RegistrationInv'
<1>0. Shape /\ Used /\ HeldInv /\ ActiveIsNewest /\ FenceInv /\ OneActiveGrant /\ e \in Epoch
  BY ZenonT(30) DEF RegistrationInv, Ends
<1>1. PICK ending \in {"revoked", "expired"} : reg' = Ended(e, ending)
  BY ZenonT(30) DEF Ends
<1>2. /\ DOMAIN reg' = Epoch /\ reg'[e].status = ending
      /\ \A x \in Epoch : /\ DOMAIN reg'[x] = {"status", "gen", "fresh"}
                          /\ reg'[x].gen = reg[x].gen /\ reg'[x].fresh = reg[x].fresh
                          /\ x # e => reg'[x] = reg[x]
  BY <1>0, <1>1, EndedShape, ZenonT(30)
<1>3. Shape' /\ OneActiveGrant'
  BY <1>0, <1>2, ZenonT(30) DEF Shape, OneActiveGrant
<1>4. reg[e].status = "active" /\ \A p \in Proc : fence[p] # e
  BY ZenonT(30) DEF Ends
<1>5. Used'
  BY <1>0, <1>2, <1>4, SMTT(30) DEF Used
<1>6. HeldInv'
  BY <1>0, <1>2, SMTT(30) DEF HeldInv
<1>7. ActiveIsNewest'
  BY <1>0, <1>2, ZenonT(30) DEF ActiveIsNewest, Active
<1>8. FenceInv'
  BY <1>0, <1>2, <1>4, SMTT(30) DEF FenceInv
<1> QED
  BY <1>3, <1>5, <1>6, <1>7, <1>8, ZenonT(30) DEF RegistrationInv

\* A registration: what was active is superseded.
LEMMA RegisterEffect ==
    ASSUME RegistrationInv, NEW p \in Proc, Registered(p)
    PROVE  /\ newest' = newest + 1 /\ newest' \in Epoch /\ UNCHANGED <<grant, fence, committed>>
           /\ DOMAIN reg' = Epoch
           /\ \A x \in Epoch : /\ DOMAIN reg'[x] = {"status", "gen", "fresh"}
                               /\ x # newest' => reg'[x].gen = reg[x].gen
           /\ reg'[newest'].status = "active" /\ reg'[newest'].gen = GenOf[p] /\ reg'[newest'].fresh
           /\ \A x \in Epoch : x # newest' => /\ reg'[x].status # "active"
                                              /\ reg'[x].status # "none" => reg[x].status # "none"
           /\ \A x \in Proc : fence[x] = 0
           /\ grant[GenOf[p]] = "active"
<1>0. Shape /\ Used /\ ActiveIsNewest /\ FenceInv
  BY ZenonT(30) DEF RegistrationInv
<1>1. /\ Lockable(ActiveEpoch) /\ ActiveEpoch = seen /\ grant[GenOf[p]] = "active" /\ newest + 1 \in Epoch
      /\ newest' = IF newest + 1 > newest THEN newest + 1 ELSE newest
      /\ reg' = [e \in Epoch |->
                   IF e = newest + 1 THEN [status |-> "active", gen |-> GenOf[p], fresh |-> TRUE]
                   ELSE IF e = seen THEN [reg[e] EXCEPT !.status = "revoked"] ELSE reg[e]]
      /\ UNCHANGED <<grant, fence, committed>>
  BY ZenonT(30) DEF Registered, Locked, NextEpoch
<1>2. newest' = newest + 1
  BY <1>0, <1>1, SMTT(30) DEF Shape
<1>3. \A x \in Proc : fence[x] = 0
  BY <1>0, <1>1, NobodyInside, ZenonT(30)
<1>4. \A x \in Epoch : reg[x].status = "active" => x = seen
  BY <1>0, <1>1, ActiveEpochIs, ZenonT(30)
<1>5. ASSUME NEW x \in Epoch, x # newest'
      PROVE  /\ DOMAIN reg'[x] = {"status", "gen", "fresh"} /\ reg'[x].gen = reg[x].gen
             /\ reg'[x].status # "active"
  <2>1. CASE x = seen
    BY <1>0, <1>1, <1>2, <1>5, <2>1, ZenonT(30) DEF Shape
  <2>2. CASE x # seen
    BY <1>0, <1>1, <1>2, <1>4, <1>5, <2>2, ZenonT(30) DEF Shape
  <2> QED
    BY <2>1, <2>2, ZenonT(30)
<1>6. ASSUME NEW x \in Epoch, x # newest', reg'[x].status # "none"  PROVE reg[x].status # "none"
  <2>1. CASE x = seen
    <3>1. ActiveEpoch # 0
      BY <1>1, <2>1, SMTT(30) DEF Epoch
    <3>2. Active # {} /\ ActiveEpoch = CHOOSE e \in Active : TRUE
      BY <3>1, ZenonT(30) DEF ActiveEpoch
    <3>3. seen \in Active
      BY <1>1, <3>2, ZenonT(30)
    <3> QED
      BY <2>1, <3>3, ZenonT(30) DEF Active
  <2>2. CASE x # seen
    BY <1>1, <1>2, <1>6, <2>2, ZenonT(30)
  <2> QED
    BY <2>1, <2>2, ZenonT(30)
<1>7. /\ reg'[newest'] = [status |-> "active", gen |-> GenOf[p], fresh |-> TRUE] /\ DOMAIN reg' = Epoch
  BY <1>1, <1>2, ZenonT(30)
<1> QED
  BY <1>1, <1>2, <1>3, <1>5, <1>6, <1>7, ZenonT(30)

LEMMA RegisterKeeps ==
    ASSUME RegistrationInv, NEW p \in Proc, Registered(p),
           UNCHANGED held \/ held' = [held EXCEPT ![p] = NextEpoch]
    PROVE  RegistrationInv'
<1>0. Shape /\ Used /\ HeldInv /\ OneActiveGrant
  BY ZenonT(30) DEF RegistrationInv
<1>1. /\ newest' = newest + 1 /\ newest' \in Epoch /\ UNCHANGED <<grant, fence, committed>>
      /\ DOMAIN reg' = Epoch
      /\ \A x \in Epoch : /\ DOMAIN reg'[x] = {"status", "gen", "fresh"}
                          /\ x # newest' => reg'[x].gen = reg[x].gen
      /\ reg'[newest'].status = "active" /\ reg'[newest'].gen = GenOf[p]
      /\ \A x \in Epoch : x # newest' => /\ reg'[x].status # "active"
                                         /\ reg'[x].status # "none" => reg[x].status # "none"
      /\ \A x \in Proc : fence[x] = 0
      /\ grant[GenOf[p]] = "active"
  BY RegisterEffect, ZenonT(30)
<1>2. held' \in [Proc -> Nat] /\ \A x \in Proc : held'[x] \in {held[x], newest'} /\ (held'[x] = held[x] \/ x = p)
  BY <1>0, <1>1, SMTT(30) DEF Shape, NextEpoch
<1>3. Shape'
  BY <1>0, <1>1, <1>2, SMTT(30) DEF Shape, Epoch
<1>4. Used'
  BY <1>0, <1>1, Z3T(30) DEF Used, Shape, Epoch
<1>5. HeldInv'
  BY <1>0, <1>1, <1>2, SMTT(30) DEF HeldInv, Shape
<1>6. ActiveIsNewest'
  <2>1. ASSUME NEW x \in Active'  PROVE x = newest'
    <3>1. x \in Epoch /\ reg'[x].status = "active"
      BY <2>1, ZenonT(30) DEF Active
    <3> QED
      BY <1>1, <3>1, ZenonT(30)
  <2> QED
    BY <2>1, ZenonT(30) DEF ActiveIsNewest
<1>7. FenceInv' /\ OneActiveGrant'
  BY <1>0, <1>1, ZenonT(30) DEF FenceInv, OneActiveGrant
<1> QED
  BY <1>3, <1>4, <1>5, <1>6, <1>7, ZenonT(30) DEF RegistrationInv

-----------------------------------------------------------------------------
(* The other steps. *)

SameRegistrations == DOMAIN reg' = Epoch /\ \A e \in Epoch : reg'[e] = reg[e]

\* Registrations and grants stay; transactions may open only under both.
LEMMA ProcessKeeps ==
    ASSUME RegistrationInv, UNCHANGED <<grant, newest>>, SameRegistrations,
           held' \in [Proc -> Nat], \A p \in Proc : held'[p] \in {0, held[p]},
           fence' \in [Proc -> Nat],
           \A p \in Proc : \/ fence'[p] \in {0, fence[p]}
                           \/ fence'[p] = held[p] /\ CanLogin(p) /\ LeaseLive(held[p]),
           committed' = committed \/ \E p \in Proc : fence[p] # 0 /\ committed' = fence[p]
    PROVE  RegistrationInv'
<1>0. Shape /\ Used /\ HeldInv /\ ActiveIsNewest /\ FenceInv /\ OneActiveGrant
  BY ZenonT(30) DEF RegistrationInv
<1>1. FenceInv'
  <2> SUFFICES ASSUME NEW p \in Proc, fence'[p] # 0
               PROVE  /\ fence'[p] \in Epoch /\ reg[fence'[p]].status = "active"
                      /\ grant[reg[fence'[p]].gen] = "active"
    BY ZenonT(30) DEF FenceInv, SameRegistrations
  <2>1. CASE fence'[p] = fence[p]
    BY <1>0, <2>1, ZenonT(30) DEF FenceInv
  <2>2. CASE fence'[p] = held[p] /\ CanLogin(p) /\ LeaseLive(held[p])
    <3>1. held[p] \in Epoch /\ reg[held[p]].gen = GenOf[p] /\ reg[held[p]].status = "active"
      BY <1>0, <2>2, ZenonT(30) DEF HeldInv, LeaseLive
    <3>2. grant[GenOf[p]] \in {"active", "revoked"} /\ grant[GenOf[p]] # "revoked"
      BY <1>0, <2>2, <3>1, ZenonT(30) DEF Used, CanLogin
    <3> QED
      BY <2>2, <3>1, <3>2, ZenonT(30)
  <2> QED
    BY <2>1, <2>2, ZenonT(30)
<1>2. committed' \in Nat /\ committed' <= newest
  <2>1. ASSUME NEW p \in Proc, fence[p] # 0  PROVE fence[p] \in Nat /\ fence[p] <= newest
    BY <1>0, <2>1, ZenonT(30) DEF FenceInv, Used, Shape
  <2> QED
    BY <1>0, <2>1, ZenonT(30) DEF Shape, Used
<1>3. Shape' /\ Used'
  BY <1>0, <1>2, ZenonT(30) DEF Shape, Used, SameRegistrations
<1>4. HeldInv'
  BY <1>0, SMTT(30) DEF HeldInv, SameRegistrations
<1>5. ActiveIsNewest' /\ OneActiveGrant'
  BY <1>0, ZenonT(30) DEF ActiveIsNewest, Active, OneActiveGrant, SameRegistrations
<1> QED
  BY <1>1, <1>3, <1>4, <1>5, ZenonT(30) DEF RegistrationInv

\* Operators change grants only while no transaction of the service is open.
LEMMA GrantsKeep ==
    ASSUME RegistrationInv, NEW g \in Gen, GrantUpsert(g) \/ GrantActivate(g) \/ GrantRevoke(g)
    PROVE  RegistrationInv'
<1>0. Shape /\ Used /\ HeldInv /\ ActiveIsNewest /\ FenceInv /\ OneActiveGrant
  BY ZenonT(30) DEF RegistrationInv
<1>1. /\ Lockable(ActiveEpoch) /\ UNCHANGED <<newest, held, fence, committed>>
      /\ UNCHANGED reg \/ reg' = [e \in Epoch |-> IF e \in Active /\ reg[e].gen = g
                                                 THEN [reg[e] EXCEPT !.status = "revoked"] ELSE reg[e]]
      /\ \/ grant[g] \in {"none", "pending"} /\ grant' = [grant EXCEPT ![g] = "pending"]
         \/ grant[g] = "pending" /\ grant' = Activated(g)
         \/ grant' = [grant EXCEPT ![g] = "revoked"]
  BY ZenonT(30) DEF GrantUpsert, GrantActivate, GrantRevoke, OperatorLocks, operatorKeeps
<1>2. \A p \in Proc : fence[p] = 0
  BY <1>0, <1>1, NobodyInside, ZenonT(30)
<1>3. /\ DOMAIN reg' = Epoch
      /\ \A e \in Epoch : /\ DOMAIN reg'[e] = {"status", "gen", "fresh"} /\ reg'[e].gen = reg[e].gen
                          /\ reg'[e].status \in {reg[e].status, "revoked"}
                          /\ reg[e].status = "none" => reg'[e].status = "none"
  <2>1. CASE UNCHANGED reg
    BY <1>0, <2>1, ZenonT(30) DEF Shape
  <2>2. CASE reg' = [e \in Epoch |-> IF e \in Active /\ reg[e].gen = g
                                     THEN [reg[e] EXCEPT !.status = "revoked"] ELSE reg[e]]
    BY <1>0, <2>2, ZenonT(30) DEF Shape, Active
  <2> QED
    BY <1>1, <2>1, <2>2, ZenonT(30)
<1>4. /\ DOMAIN grant' = Gen
      /\ \A h \in Gen : /\ grant[h] \in {"active", "revoked"} => grant'[h] \in {"active", "revoked"}
  BY <1>0, <1>1, ZenonT(30) DEF Shape, Activated
<1>5. OneActiveGrant'
  <2>1. CASE grant' = Activated(g)
    BY <2>1, ZenonT(30) DEF OneActiveGrant, Activated
  <2>2. CASE grant' = [grant EXCEPT ![g] = "pending"] \/ grant' = [grant EXCEPT ![g] = "revoked"]
    BY <1>0, <2>2, ZenonT(30) DEF OneActiveGrant, Shape
  <2> QED
    BY <1>1, <2>1, <2>2, ZenonT(30)
<1>6. Shape' /\ HeldInv'
  BY <1>0, <1>1, <1>3, <1>4, ZenonT(30) DEF Shape, HeldInv
<1>7. Used'
  BY <1>0, <1>1, <1>3, <1>4, ZenonT(30) DEF Used, Shape
<1>8. ActiveIsNewest' /\ FenceInv'
  BY <1>0, <1>1, <1>2, <1>3, SMTT(30) DEF ActiveIsNewest, Active, FenceInv
<1> QED
  BY <1>5, <1>6, <1>7, <1>8, ZenonT(30) DEF RegistrationInv

LEMMA ExpiryKeeps == ASSUME RegistrationInv, NEW e \in Epoch, LeaseExpires(e)  PROVE RegistrationInv'
<1>0. Shape /\ Used /\ HeldInv /\ ActiveIsNewest /\ FenceInv /\ OneActiveGrant
  BY ZenonT(30) DEF RegistrationInv
<1>1. reg' = [reg EXCEPT ![e].fresh = FALSE] /\ UNCHANGED <<grant, newest, held, fence, committed>>
  BY ZenonT(30) DEF LeaseExpires
<1>2. /\ DOMAIN reg' = Epoch
      /\ \A x \in Epoch : /\ DOMAIN reg'[x] = {"status", "gen", "fresh"} /\ reg'[x].gen = reg[x].gen
                          /\ reg'[x].status = reg[x].status
  BY <1>0, <1>1, ZenonT(30) DEF Shape
<1>3. Shape' /\ HeldInv' /\ OneActiveGrant'
  BY <1>0, <1>1, <1>2, ZenonT(30) DEF Shape, HeldInv, OneActiveGrant
<1>4. Used'
  BY <1>0, <1>1, <1>2, ZenonT(30) DEF Used, Shape
<1>5. ActiveIsNewest' /\ FenceInv'
  BY <1>0, <1>1, <1>2, SMTT(30) DEF ActiveIsNewest, Active, FenceInv
<1> QED
  BY <1>3, <1>4, <1>5, ZenonT(30) DEF RegistrationInv

\* What each step is, as far as leases are concerned.
Registers == \E p \in Proc : Registered(p) /\ (UNCHANGED held \/ held' = [held EXCEPT ![p] = NextEpoch])
LeaseEnds == \E e \in Epoch : /\ Ends(e) /\ UNCHANGED <<grant, newest, fence, committed>>
                              /\ held' \in [Proc -> Nat] /\ \A p \in Proc : held'[p] \in {0, held[p]}
Works ==
    /\ UNCHANGED <<grant, newest>> /\ SameRegistrations
    /\ held' \in [Proc -> Nat] /\ \A p \in Proc : held'[p] \in {0, held[p]}
    /\ fence' \in [Proc -> Nat]
    /\ \A p \in Proc : \/ fence'[p] \in {0, fence[p]}
                       \/ fence'[p] = held[p] /\ CanLogin(p) /\ LeaseLive(held[p])
    /\ committed' = committed \/ \E p \in Proc : fence[p] # 0 /\ committed' = fence[p]
Grants == \E g \in Gen : GrantUpsert(g) \/ GrantActivate(g) \/ GrantRevoke(g)
Expires == \E e \in Epoch : LeaseExpires(e)

LEMMA Steps ==
    ASSUME Shape, RegistrationNext  PROVE Registers \/ LeaseEnds \/ Works \/ Grants \/ Expires
<1>0. /\ UNCHANGED held => (held' \in [Proc -> Nat] /\ \A p \in Proc : held'[p] \in {0, held[p]})
      /\ \A p \in Proc : held' = [held EXCEPT ![p] = 0] =>
            (held' \in [Proc -> Nat] /\ \A x \in Proc : held'[x] \in {0, held[x]})
  BY SMTT(30) DEF Shape
<1>1. ASSUME NEW p \in Proc, RegisterCommit(p) \/ RegisterUnacknowledged(p)  PROVE Registers
  BY <1>1, ZenonT(30) DEF RegisterCommit, RegisterUnacknowledged, Registers
<1>2. ASSUME NEW p \in Proc,
             \/ RegisterBegin(p) \/ RegisterFails(p) \/ Heartbeat(p) \/ LeaseLost(p) \/ ReleaseGivesUp(p)
             \/ OpenFence(p) \/ CommitFence(p) \/ AbortFence(p) \/ Shutdown(p) \/ Crash(p)
      PROVE  Works
  <2>1. /\ UNCHANGED <<grant, newest, reg>>
        /\ UNCHANGED held \/ held' = [held EXCEPT ![p] = 0]
        /\ \/ UNCHANGED fence \/ fence' = [fence EXCEPT ![p] = 0]
           \/ fence' = [fence EXCEPT ![p] = held[p]] /\ CanLogin(p) /\ LeaseLive(held[p])
        /\ committed' = committed \/ (fence[p] # 0 /\ committed' = fence[p])
    BY <1>2, ZenonT(30) DEF RegisterBegin, RegisterFails, Heartbeat, LeaseLost, ReleaseGivesUp, OpenFence,
      CommitFence, AbortFence, Shutdown, Crash
  <2>2. /\ fence' \in [Proc -> Nat]
        /\ \A x \in Proc : \/ fence'[x] \in {0, fence[x]}
                           \/ fence'[x] = held[x] /\ CanLogin(x) /\ LeaseLive(held[x])
    <3>1. CASE UNCHANGED fence \/ fence' = [fence EXCEPT ![p] = 0]
      BY <3>1, SMTT(30) DEF Shape
    <3>2. CASE fence' = [fence EXCEPT ![p] = held[p]] /\ CanLogin(p) /\ LeaseLive(held[p])
      BY <3>2, ZenonT(30) DEF Shape
    <3> QED
      BY <2>1, <3>1, <3>2, ZenonT(30)
  <2> QED
    BY <1>0, <2>1, <2>2, ZenonT(30) DEF Works, SameRegistrations, Shape
<1>3. ASSUME NEW p \in Proc, Release(p)  PROVE LeaseEnds \/ Works
  <2>1. /\ Lockable(held[p]) /\ held' = [held EXCEPT ![p] = 0]
        /\ reg' = IF reg[held[p]].status = "active" THEN Ended(held[p], "revoked") ELSE reg
        /\ UNCHANGED <<grant, newest, fence, committed>>
    BY <1>3, ZenonT(30) DEF Release
  <2>2. held' \in [Proc -> Nat] /\ \A x \in Proc : held'[x] \in {0, held[x]}
    BY <1>0, <2>1, ZenonT(30)
  <2>3. CASE held[p] \in Epoch /\ reg[held[p]].status = "active"
    <3>1. \A x \in Proc : fence[x] # held[p]
      BY <2>1, <2>3, SMTT(30) DEF Lockable, Epoch
    <3> QED
      BY <2>1, <2>2, <2>3, <3>1, ZenonT(30) DEF LeaseEnds, Ends
  <2>4. CASE held[p] \notin Epoch \/ reg[held[p]].status # "active"
    <3>1. CASE reg[held[p]].status # "active"
      BY <2>1, <2>2, <3>1, ZenonT(30) DEF Works, SameRegistrations, Shape
    <3>2. CASE held[p] \notin Epoch
      <4>1. SameRegistrations
        BY <2>1, <3>2, ZenonT(30) DEF Ended, Shape, SameRegistrations
      <4> QED
        BY <2>1, <2>2, <4>1, ZenonT(30) DEF Works, Shape
    <3> QED
      BY <2>4, <3>1, <3>2, ZenonT(30)
  <2> QED
    BY <2>3, <2>4, ZenonT(30)
<1>4. ASSUME NEW e \in Epoch, RegistrationRevoke(e) \/ RegistrationExpire(e)  PROVE LeaseEnds
  <2>1. /\ Lockable(e) /\ reg[e].status = "active" /\ (reg' = Ended(e, "revoked") \/ reg' = Ended(e, "expired"))
        /\ UNCHANGED <<grant, newest, held, fence, committed>>
    BY <1>4, ZenonT(30) DEF RegistrationRevoke, RegistrationExpire, operatorKeeps
  <2>2. \A x \in Proc : fence[x] # e
    BY <2>1, SMTT(30) DEF Lockable, Epoch
  <2> QED
    BY <1>0, <2>1, <2>2, ZenonT(30) DEF LeaseEnds, Ends
<1> QED
  BY <1>1, <1>2, <1>3, <1>4, ZenonT(30) DEF RegistrationNext, Process, Transaction, ProcessFault, Operator,
    Grants, Expires

LEMMA RegistrationStep == RegistrationInv /\ [RegistrationNext]_registrationVars => RegistrationInv'
<1> SUFFICES ASSUME RegistrationInv, [RegistrationNext]_registrationVars  PROVE RegistrationInv'
  BY ZenonT(30)
<1>1. CASE UNCHANGED registrationVars
  BY <1>1, ZenonT(30) DEF registrationVars, RegistrationInv, Shape, Used, HeldInv, FenceInv, ActiveIsNewest,
    Active, OneActiveGrant
<1>2. CASE RegistrationNext
  <2>1. Registers \/ LeaseEnds \/ Works \/ Grants \/ Expires
    BY <1>2, Steps, ZenonT(30) DEF RegistrationInv
  <2> QED
    BY <2>1, RegisterKeeps, EndKeeps, ProcessKeeps, GrantsKeep, ExpiryKeeps, ZenonT(30) DEF Registers,
      LeaseEnds, Works, Grants, Expires
<1> QED
  BY <1>1, <1>2, ZenonT(30)

LEMMA RegistrationStart == RegistrationInit => RegistrationInv
<1> SUFFICES ASSUME RegistrationInit  PROVE RegistrationInv
  BY ZenonT(30)
<1>1. /\ grant = [g \in Gen |-> "none"] /\ newest = 0
      /\ reg = [e \in Epoch |-> [status |-> "none", gen |-> CHOOSE g \in Gen : TRUE, fresh |-> FALSE]]
      /\ held = [p \in Proc |-> 0] /\ fence = [p \in Proc |-> 0] /\ committed = 0
  BY ZenonT(30) DEF RegistrationInit
<1>2. Shape /\ Used
  BY <1>1, SMTT(30) DEF Shape, Used, Epoch
<1>3. HeldInv /\ ActiveIsNewest /\ FenceInv /\ OneActiveGrant
  BY <1>1, ZenonT(30) DEF HeldInv, ActiveIsNewest, Active, FenceInv, OneActiveGrant
<1> QED
  BY <1>2, <1>3, ZenonT(30) DEF RegistrationInv

-----------------------------------------------------------------------------
(* What registration guarantees. *)

\* The invariant of registration, inductive because whoever ends a lease or
\* changes a grant waits for the transactions that required them.
THEOREM RegistrationInvariant == RegistrationSpec => []RegistrationInv
  BY RegistrationStart, RegistrationStep, PTL DEF RegistrationSpec

\* The one active registration is the newest (vp_worker_register).
THEOREM NewestIsActive == RegistrationSpec => []ActiveIsNewest
  BY RegistrationInvariant, PTL DEF RegistrationInv

\* Superseding, releasing, revoking and expiring a registration wait for the
\* transactions that required it (pg_advisory_xact_lock).
THEOREM FencesHold == RegistrationSpec => []OpenFenceIsActive
<1>1. RegistrationInv => OpenFenceIsActive
  BY ZenonT(30) DEF RegistrationInv, FenceInv, OpenFenceIsActive, Active
<1> QED
  BY <1>1, RegistrationInvariant, PTL

\* At most one generation is admitted (vp_worker_grant_activate).
THEOREM OneGrant == RegistrationSpec => []OneActiveGrant
  BY RegistrationInvariant, PTL DEF RegistrationInv

\* A fenced transaction commits only under a grant that is active, though
\* activating another grant leaves the old registration row as it is: the
\* quarantined role cannot open one (vp_worker_grant_activate, _revoke).
THEOREM RevokedIsPowerless == RegistrationSpec => RevokedGrantIsPowerless
<1> DEFINE Admitted == \A p \in Proc : committed' # committed /\ fence[p] = committed' =>
                          grant[reg[committed'].gen] = "active"
<1>1. RegistrationInv /\ RegistrationNext => Admitted
  <2> SUFFICES ASSUME RegistrationInv, RegistrationNext, NEW p \in Proc, committed' # committed, fence[p] = committed'
               PROVE  grant[reg[committed'].gen] = "active"
    BY ZenonT(30)
  <2>0. Shape /\ FenceInv
    BY ZenonT(30) DEF RegistrationInv
  <2>1. Registers \/ LeaseEnds \/ Works \/ Grants \/ Expires
    BY <2>0, Steps, ZenonT(30)
  <2>2. Works
    BY <2>1, ZenonT(30) DEF Registers, Registered, LeaseEnds, Grants, GrantUpsert, GrantActivate, GrantRevoke,
      operatorKeeps, Expires, LeaseExpires
  <2>3. PICK x \in Proc : fence[x] # 0 /\ committed' = fence[x]
    BY <2>2, ZenonT(30) DEF Works
  <2> QED
    BY <2>0, <2>3, ZenonT(30) DEF FenceInv
<1>2. RegistrationInv /\ [RegistrationNext]_registrationVars => [Admitted]_registrationVars
  BY <1>1, ZenonT(30)
<1> HIDE DEF Admitted
<1>3. RegistrationSpec => [][Admitted]_registrationVars
  BY <1>2, RegistrationInvariant, PTL DEF RegistrationSpec
<1> QED
  BY <1>3, ZenonT(30) DEF Admitted, RevokedGrantIsPowerless

\* Fenced commits never go back to an older lease.
THEOREM CommitsAdvance == RegistrationSpec => FencedCommitsAdvance
<1>1. RegistrationInv /\ RegistrationNext => committed' >= committed
  <2> SUFFICES ASSUME RegistrationInv, RegistrationNext  PROVE committed' >= committed
    BY ZenonT(30)
  <2>0. Shape /\ FenceInv /\ Used /\ ActiveIsNewest
    BY ZenonT(30) DEF RegistrationInv
  <2>1. Registers \/ LeaseEnds \/ Works \/ Grants \/ Expires
    BY <2>0, Steps, ZenonT(30)
  <2>2. UNCHANGED committed \/ \E p \in Proc : fence[p] # 0 /\ committed' = fence[p]
    BY <2>1, ZenonT(30) DEF Registers, Registered, LeaseEnds, Grants, GrantUpsert, GrantActivate, GrantRevoke,
      operatorKeeps, Expires, LeaseExpires, Works
  <2>3. ASSUME NEW p \in Proc, fence[p] # 0  PROVE fence[p] = newest
    BY <2>0, <2>3, ZenonT(30) DEF FenceInv, ActiveIsNewest, Active
  <2> QED
    BY <2>0, <2>2, <2>3, SMTT(30) DEF Shape, Used
<1>2. RegistrationInv /\ [RegistrationNext]_registrationVars => [committed' >= committed]_registrationVars
  BY <1>1, ZenonT(30)
<1> QED
  BY <1>2, RegistrationInvariant, PTL DEF RegistrationSpec, FencedCommitsAdvance

-----------------------------------------------------------------------------
(* Refinement of WorkerLease. *)

\* The lease the abstract specification sees.
standing == newest # 0 /\ reg[newest].status = "active"
unexpired == newest # 0 /\ reg[newest].fresh

\* What the abstract lease does in each kind of step.
LEMMA AbstractSteps ==
    ASSUME RegistrationInv, RegistrationNext
    PROVE  \/ newest' = newest + 1 /\ standing' /\ unexpired' /\ UNCHANGED committed
           \/ UNCHANGED newest /\ standing /\ ~standing' /\ (unexpired' <=> unexpired) /\ UNCHANGED committed
           \/ UNCHANGED newest /\ standing /\ standing' /\ ~unexpired' /\ UNCHANGED committed
           \/ UNCHANGED newest /\ standing /\ standing' /\ (unexpired' <=> unexpired) /\ committed' = newest
           \/ UNCHANGED newest /\ (standing' <=> standing) /\ (unexpired' <=> unexpired) /\ UNCHANGED committed
<1>0. Shape /\ FenceInv /\ Used /\ ActiveIsNewest
  BY ZenonT(30) DEF RegistrationInv
<1>1. Registers \/ LeaseEnds \/ Works \/ Grants \/ Expires
  BY <1>0, Steps, ZenonT(30)
<1>2. CASE Registers
  <2>1. PICK p \in Proc : Registered(p)
    BY <1>2, ZenonT(30) DEF Registers
  <2>2. newest' = newest + 1 /\ reg'[newest'].status = "active" /\ reg'[newest'].fresh /\ UNCHANGED committed
    BY <2>1, RegisterEffect, ZenonT(30)
  <2>3. newest' # 0
    BY <1>0, <2>2, SMTT(30) DEF Shape
  <2> QED
    BY <2>2, <2>3, ZenonT(30) DEF standing, unexpired
<1>3. CASE LeaseEnds
  <2>1. PICK e \in Epoch : Ends(e) /\ UNCHANGED <<newest, committed>>
    BY <1>3, ZenonT(30) DEF LeaseEnds
  <2>2. PICK ending \in {"revoked", "expired"} : reg' = Ended(e, ending)
    BY <2>1, ZenonT(30) DEF Ends
  <2>3. e = newest /\ reg[e].status = "active" /\ newest # 0
    BY <1>0, <2>1, SMTT(30) DEF Ends, ActiveIsNewest, Active, Epoch
  <2>4. reg'[e].status = ending /\ reg'[e].fresh = reg[e].fresh
    BY <1>0, <2>2, EndedShape, ZenonT(30)
  <2> QED
    BY <2>1, <2>3, <2>4, ZenonT(30) DEF standing, unexpired
<1>4. CASE Works
  <2>1. UNCHANGED newest /\ SameRegistrations
    BY <1>4, ZenonT(30) DEF Works
  <2>2. (standing' <=> standing) /\ (unexpired' <=> unexpired)
    BY <1>0, <2>1, SMTT(30) DEF standing, unexpired, SameRegistrations, Shape, Epoch
  <2>3. CASE UNCHANGED committed
    BY <2>1, <2>2, <2>3, ZenonT(30)
  <2>4. ASSUME NEW p \in Proc, fence[p] # 0, committed' = fence[p]  PROVE standing /\ committed' = newest
    BY <1>0, <2>4, SMTT(30) DEF FenceInv, ActiveIsNewest, Active, standing, Epoch
  <2> QED
    BY <1>4, <2>1, <2>2, <2>3, <2>4, ZenonT(30) DEF Works
<1>5. CASE Grants
  <2>1. PICK g \in Gen : GrantUpsert(g) \/ GrantActivate(g) \/ GrantRevoke(g)
    BY <1>5, ZenonT(30) DEF Grants
  <2>2. /\ UNCHANGED <<newest, committed>>
        /\ UNCHANGED reg \/ reg' = [e \in Epoch |-> IF e \in Active /\ reg[e].gen = g
                                                   THEN [reg[e] EXCEPT !.status = "revoked"] ELSE reg[e]]
    BY <2>1, ZenonT(30) DEF GrantUpsert, GrantActivate, GrantRevoke, operatorKeeps
  <2>3. CASE UNCHANGED reg
    BY <2>2, <2>3, ZenonT(30) DEF standing, unexpired
  <2>4. CASE reg' = [e \in Epoch |-> IF e \in Active /\ reg[e].gen = g
                                     THEN [reg[e] EXCEPT !.status = "revoked"] ELSE reg[e]]
    <3>1. \A e \in Epoch : reg'[e] = IF e \in Active /\ reg[e].gen = g
                                     THEN [reg[e] EXCEPT !.status = "revoked"] ELSE reg[e]
      BY <2>4, ZenonT(30)
    <3>2. newest # 0 => newest \in Epoch
      BY <1>0, SMTT(30) DEF Shape, Epoch
    <3>3. CASE newest \in Active /\ reg[newest].gen = g
      <4>1. newest \in Epoch /\ newest # 0 /\ reg[newest].status = "active"
        BY <3>3, SMTT(30) DEF Active, Epoch
      <4>2. reg'[newest].status = "revoked" /\ reg'[newest].fresh = reg[newest].fresh
        <5>1. reg'[newest] = [reg[newest] EXCEPT !.status = "revoked"]
          BY <3>1, <3>3, <4>1, ZenonT(30)
        <5> QED
          BY <1>0, <4>1, <5>1, ZenonT(30) DEF Shape
      <4> QED
        BY <2>2, <4>1, <4>2, ZenonT(30) DEF standing, unexpired
    <3>4. CASE ~(newest \in Active /\ reg[newest].gen = g)
      <4>1. newest # 0 => reg'[newest] = reg[newest]
        BY <3>1, <3>2, <3>4, ZenonT(30)
      <4> QED
        BY <2>2, <4>1, SMTT(30) DEF standing, unexpired
    <3> QED
      BY <3>3, <3>4, ZenonT(30)
  <2> QED
    BY <2>2, <2>3, <2>4, ZenonT(30)
<1>6. CASE Expires
  <2>1. PICK e \in Epoch : LeaseExpires(e)
    BY <1>6, ZenonT(30) DEF Expires
  <2>2. reg[e].status = "active" /\ reg' = [reg EXCEPT ![e].fresh = FALSE] /\ UNCHANGED <<newest, committed>>
    BY <2>1, ZenonT(30) DEF LeaseExpires, LeaseLive
  <2>3. e = newest /\ newest # 0
    BY <1>0, <2>2, SMTT(30) DEF ActiveIsNewest, Active, Epoch
  <2>4. reg'[e].status = "active" /\ reg'[e].fresh = FALSE
    BY <1>0, <2>2, ZenonT(30) DEF Shape
  <2> QED
    BY <2>2, <2>3, <2>4, ZenonT(30) DEF standing, unexpired
<1> QED
  BY <1>1, <1>2, <1>3, <1>4, <1>5, <1>6, ZenonT(30)

LEMMA LeaseRecord ==
    ASSUME NEW n, NEW a, NEW f
    PROVE  /\ [[epoch |-> n, active |-> a, fresh |-> f] EXCEPT !.active = FALSE]
                = [epoch |-> n, active |-> FALSE, fresh |-> f]
           /\ [[epoch |-> n, active |-> a, fresh |-> f] EXCEPT !.fresh = FALSE]
                = [epoch |-> n, active |-> a, fresh |-> FALSE]
<1>1. PICK b : b = FALSE
  BY ZenonT(30)
<1>2. [[epoch |-> n, active |-> a, fresh |-> f] EXCEPT !.active = b] = [epoch |-> n, active |-> b, fresh |-> f]
  BY SMTT(30)
<1>3. [[epoch |-> n, active |-> a, fresh |-> f] EXCEPT !.fresh = b] = [epoch |-> n, active |-> a, fresh |-> b]
  BY SMTT(30)
<1> QED
  BY <1>1, <1>2, <1>3, ZenonT(30)

\* ImplementsWorkerLease: every step of registration is a step of the lease
\* the rest of the pipeline relies on, or leaves it alone.
THEOREM RegistrationRefines == RegistrationSpec => ImplementsWorkerLease
<1>1. RegistrationInit => Lease!LeaseInit
  BY ZenonT(30) DEF RegistrationInit, Lease!LeaseInit, Lease!NoLease
<1>2. RegistrationInv /\ [RegistrationNext]_registrationVars => [Lease!LeaseNext]_Lease!leaseVars
  <2>1. ASSUME RegistrationInv, RegistrationNext
        PROVE  Lease!LeaseNext \/ UNCHANGED Lease!leaseVars
    <3>1. CASE newest' = newest + 1 /\ standing' /\ unexpired' /\ UNCHANGED committed
      BY <3>1, ZenonT(30) DEF Lease!LeaseNext, Lease!Issue, standing, unexpired
    <3>2. CASE UNCHANGED newest /\ standing /\ ~standing' /\ (unexpired' <=> unexpired) /\ UNCHANGED committed
      <4>1. standing' = FALSE /\ unexpired' = unexpired
        BY <3>2, ZenonT(30) DEF standing, unexpired
      <4>2. [epoch |-> newest', active |-> standing', fresh |-> unexpired']
               = [[epoch |-> newest, active |-> standing, fresh |-> unexpired] EXCEPT !.active = FALSE]
        <5>1. [[epoch |-> newest, active |-> standing, fresh |-> unexpired] EXCEPT !.active = FALSE]
                 = [epoch |-> newest, active |-> FALSE, fresh |-> unexpired]
          BY LeaseRecord, ZenonT(60)
        <5> QED
          BY <3>2, <4>1, <5>1, ZenonT(30)
      <4> QED
        BY <3>2, <4>2, ZenonT(30) DEF Lease!LeaseNext, Lease!End, standing, unexpired
    <3>3. CASE UNCHANGED newest /\ standing /\ standing' /\ ~unexpired' /\ UNCHANGED committed
      <4>1. standing' = standing /\ unexpired' = FALSE
        BY <3>3, ZenonT(30) DEF standing, unexpired
      <4>2. [epoch |-> newest', active |-> standing', fresh |-> unexpired']
               = [[epoch |-> newest, active |-> standing, fresh |-> unexpired] EXCEPT !.fresh = FALSE]
        <5>1. [[epoch |-> newest, active |-> standing, fresh |-> unexpired] EXCEPT !.fresh = FALSE]
                 = [epoch |-> newest, active |-> standing, fresh |-> FALSE]
          BY LeaseRecord, ZenonT(30)
        <5> QED
          BY <3>3, <4>1, <5>1, ZenonT(30)
      <4> QED
        BY <3>3, <4>2, ZenonT(30) DEF Lease!LeaseNext, Lease!Lapse, standing, unexpired
    <3>4. CASE UNCHANGED newest /\ standing /\ standing' /\ (unexpired' <=> unexpired) /\ committed' = newest
      BY <3>4, ZenonT(30) DEF Lease!LeaseNext, Lease!LeaseCommit, standing, unexpired
    <3>5. CASE UNCHANGED newest /\ (standing' <=> standing) /\ (unexpired' <=> unexpired) /\ UNCHANGED committed
      BY <3>5, ZenonT(30) DEF Lease!leaseVars, standing, unexpired
    <3> QED
      BY <2>1, <3>1, <3>2, <3>3, <3>4, <3>5, AbstractSteps, ZenonT(30)
  <2>2. ASSUME UNCHANGED registrationVars  PROVE UNCHANGED Lease!leaseVars
    BY <2>2, ZenonT(30) DEF registrationVars, Lease!leaseVars
  <2> QED
    BY <2>1, <2>2, ZenonT(30)
<1> QED
  BY <1>1, <1>2, RegistrationInvariant, PTL DEF RegistrationSpec, ImplementsWorkerLease, Lease!LeaseSpec

(***************************************************************************)
(* Markers in Redis.                                                       *)
(***************************************************************************)

HIDE RegistrationConstants
USE MarkerConstants

CheckField == {"pc", "todo", "absent", "saw"}
ExpectField == {"state", "id", "absent", "observed"}
CleanupField == {"state", "run", "live"}

\* Observed by the run, known by its message id or prepared when the run began.
Met(s) == expect[s].observed /\ (expect[s].id \/ expect[s].state = "prepared")

\* Whoever holds the run has, for each marker it demands, seen it or still to
\* look for it; and what it saw is recorded or about to be.
HoldsRun(c) ==
    /\ check[c].pc = "begun" => found = {}
    /\ check[c].pc = "checking" =>
         /\ \A s \in Source : expect[s].state # "none" /\ ~expect[s].absent =>
                (s \in found \/ s \in check[c].todo) /\ s \notin check[c].absent
         /\ \A s \in found : s \in Source /\ (s \in check[c].saw \/ Met(s))
         /\ \A s, t \in check[c].saw : s = t

RunInv == \A c \in Checker : status.run = c => HoldsRun(c)

\* Only markers of rows that are gone are authorized for deletion or claimed.
GoneInv ==
    /\ \A s \in Source : cleanup[s].state # "none" => src[s] = "gone"
    /\ \A j \in Janitor : \A s \in janitor[j].todo : s \in Source /\ src[s] = "gone"

RunShape ==
    /\ DOMAIN check = Checker /\ \A c \in Checker : DOMAIN check[c] = CheckField
    /\ DOMAIN expect = Source /\ \A s \in Source : DOMAIN expect[s] = ExpectField
    /\ DOMAIN status = {"state", "run", "live"}

RunPart == RunShape /\ RunInv /\ ReadyMeansSeen

RowShape ==
    /\ DOMAIN cleanup = Source /\ \A s \in Source : DOMAIN cleanup[s] = CleanupField
    /\ DOMAIN src = Source
    /\ DOMAIN janitor = Janitor /\ \A j \in Janitor : DOMAIN janitor[j] = {"todo", "did"}

RowPart == RowShape /\ GoneInv /\ LiveMarkerStays

\* The inductive invariant: the readiness runs, and the rows with their markers.
MarkerInv == RunPart /\ RowPart

-----------------------------------------------------------------------------
(* What leaves the run alone, and what leaves the authorizations alone. *)

Legal == \A s \in Source : CleanupTrigger(s)
SweptNow ==
    ~WorkersAdmitted /\ WorkersAdmitted'
    => \A s \in found : cleanup[s].state = "none" \/ expect[s].state = "prepared"

LEMMA RunKept ==
    ASSUME RunPart, UNCHANGED <<status, expect, found, check>>  PROVE RunPart' /\ SweptNow
  BY SMTT(30) DEF RunPart, RunShape, RunInv, HoldsRun, Met, ReadyMeansSeen, WorkersAdmitted, SweptNow

LEMMA RowsKept ==
    ASSUME RowPart, UNCHANGED <<src, marker, lost, cleanup, janitor>>  PROVE RowPart' /\ Legal
  BY ZenonT(30) DEF RowPart, RowShape, GoneInv, LiveMarkerStays, Legal, CleanupTrigger

LEMMA LegalUnchanged ==
    ASSUME cleanup' = cleanup  PROVE Legal
  BY ZenonT(30) DEF Legal, CleanupTrigger

-----------------------------------------------------------------------------
(* Sources, repairs and the janitor. *)

\* A row that does not become known moves, or its marker is added.
LEMMA RowMoves ==
    ASSUME RowPart, NEW s \in Source, NEW to, to # "known" \/ s \in marker,
           src[s] # "gone", src' = [src EXCEPT ![s] = to],
           UNCHANGED <<marker, lost, cleanup, janitor>>
    PROVE  RowPart' /\ Legal
<1>1. \A x \in Source : x # s => src'[x] = src[x]
  BY ZenonT(30) DEF RowPart, RowShape
<1>2. DOMAIN src' = Source /\ src'[s] = to
  BY ZenonT(30) DEF RowPart, RowShape
<1>3. RowShape'
  BY <1>2, ZenonT(30) DEF RowPart, RowShape
<1>4. GoneInv'
  BY <1>1, ZenonT(30) DEF RowPart, GoneInv
<1>5. LiveMarkerStays'
  BY <1>1, <1>2, ZenonT(30) DEF RowPart, LiveMarkerStays
<1> QED
  BY <1>3, <1>4, <1>5, LegalUnchanged, ZenonT(30) DEF RowPart

LEMMA SourceSteps ==
    ASSUME RowPart, NEW s \in Source, Sources(s)
    PROVE  RowPart' /\ Legal /\ UNCHANGED <<status, expect, found, check>>
<1>1. CASE BeginAttempt(s) \/ GivenUp(s) \/ Dropped(s)
  <2>1. /\ UNCHANGED <<marker, lost, cleanup, janitor, status, expect, found, check>>
        /\ \E to \in {"attempting", "uncertain", "gone"} : src' = [src EXCEPT ![s] = to]
        /\ src[s] # "gone"
    BY <1>1, ZenonT(30) DEF BeginAttempt, GivenUp, Dropped, Moves, sourceKeeps, runVars
  <2> QED
    BY <2>1, RowMoves, ZenonT(30)
<1>2. CASE Recorded(s) \/ Promote(s)
  <2>1. /\ UNCHANGED <<marker, lost, cleanup, janitor, status, expect, found, check>>
        /\ src' = [src EXCEPT ![s] = "known"] /\ s \in marker /\ src[s] # "gone"
    BY <1>2, ZenonT(30) DEF Recorded, Promote, Moves, sourceKeeps, runVars
  <2> QED
    BY <2>1, RowMoves, ZenonT(30)
<1>3. CASE Xadd(s)
  <2>1. /\ UNCHANGED <<src, lost, cleanup, janitor, status, expect, found, check>>
        /\ marker' = marker \cup {s}
    BY <1>3, ZenonT(30) DEF Xadd, sourceKeeps, runVars
  <2> QED
    BY <2>1, LegalUnchanged, ZenonT(30) DEF RowPart, RowShape, GoneInv, LiveMarkerStays
<1>4. CASE LoseMarker(s)
  <2>1. /\ UNCHANGED <<src, cleanup, janitor, status, expect, found, check>>
        /\ marker' = marker \ {s} /\ lost' = IF src[s] = "known" THEN lost \cup {s} ELSE lost
    BY <1>4, ZenonT(30) DEF LoseMarker, sourceKeeps, runVars
  <2>2. LiveMarkerStays'
    BY <2>1, ZenonT(30) DEF RowPart, LiveMarkerStays
  <2> QED
    BY <2>1, <2>2, LegalUnchanged, ZenonT(30) DEF RowPart, RowShape, GoneInv
<1>5. CASE DeleteJob(s)
  <2>1. /\ UNCHANGED <<marker, janitor, status, expect, found, check>> /\ src[s] = "known"
        /\ src' = [src EXCEPT ![s] = "gone"] /\ lost' = lost \ {s}
        /\ cleanup' = [cleanup EXCEPT ![s].state = "pending"]
    BY <1>5, ZenonT(30) DEF DeleteJob, Deleted, runVars
  <2>2. /\ DOMAIN src' = Source /\ src'[s] = "gone" /\ \A x \in Source : x # s => src'[x] = src[x]
    BY <2>1, ZenonT(30) DEF RowPart, RowShape
  <2>3. /\ DOMAIN cleanup' = Source /\ \A x \in Source : x # s => cleanup'[x] = cleanup[x]
        /\ DOMAIN cleanup'[s] = CleanupField /\ cleanup'[s].state = "pending"
    BY <2>1, ZenonT(30) DEF RowPart, RowShape, CleanupField
  <2>4. cleanup[s].state = "none"
    BY <2>1, ZenonT(30) DEF RowPart, GoneInv
  <2>5. RowShape'
    BY <2>1, <2>2, <2>3, ZenonT(30) DEF RowPart, RowShape
  <2>6. GoneInv'
    BY <2>1, <2>2, <2>3, ZenonT(30) DEF RowPart, GoneInv
  <2>7. LiveMarkerStays'
    BY <2>1, <2>2, ZenonT(30) DEF RowPart, LiveMarkerStays
  <2>8. Legal
    BY <2>3, <2>4, ZenonT(30) DEF Legal, CleanupTrigger
  <2> QED
    BY <2>1, <2>5, <2>6, <2>7, <2>8, ZenonT(30) DEF RowPart
<1> QED
  BY <1>1, <1>2, <1>3, <1>4, <1>5, ZenonT(30) DEF Sources

LEMMA RepairSteps ==
    ASSUME RowPart, (\E s \in Source : RestoreChecks(s)) \/ RestoreAuthorizes \/ RestoreSets \/ RestoreGivesUp
    PROVE  RowPart' /\ Legal /\ UNCHANGED <<status, expect, found, check>>
<1>1. UNCHANGED <<src, cleanup, janitor, status, expect, found, check>>
  BY ZenonT(30) DEF RestoreChecks, RestoreAuthorizes, RestoreSets, RestoreGivesUp, repairKeeps, runVars
<1>2. \/ UNCHANGED <<marker, lost>>
      \/ \E s : marker' = marker \cup {s} /\ lost' = lost \ {s}
  BY ZenonT(30) DEF RestoreChecks, RestoreAuthorizes, RestoreSets, RestoreGivesUp
<1>3. LiveMarkerStays'
  BY <1>1, <1>2, ZenonT(30) DEF RowPart, LiveMarkerStays
<1> QED
  BY <1>1, <1>3, LegalUnchanged, ZenonT(30) DEF RowPart, RowShape, GoneInv

\* The authorizations change and nothing else of the rows; none appears.
LEMMA CleanupMoves ==
    ASSUME RowPart, Legal, DOMAIN cleanup' = Source, UNCHANGED <<src, marker, lost>>,
           \A s \in Source : /\ DOMAIN cleanup'[s] = CleanupField
                             /\ cleanup'[s].state # "none" => cleanup[s].state # "none",
           DOMAIN janitor' = Janitor,
           \A j \in Janitor : /\ DOMAIN janitor'[j] = {"todo", "did"}
                              /\ \A s \in janitor'[j].todo :
                                    s \in janitor[j].todo \/ (s \in Source /\ cleanup[s].state # "none")
    PROVE  RowPart' /\ Legal
<1>1. RowShape'
  BY ZenonT(30) DEF RowPart, RowShape
<1>2. GoneInv'
  BY ZenonT(30) DEF RowPart, GoneInv
<1> QED
  BY <1>1, <1>2, ZenonT(30) DEF RowPart, LiveMarkerStays

LEMMA LeavesMoves ==
    ASSUME RowShape, NEW j, cleanup' = Leaves(j)
    PROVE  /\ Legal /\ DOMAIN cleanup' = Source
           /\ \A s \in Source : /\ DOMAIN cleanup'[s] = CleanupField
                                /\ cleanup'[s].state # "none" => cleanup[s].state # "none"
<1>1. DOMAIN cleanup' = Source
  BY ZenonT(30) DEF Leaves
<1>2. ASSUME NEW s \in Source
      PROVE  /\ DOMAIN cleanup'[s] = CleanupField /\ cleanup'[s].state = cleanup[s].state
             /\ cleanup'[s].run = cleanup[s].run \/ cleanup'[s].run = NoRun
  <2>1. cleanup'[s] = cleanup[s] \/ cleanup'[s] = [cleanup[s] EXCEPT !.run = NoRun]
    BY ZenonT(30) DEF Leaves
  <2>2. DOMAIN cleanup[s] = CleanupField
    BY ZenonT(30) DEF RowShape
  <2> QED
    BY <2>1, <2>2, ZenonT(30) DEF CleanupField
<1>3. Legal
  BY <1>2, ZenonT(30) DEF Legal, CleanupTrigger
<1> QED
  BY <1>1, <1>2, <1>3, ZenonT(30)

LEMMA JanitorSteps ==
    ASSUME RowPart, NEW j \in Janitor, Sweeping(j) \/ JanitorDies(j)
    PROVE  RowPart' /\ Legal /\ UNCHANGED <<status, expect, found, check>>
<1>0. UNCHANGED <<src, lost, status, expect, found, check>>
  BY ZenonT(30) DEF Sweeping, JanitorDies, Claim, CompareDelete, FinishCleanup, janitorKeeps, runVars
<1>s. RowShape
  BY ZenonT(30) DEF RowPart
<1>1. CASE Claim(j)
  <2>1. /\ marker' = marker
        /\ cleanup' = [s \in Source |-> IF s \in Claimable
                         THEN [state |-> "claimed", run |-> j, live |-> TRUE] ELSE cleanup[s]]
        /\ janitor' = [janitor EXCEPT ![j].todo = Claimable]
    BY <1>1, ZenonT(30) DEF Claim
  <2>2. \A s \in Claimable : /\ s \in Source /\ cleanup[s].state # "none"
                            /\ \/ cleanup[s].state = "pending"
                               \/ cleanup[s].state = "claimed" /\ ~cleanup[s].live
    BY ZenonT(30) DEF Claimable
  <2>3. DOMAIN cleanup' = Source
    BY <2>1, ZenonT(30)
  <2>4. ASSUME NEW s \in Source
        PROVE  /\ DOMAIN cleanup'[s] = CleanupField
               /\ cleanup'[s] = cleanup[s] \/ (s \in Claimable /\ cleanup'[s].state = "claimed")
    <3>1. CASE s \in Claimable
      <4>1. PICK b : b = TRUE
        BY ZenonT(30)
      <4>2. cleanup'[s] = [state |-> "claimed", run |-> j, live |-> b]
        BY <2>1, <3>1, <4>1, ZenonT(30)
      <4> QED
        BY <3>1, <4>2, SMTT(30) DEF CleanupField
    <3>2. CASE s \notin Claimable
      BY <1>s, <2>1, <3>2, ZenonT(30) DEF RowShape
    <3> QED
      BY <3>1, <3>2, ZenonT(30)
  <2>5. /\ DOMAIN janitor' = Janitor /\ \A i \in Janitor : i # j => janitor'[i] = janitor[i]
        /\ DOMAIN janitor'[j] = {"todo", "did"} /\ janitor'[j].todo = Claimable
    BY <1>s, <2>1, ZenonT(30) DEF RowShape
  <2>6. Legal
    BY <2>2, <2>4, ZenonT(30) DEF Legal, CleanupTrigger
  <2>7. \A s \in Source : /\ DOMAIN cleanup'[s] = CleanupField
                          /\ cleanup'[s].state # "none" => cleanup[s].state # "none"
    BY <2>2, <2>4, ZenonT(30)
  <2>8. \A i \in Janitor : /\ DOMAIN janitor'[i] = {"todo", "did"}
                           /\ \A s \in janitor'[i].todo :
                                 s \in janitor[i].todo \/ (s \in Source /\ cleanup[s].state # "none")
    BY <1>s, <2>2, <2>5, ZenonT(30) DEF RowShape
  <2> QED
    BY <1>0, <2>1, <2>3, <2>5, <2>6, <2>7, <2>8, CleanupMoves, ZenonT(30)
<1>2. CASE \E s \in Source : CompareDelete(j, s)
  <2>1. PICK s \in Source : CompareDelete(j, s)
    BY <1>2, ZenonT(30)
  <2>2. PICK d : /\ janitor' = [janitor EXCEPT ![j].did = d] /\ cleanup' = cleanup
                 /\ marker' = marker \ {s} /\ s \in janitor[j].todo
    BY <2>1, ZenonT(30) DEF CompareDelete
  <2>3. /\ DOMAIN janitor' = Janitor
        /\ \A i \in Janitor : DOMAIN janitor'[i] = {"todo", "did"} /\ janitor'[i].todo = janitor[i].todo
    BY <1>s, <2>2, ZenonT(30) DEF RowShape
  <2>4. src[s] = "gone"
    BY <2>2, ZenonT(30) DEF RowPart, GoneInv
  <2>5. RowShape' /\ GoneInv'
    BY <1>0, <2>2, <2>3, ZenonT(30) DEF RowPart, RowShape, GoneInv
  <2>6. LiveMarkerStays'
    BY <1>0, <2>2, <2>4, ZenonT(30) DEF RowPart, LiveMarkerStays
  <2> QED
    BY <1>0, <2>2, <2>5, <2>6, LegalUnchanged, ZenonT(30) DEF RowPart
<1>3. CASE \E s \in Source, result \in {"deleted", "absent"} : FinishCleanup(j, s, result)
  <2>1. PICK s \in Source, result \in {"deleted", "absent"} : FinishCleanup(j, s, result)
    BY <1>3, ZenonT(30)
  <2>2. CASE /\ cleanup[s].state = "claimed" /\ cleanup' = [cleanup EXCEPT ![s].state = result]
             /\ janitor' = [janitor EXCEPT ![j] = [todo |-> janitor[j].todo \ {s}, did |-> {}]]
             /\ marker' = marker
    <3>1. /\ DOMAIN cleanup' = Source /\ \A x \in Source : x # s => cleanup'[x] = cleanup[x]
          /\ DOMAIN cleanup'[s] = CleanupField /\ cleanup'[s].state = result
          /\ cleanup'[s].run = cleanup[s].run
      BY <1>s, <2>2, ZenonT(30) DEF RowShape, CleanupField
    <3>2. Legal
      BY <2>2, <3>1, ZenonT(30) DEF Legal, CleanupTrigger
    <3>3. \A x \in Source : /\ DOMAIN cleanup'[x] = CleanupField
                            /\ cleanup'[x].state # "none" => cleanup[x].state # "none"
      BY <1>s, <2>2, <3>1, ZenonT(30) DEF RowShape
    <3>4. /\ DOMAIN janitor' = Janitor
          /\ \A i \in Janitor : /\ DOMAIN janitor'[i] = {"todo", "did"}
                                /\ janitor'[i].todo \subseteq janitor[i].todo
      BY <1>s, <2>2, ZenonT(30) DEF RowShape
    <3> QED
      BY <1>0, <2>2, <3>1, <3>2, <3>3, <3>4, CleanupMoves, ZenonT(30)
  <2>3. CASE cleanup' = Leaves(j) /\ janitor' = [janitor EXCEPT ![j] = IdleJanitor] /\ marker' = marker
    <3>1. /\ DOMAIN janitor' = Janitor
          /\ \A i \in Janitor : /\ DOMAIN janitor'[i] = {"todo", "did"}
                                /\ janitor'[i].todo \subseteq janitor[i].todo
      BY <1>s, <2>3, ZenonT(30) DEF RowShape, IdleJanitor
    <3> QED
      BY <1>0, <1>s, <2>3, <3>1, LeavesMoves, CleanupMoves, ZenonT(30)
  <2> QED
    BY <2>1, <2>2, <2>3, ZenonT(30) DEF FinishCleanup
<1>4. CASE JanitorDies(j)
  <2>1. cleanup' = Leaves(j) /\ janitor' = [janitor EXCEPT ![j] = IdleJanitor] /\ marker' = marker
    BY <1>4, ZenonT(30) DEF JanitorDies
  <2>2. /\ DOMAIN janitor' = Janitor
        /\ \A i \in Janitor : /\ DOMAIN janitor'[i] = {"todo", "did"}
                              /\ janitor'[i].todo \subseteq janitor[i].todo
    BY <1>s, <2>1, ZenonT(30) DEF RowShape, IdleJanitor
  <2> QED
    BY <1>0, <1>s, <2>1, <2>2, LeavesMoves, CleanupMoves, ZenonT(30)
<1> QED
  BY <1>0, <1>1, <1>2, <1>3, <1>4, ZenonT(30) DEF Sweeping

LEMMA ExpirySteps ==
    ASSUME RowPart, NEW s \in Source, ClaimExpires(s)
    PROVE  RowPart' /\ Legal /\ UNCHANGED <<status, expect, found, check>>
<1>1. /\ UNCHANGED <<src, lost, marker, janitor, status, expect, found, check>>
      /\ \E b : cleanup' = [cleanup EXCEPT ![s].live = b]
  BY ZenonT(30) DEF ClaimExpires, janitorKeeps, runVars
<1>2. /\ DOMAIN cleanup' = Source
      /\ \A x \in Source : /\ DOMAIN cleanup'[x] = CleanupField
                           /\ cleanup'[x].state = cleanup[x].state /\ cleanup'[x].run = cleanup[x].run
  BY <1>1, SMTT(30) DEF RowPart, RowShape, CleanupField
<1>3. Legal
  BY <1>2, ZenonT(30) DEF Legal, CleanupTrigger
<1> QED
  BY <1>1, <1>2, <1>3, CleanupMoves, ZenonT(30) DEF RowPart, RowShape

-----------------------------------------------------------------------------
(* The readiness check. *)

\* A step of c changes the expectations and what was found only for c's own run.
LEMMA OwnStep ==
    ASSUME RunPart, NEW c \in Checker, DOMAIN check' = Checker, DOMAIN check'[c] = CheckField,
           \A d \in Checker : d # c => check'[d] = check[d],
           DOMAIN expect' = Source,
           \A s \in Source : /\ DOMAIN expect'[s] = ExpectField
                             /\ expect'[s].state = expect[s].state
                             /\ expect'[s].absent = expect[s].absent,
           DOMAIN status' = {"state", "run", "live"}, status'.run = status.run,
           status'.state = "ready" => status.state = "ready",
           status.run # c => expect' = expect /\ found' = found,
           found \subseteq found',
           status.run = c => HoldsRun(c)'
    PROVE  RunPart' /\ SweptNow
<1>1. RunShape'
  BY ZenonT(30) DEF RunPart, RunShape
<1>2. ASSUME NEW d \in Checker, status'.run = d  PROVE HoldsRun(d)'
  <2>1. CASE d = c
    BY <1>2, <2>1, ZenonT(30)
  <2>2. CASE d # c
    BY <1>2, <2>2, SMTT(30) DEF RunPart, RunInv, HoldsRun, Met
  <2> QED
    BY <2>1, <2>2, ZenonT(30)
<1>3. RunInv'
  BY <1>2, ZenonT(30) DEF RunInv
<1>4. ReadyMeansSeen'
  BY ZenonT(30) DEF RunPart, ReadyMeansSeen, WorkersAdmitted
<1> QED
  BY <1>1, <1>3, <1>4, ZenonT(30) DEF RunPart, SweptNow, WorkersAdmitted

\* The checker goes to a point where it holds nothing to account for.
LEMMA StepsAside ==
    ASSUME RunPart, NEW c \in Checker, DOMAIN check' = Checker, DOMAIN check'[c] = CheckField,
           \A d \in Checker : d # c => check'[d] = check[d],
           check'[c].pc \in {"idle", "failing"}, expect' = expect, found' = found,
           DOMAIN status' = {"state", "run", "live"}, status'.run = status.run,
           status'.state = "ready" => status.state = "ready"
    PROVE  RunPart' /\ SweptNow
<1>1. HoldsRun(c)'
  BY ZenonT(30) DEF HoldsRun
<1> QED
  BY <1>1, OwnStep, ZenonT(30) DEF RunPart, RunShape

LEMMA GotoField ==
    ASSUME RunShape, NEW c \in Checker, NEW label, Goto(c, label)
    PROVE  /\ DOMAIN check' = Checker /\ DOMAIN check'[c] = CheckField /\ check'[c].pc = label
           /\ \A d \in Checker : d # c => check'[d] = check[d]
  BY ZenonT(30) DEF RunShape, CheckField, Goto

LEMMA IdleField ==
    ASSUME RunShape, NEW c \in Checker, check' = [check EXCEPT ![c] = IdleCheck]
    PROVE  /\ DOMAIN check' = Checker /\ DOMAIN check'[c] = CheckField /\ check'[c].pc = "idle"
           /\ \A d \in Checker : d # c => check'[d] = check[d]
  BY ZenonT(30) DEF RunShape, CheckField, IdleCheck

LEMMA ExpectedShape ==
    ASSUME NEW s  PROVE DOMAIN Expected(s) = ExpectField
<1>1. DOMAIN Nothing = ExpectField
  <2>1. PICK f, t : f = FALSE /\ t = TRUE
    BY ZenonT(30)
  <2>2. Nothing = [state |-> "none", id |-> f, absent |-> t, observed |-> f]
    BY <2>1, ZenonT(30) DEF Nothing
  <2> QED
    BY <2>2, ZenonT(30) DEF ExpectField
<1>2. ASSUME NEW a, NEW b, NEW d
      PROVE  DOMAIN [Nothing EXCEPT !.state = a, !.id = b, !.absent = d] = ExpectField
  BY <1>1, ZenonT(30)
<1>3. \/ \E a, b, d : Expected(s) = [Nothing EXCEPT !.state = a, !.id = b, !.absent = d]
      \/ Expected(s) = Nothing
  BY ZenonT(30) DEF Expected
<1> QED
  BY <1>1, <1>2, <1>3, ZenonT(30)

LEMMA BeginSteps ==
    ASSUME RunPart, NEW c \in Checker, Begin(c)
    PROVE  RunPart' /\ SweptNow
<1>1. /\ expect' = [s \in Source |-> Expected(s)] /\ found' = {}
      /\ check' = [check EXCEPT ![c] = [IdleCheck EXCEPT !.pc = "begun"]]
  BY ZenonT(30) DEF Begin
<1>2. \E b : status' = [state |-> "running", run |-> c, live |-> b]
  BY ZenonT(30) DEF Begin
<1>3. DOMAIN status' = {"state", "run", "live"} /\ status'.state = "running" /\ status'.run = c
  BY <1>2, SMTT(30)
<1>4. /\ DOMAIN check' = Checker /\ DOMAIN check'[c] = CheckField /\ check'[c].pc = "begun"
      /\ \A d \in Checker : d # c => check'[d] = check[d]
  BY <1>1, ZenonT(30) DEF RunPart, RunShape, CheckField, IdleCheck
<1>5. DOMAIN expect' = Source /\ \A s \in Source : DOMAIN expect'[s] = ExpectField
  BY <1>1, ExpectedShape, ZenonT(30)
<1>6. RunShape'
  BY <1>3, <1>4, <1>5, ZenonT(30) DEF RunPart, RunShape
<1>7. HoldsRun(c)'
  BY <1>1, <1>4, ZenonT(30) DEF HoldsRun
<1>8. RunInv'
  BY <1>3, <1>7, ZenonT(30) DEF RunInv
<1> QED
  BY <1>3, <1>6, <1>8, ZenonT(30) DEF RunPart, ReadyMeansSeen, WorkersAdmitted, SweptNow

LEMMA LoadSteps ==
    ASSUME RunPart, NEW c \in Checker, Load(c)
    PROVE  RunPart' /\ SweptNow
<1>0. UNCHANGED <<status, expect, found>> /\ check[c].pc = "begun" /\ RunShape
  BY ZenonT(30) DEF Load, runVars, RunPart
<1>1. CASE Goto(c, "failing")
  BY <1>0, <1>1, GotoField, StepsAside, ZenonT(60) DEF RunShape
<1>2. CASE check' = [check EXCEPT ![c] = [pc |-> "checking", saw |-> {},
                          todo |-> {s \in Source : expect[s].state # "none"},
                          absent |-> {s \in Source : expect[s].absent}]]
  <2>1. PICK T, A : /\ T = {s \in Source : expect[s].state # "none"}
                    /\ A = {s \in Source : expect[s].absent}
    BY ZenonT(30)
  <2>2. check' = [check EXCEPT ![c] = [pc |-> "checking", saw |-> {}, todo |-> T, absent |-> A]]
    BY <1>2, <2>1, ZenonT(30)
  <2>3. /\ DOMAIN check' = Checker /\ DOMAIN check'[c] = CheckField /\ check'[c].pc = "checking"
        /\ check'[c].saw = {} /\ check'[c].todo = T /\ check'[c].absent = A
        /\ \A d \in Checker : d # c => check'[d] = check[d]
    BY <1>0, <2>2, ZenonT(30) DEF RunShape, CheckField
  <2>4. ASSUME status.run = c  PROVE HoldsRun(c)'
    <3>1. found' = {}
      BY <1>0, <2>4, ZenonT(30) DEF RunPart, RunInv, HoldsRun
    <3>2. \A s \in Source : expect'[s].state # "none" /\ ~expect'[s].absent => s \in T /\ s \notin A
      BY <1>0, <2>1, ZenonT(30)
    <3> QED
      BY <2>3, <3>1, <3>2, ZenonT(30) DEF HoldsRun
  <2> QED
    BY <1>0, <2>3, <2>4, OwnStep, ZenonT(30) DEF RunShape
<1> QED
  BY <1>1, <1>2, ZenonT(30) DEF Load

LEMMA VerifySteps ==
    ASSUME RunPart, NEW c \in Checker, NEW s \in Source, Verify(c, s)
    PROVE  RunPart' /\ SweptNow
<1>0. /\ UNCHANGED <<status, expect>> /\ check[c].pc = "checking" /\ RunShape
      /\ s \in check[c].todo /\ check[c].saw = {}
      /\ found' = IF status.run = c /\ s \in marker THEN found \cup {s} ELSE found
  BY ZenonT(30) DEF Verify, RunPart
<1>1. CASE s \notin marker /\ s \notin check[c].absent /\ Goto(c, "failing")
  BY <1>0, <1>1, GotoField, StepsAside, ZenonT(60) DEF RunShape
<1>2. CASE s \in marker /\ check' = [check EXCEPT ![c] =
                    [check[c] EXCEPT !.todo = check[c].todo \ {s}, !.saw = {s}]]
  <2>1. /\ DOMAIN check' = Checker /\ DOMAIN check'[c] = CheckField /\ check'[c].pc = check[c].pc
        /\ check'[c].todo = check[c].todo \ {s} /\ check'[c].absent = check[c].absent
        /\ check'[c].saw = {s}
        /\ \A d \in Checker : d # c => check'[d] = check[d]
    BY <1>0, <1>2, ZenonT(30) DEF RunShape, CheckField
  <2>2. ASSUME status.run = c  PROVE HoldsRun(c)'
    <3>1. HoldsRun(c) /\ found' = found \cup {s}
      BY <1>0, <1>2, <2>2, ZenonT(30) DEF RunPart, RunInv
    <3> QED
      BY <1>0, <2>1, <3>1, ZenonT(30) DEF HoldsRun, Met
  <2> QED
    BY <1>0, <2>1, <2>2, OwnStep, ZenonT(30) DEF RunShape
<1>3. CASE s \notin marker /\ s \in check[c].absent /\ check' = [check EXCEPT ![c].todo = check[c].todo \ {s}]
  <2>1. /\ DOMAIN check' = Checker /\ DOMAIN check'[c] = CheckField /\ check'[c].pc = check[c].pc
        /\ check'[c].todo = check[c].todo \ {s} /\ check'[c].absent = check[c].absent
        /\ check'[c].saw = check[c].saw
        /\ \A d \in Checker : d # c => check'[d] = check[d]
    BY <1>0, <1>3, ZenonT(30) DEF RunShape, CheckField
  <2>2. ASSUME status.run = c  PROVE HoldsRun(c)'
    <3>1. HoldsRun(c) /\ found' = found
      BY <1>0, <1>3, <2>2, ZenonT(30) DEF RunPart, RunInv
    <3> QED
      BY <1>0, <1>3, <2>1, <3>1, ZenonT(30) DEF HoldsRun, Met
  <2> QED
    BY <1>0, <1>3, <2>1, <2>2, OwnStep, ZenonT(30) DEF RunShape
<1> QED
  BY <1>1, <1>2, <1>3, ZenonT(30) DEF Verify

LEMMA RecordSteps ==
    ASSUME RunPart, RowPart, NEW c \in Checker, NEW s \in Source, Record(c, s)
    PROVE  RunPart' /\ SweptNow /\ RowPart' /\ Legal
<1>0. /\ UNCHANGED <<status, found, src, marker, lost, janitor>> /\ check[c].pc = "checking"
      /\ s \in check[c].saw /\ RunShape /\ RowShape
  BY ZenonT(30) DEF Record, checkKeeps, sourceVars, RunPart, RowPart
<1>1. CASE Goto(c, "failing") /\ UNCHANGED <<expect, cleanup, audits>>
  <2>1. RunPart' /\ SweptNow
    BY <1>0, <1>1, GotoField, StepsAside, ZenonT(60) DEF RunShape
  <2> QED
    BY <1>0, <1>1, <2>1, RowsKept, ZenonT(30)
<1>2. CASE /\ RunOf(c) /\ Observable(s) /\ expect' = [expect EXCEPT ![s].observed = TRUE]
           /\ cleanup' = IF Reopened(s)
                         THEN [cleanup EXCEPT ![s] = [state |-> "pending", run |-> NoRun, live |-> FALSE]]
                         ELSE cleanup
           /\ check' = [check EXCEPT ![c].saw = {}]
  <2>1. /\ DOMAIN check' = Checker /\ DOMAIN check'[c] = CheckField /\ check'[c].pc = check[c].pc
        /\ check'[c].todo = check[c].todo /\ check'[c].absent = check[c].absent
        /\ check'[c].saw = {}
        /\ \A d \in Checker : d # c => check'[d] = check[d]
    BY <1>0, <1>2, ZenonT(30) DEF RunShape, CheckField
  <2>2. PICK t : t = TRUE
    BY ZenonT(30)
  <2>3. expect' = [expect EXCEPT ![s].observed = t]
    BY <1>2, <2>2, ZenonT(30)
  <2>4. /\ DOMAIN expect' = Source /\ \A x \in Source : x # s => expect'[x] = expect[x]
        /\ DOMAIN expect'[s] = ExpectField /\ expect'[s].observed = t
        /\ expect'[s].state = expect[s].state /\ expect'[s].absent = expect[s].absent
        /\ expect'[s].id = expect[s].id
    BY <1>0, <2>3, ZenonT(30) DEF RunShape, ExpectField
  <2>5. status.run = c
    BY <1>2, ZenonT(30) DEF RunOf
  <2>6. check[c].saw = {s}
    BY <1>0, <2>5, SMTT(30) DEF RunPart, RunInv, HoldsRun
  <2>7. HoldsRun(c)'
    <3>1. HoldsRun(c)
      BY <2>5, ZenonT(30) DEF RunPart, RunInv
    <3>2. Met(s)'
      BY <1>2, <2>2, <2>4, ZenonT(30) DEF Met, Observable
    <3>3. \A x \in Source : x # s => (Met(x) => Met(x)')
      BY <2>4, ZenonT(30) DEF Met
    <3>4. \A x \in found' : x \in Source /\ Met(x)'
      BY <1>0, <2>6, <3>1, <3>2, <3>3, ZenonT(30) DEF HoldsRun
    <3>5. \A x \in Source : expect'[x].state # "none" /\ ~expect'[x].absent =>
                 (x \in found' \/ x \in check'[c].todo) /\ x \notin check'[c].absent
      BY <1>0, <2>1, <2>4, <3>1, ZenonT(60) DEF HoldsRun
    <3> QED
      BY <1>0, <2>1, <3>4, <3>5, ZenonT(30) DEF HoldsRun
  <2>8. \A x \in Source : /\ DOMAIN expect'[x] = ExpectField
                          /\ expect'[x].state = expect[x].state
                          /\ expect'[x].absent = expect[x].absent
    BY <1>0, <2>4, ZenonT(30) DEF RunShape
  <2>9. RunPart' /\ SweptNow
    BY <1>0, <2>1, <2>4, <2>5, <2>7, <2>8, OwnStep, ZenonT(30) DEF RunShape
  <2>10. CASE ~Reopened(s)
    BY <1>0, <1>2, <2>9, <2>10, RowsKept, ZenonT(30)
  <2>11. CASE Reopened(s)
    <3>1. PICK f : f = FALSE
      BY ZenonT(30)
    <3>2. cleanup' = [cleanup EXCEPT ![s] = [state |-> "pending", run |-> NoRun, live |-> f]]
      BY <1>2, <2>11, <3>1, ZenonT(30)
    <3>3. /\ DOMAIN cleanup' = Source /\ \A x \in Source : x # s => cleanup'[x] = cleanup[x]
          /\ DOMAIN cleanup'[s] = CleanupField /\ cleanup'[s].state = "pending"
      BY <1>0, <3>2, ZenonT(30) DEF RowShape, CleanupField
    <3>4. cleanup[s].state \in {"deleted", "absent"}
      BY <2>11, ZenonT(30) DEF Reopened
    <3>5. Legal
      BY <3>3, <3>4, ZenonT(30) DEF Legal, CleanupTrigger
    <3>6. \A x \in Source : /\ DOMAIN cleanup'[x] = CleanupField
                            /\ cleanup'[x].state # "none" => cleanup[x].state # "none"
      BY <1>0, <3>3, <3>4, ZenonT(30) DEF RowShape
    <3> QED
      BY <1>0, <2>9, <3>3, <3>5, <3>6, CleanupMoves, ZenonT(30) DEF RowShape
  <2> QED
    BY <2>10, <2>11, ZenonT(30)
<1> QED
  BY <1>1, <1>2, ZenonT(30) DEF Record

LEMMA FinishSteps ==
    ASSUME RunPart, NEW c \in Checker, FinishReady(c) \/ FinishError(c)
    PROVE  RunPart' /\ SweptNow
<1>0. /\ UNCHANGED <<expect, found>> /\ RunShape
  BY ZenonT(30) DEF FinishReady, FinishError, RunPart
<1>1. CASE Goto(c, "failing") /\ UNCHANGED status
  BY <1>0, <1>1, GotoField, StepsAside, ZenonT(30) DEF RunShape
<1>2. CASE /\ check[c].pc = "checking" /\ check[c].todo = {} /\ check[c].saw = {}
           /\ RunOf(c) /\ Swept /\ status' = [status EXCEPT !.state = "ready"]
           /\ check' = [check EXCEPT ![c] = IdleCheck]
  <2>1. /\ DOMAIN status' = {"state", "run", "live"} /\ status'.run = status.run
        /\ status'.state = "ready" /\ status.run = c
    BY <1>0, <1>2, ZenonT(30) DEF RunShape, RunOf
  <2>2. /\ DOMAIN check' = Checker /\ DOMAIN check'[c] = CheckField /\ check'[c].pc = "idle"
        /\ \A d \in Checker : d # c => check'[d] = check[d]
    BY <1>0, <1>2, IdleField, ZenonT(30)
  <2>3. HoldsRun(c)
    BY <2>1, ZenonT(30) DEF RunPart, RunInv
  <2>4. \A s \in found : s \in Source /\ Met(s)
    BY <1>2, <2>3, ZenonT(30) DEF HoldsRun
  <2>5. SweptNow
    BY <1>2, <2>4, ZenonT(30) DEF SweptNow, Swept, Met
  <2>6. ReadyMeansSeen'
    BY <1>0, <1>2, <2>3, ZenonT(30) DEF HoldsRun, ReadyMeansSeen
  <2>7. HoldsRun(c)'
    BY <2>2, ZenonT(30) DEF HoldsRun
  <2>8. RunInv'
    BY <2>1, <2>7, ZenonT(30) DEF RunInv
  <2>9. RunShape'
    BY <1>0, <2>1, <2>2, ZenonT(30) DEF RunShape
  <2> QED
    BY <2>5, <2>6, <2>8, <2>9, ZenonT(30) DEF RunPart
<1>3. CASE /\ status' = [status EXCEPT !.state = "error"] \/ status' = status
           /\ check' = [check EXCEPT ![c] = IdleCheck]
  <2>1. /\ DOMAIN status' = {"state", "run", "live"} /\ status'.run = status.run
        /\ status'.state = "ready" => status.state = "ready"
    BY <1>0, <1>3, ZenonT(30) DEF RunShape
  <2> QED
    BY <1>0, <1>3, <2>1, IdleField, StepsAside, ZenonT(30)
<1> QED
  BY <1>1, <1>2, <1>3, ZenonT(30) DEF FinishReady, FinishError

LEMMA InterruptedSteps ==
    ASSUME RunPart, NEW c \in Checker, CheckFails(c) \/ CheckerDies(c)
    PROVE  RunPart' /\ SweptNow
<1>1. /\ UNCHANGED <<status, expect, found>> /\ RunShape
      /\ Goto(c, "failing") \/ check' = [check EXCEPT ![c] = IdleCheck]
  BY ZenonT(30) DEF CheckFails, CheckerDies, runVars, RunPart
<1> QED
  BY <1>1, GotoField, IdleField, StepsAside, ZenonT(30) DEF RunShape

LEMMA LeaseSteps ==
    ASSUME RunPart, RunExpires
    PROVE  RunPart' /\ SweptNow
<1>1. /\ UNCHANGED <<expect, found, check>> /\ RunShape
      /\ \E b : status' = [status EXCEPT !.live = b]
  BY ZenonT(30) DEF RunExpires, RunPart
<1>2. DOMAIN status' = {"state", "run", "live"} /\ status'.run = status.run /\ status'.state = status.state
  BY <1>1, ZenonT(30) DEF RunShape
<1> QED
  BY <1>1, <1>2, ZenonT(60) DEF RunPart, RunShape, RunInv, HoldsRun, Met, ReadyMeansSeen, WorkersAdmitted, SweptNow

-----------------------------------------------------------------------------
(* The theorems. *)

LEMMA MarkerStart ==
    ASSUME MarkerInit  PROVE MarkerInv
<1>1. RunShape
  <2>1. PICK f, t : f = FALSE /\ t = TRUE
    BY ZenonT(30)
  <2>2. /\ status = [state |-> "none", run |-> NoRun, live |-> f]
        /\ expect = [s \in Source |-> [state |-> "none", id |-> f, absent |-> t, observed |-> f]]
        /\ check = [c \in Checker |-> [pc |-> "idle", todo |-> {}, absent |-> {}, saw |-> {}]]
    BY <2>1, ZenonT(30) DEF MarkerInit, Nothing, IdleCheck
  <2> QED
    BY <2>2, ZenonT(30) DEF RunShape, CheckField, ExpectField
<1>2. /\ RowShape
      /\ \A s \in Source : cleanup[s].state = "none"
      /\ \A j \in Janitor : janitor[j].todo = {}
  <2>1. PICK f : f = FALSE
    BY ZenonT(30)
  <2>2. /\ cleanup = [s \in Source |-> [state |-> "none", run |-> NoRun, live |-> f]]
        /\ janitor = [j \in Janitor |-> [todo |-> {}, did |-> {}]]
        /\ DOMAIN src = Source
    BY <2>1, ZenonT(30) DEF MarkerInit, IdleJanitor
  <2> QED
    BY <2>2, ZenonT(30) DEF RowShape, CleanupField
<1>3. status.run = NoRun /\ status.state = "none"
  BY ZenonT(30) DEF MarkerInit
<1>4. RunInv /\ ReadyMeansSeen
  BY <1>3, ZenonT(30) DEF RunInv, ReadyMeansSeen, WorkersAdmitted
<1>5. GoneInv
  BY <1>2, ZenonT(30) DEF GoneInv
<1>6. LiveMarkerStays
  <2>1. \A s \in Source : src[s] \in {"prepared", "pending"}
    BY ZenonT(30) DEF MarkerInit
  <2> QED
    BY <2>1, ZenonT(30) DEF LiveMarkerStays
<1> QED
  BY <1>1, <1>2, <1>4, <1>5, <1>6, ZenonT(30) DEF MarkerInv, RunPart, RowPart

LEMMA MarkerSteps ==
    ASSUME MarkerInv, [MarkerNext]_markerVars
    PROVE  MarkerInv' /\ SweptNow /\ Legal
<1>0. RunPart /\ RowPart
  BY ZenonT(30) DEF MarkerInv
<1>1. ASSUME RunPart' /\ SweptNow, UNCHANGED <<src, marker, lost, cleanup, janitor>>
      PROVE  MarkerInv' /\ SweptNow /\ Legal
  BY <1>0, <1>1, RowsKept, ZenonT(30) DEF MarkerInv
<1>2. ASSUME RowPart' /\ Legal, UNCHANGED <<status, expect, found, check>>
      PROVE  MarkerInv' /\ SweptNow /\ Legal
  BY <1>0, <1>2, RunKept, ZenonT(30) DEF MarkerInv
<1>3. CASE \E s \in Source : Sources(s)
  BY <1>0, <1>2, <1>3, SourceSteps, ZenonT(30)
<1>4. CASE \E s \in Source : ClaimExpires(s)
  BY <1>0, <1>2, <1>4, ExpirySteps, ZenonT(30)
<1>5. CASE (\E s \in Source : RestoreChecks(s)) \/ RestoreAuthorizes \/ RestoreSets \/ RestoreGivesUp
  BY <1>0, <1>2, <1>5, RepairSteps, ZenonT(30)
<1>6. CASE \E j \in Janitor : Sweeping(j) \/ JanitorDies(j)
  BY <1>0, <1>2, <1>6, JanitorSteps, ZenonT(30)
<1>7. CASE \E c \in Checker, s \in Source : Record(c, s)
  BY <1>0, <1>7, RecordSteps, ZenonT(30) DEF MarkerInv
<1>8. ASSUME NEW c \in Checker,
             Begin(c) \/ Load(c) \/ FinishReady(c) \/ FinishError(c) \/ CheckFails(c) \/ CheckerDies(c)
               \/ \E s \in Source : Verify(c, s)
      PROVE  MarkerInv' /\ SweptNow /\ Legal
  <2>1. UNCHANGED <<src, marker, lost, cleanup, janitor>>
    BY <1>8, ZenonT(30) DEF Begin, Load, FinishReady, FinishError, CheckFails, CheckerDies, Verify,
      checkKeeps, sourceVars
  <2>2. RunPart' /\ SweptNow
    BY <1>0, <1>8, BeginSteps, LoadSteps, FinishSteps, InterruptedSteps, VerifySteps, ZenonT(30)
  <2> QED
    BY <1>1, <2>1, <2>2, ZenonT(30)
<1>9. CASE RunExpires
  <2>1. UNCHANGED <<src, marker, lost, cleanup, janitor>>
    BY <1>9, ZenonT(30) DEF RunExpires, sourceVars
  <2> QED
    BY <1>0, <1>1, <1>9, <2>1, LeaseSteps, ZenonT(30)
<1>10. CASE UNCHANGED markerVars
  <2>1. UNCHANGED <<src, marker, lost, cleanup, janitor, status, expect, found, check>>
    BY <1>10, ZenonT(30) DEF markerVars, sourceVars, runVars
  <2> QED
    BY <1>0, <2>1, RunKept, RowsKept, ZenonT(30) DEF MarkerInv
<1> QED
  BY <1>3, <1>4, <1>5, <1>6, <1>7, <1>8, <1>9, <1>10, ZenonT(30) DEF MarkerNext, Checking

\* The inductive invariant holds.
THEOREM MarkerInvariant == MarkerSpec => []MarkerInv
<1>1. MarkerInit => MarkerInv
  BY MarkerStart, ZenonT(30)
<1>2. MarkerInv /\ [MarkerNext]_markerVars => MarkerInv'
  BY MarkerSteps, ZenonT(30)
<1> QED
  BY <1>1, <1>2, PTL DEF MarkerSpec

\* A run that says ready itself saw each marker it demanded, however many
\* readiness processes overlap, die, or outlive their lease.
THEOREM ReadyIsWitnessed == MarkerSpec => []ReadyMeansSeen
<1>1. MarkerInv => ReadyMeansSeen
  BY ZenonT(30) DEF MarkerInv, RunPart
<1> QED
  BY <1>1, MarkerInvariant, PTL

\* No row that still stands loses its marker to the janitor.
THEOREM JanitorSparesTheLiving == MarkerSpec => []LiveMarkerStays
<1>1. MarkerInv => LiveMarkerStays
  BY ZenonT(30) DEF MarkerInv, RowPart
<1> QED
  BY <1>1, MarkerInvariant, PTL

\* A run ends ready only when none of the markers it met is due for deletion,
\* other than those of events that were prepared when it began.
THEOREM ReadyIsSwept == MarkerSpec => ReadyMeansSwept
<1>1. MarkerInv /\ [MarkerNext]_markerVars
        => [~WorkersAdmitted /\ WorkersAdmitted'
              => \A s \in found : cleanup[s].state = "none" \/ expect[s].state = "prepared"]_markerVars
  BY MarkerSteps, ZenonT(30) DEF SweptNow
<1> QED
  BY <1>1, MarkerInvariant, PTL DEF MarkerSpec, ReadyMeansSwept

\* No step writes an authorization in a way the table's trigger refuses.
THEOREM TriggerNeverRefuses == MarkerSpec => CleanupMovesLegally
<1>1. MarkerInv /\ [MarkerNext]_markerVars => [\A s \in Source : CleanupTrigger(s)]_markerVars
  BY MarkerSteps, ZenonT(30) DEF Legal
<1> QED
  BY <1>1, MarkerInvariant, PTL DEF MarkerSpec, CleanupMovesLegally

=============================================================================
