------------------------------ MODULE WorkerLease ------------------------------
(***************************************************************************)
(* What worker registration promises the rest of the pipeline: one lease   *)
(* per worker service, named by an epoch that only grows; it ends by       *)
(* supersession, revocation or expiry; time may make it stale first; and a *)
(* fenced transaction commits only for the lease that stands.              *)
(* WorkerRegistration implements this; WorkerDispatch builds on it.        *)
(***************************************************************************)
EXTENDS Naturals

VARIABLES
    lease,     \* the newest registration: its epoch, whether it is still
               \* active, and whether lease_expires_at is in the future
    committed  \* epoch of the last fenced commit, 0 before the first

leaseVars == <<lease, committed>>

NoLease == [epoch |-> 0, active |-> FALSE, fresh |-> FALSE]

LeaseInit == lease = NoLease /\ committed = 0

\* A process registers: whatever lease stood is superseded.
Issue ==
    /\ lease' = [epoch |-> lease.epoch + 1, active |-> TRUE, fresh |-> TRUE]
    /\ UNCHANGED committed

\* 180 seconds pass without a heartbeat.
Lapse ==
    /\ lease.active
    /\ lease' = [lease EXCEPT !.fresh = FALSE]
    /\ UNCHANGED committed

\* Release, revocation or expiry.
End ==
    /\ lease.active
    /\ lease' = [lease EXCEPT !.active = FALSE]
    /\ UNCHANGED committed

\* A transaction that required the lease commits; the lease may have lapsed
\* since it was required, it cannot have ended.
LeaseCommit ==
    /\ lease.active
    /\ committed' = lease.epoch
    /\ UNCHANGED lease

LeaseNext == Issue \/ Lapse \/ End \/ LeaseCommit

LeaseSpec == LeaseInit /\ [][LeaseNext]_leaseVars
==============================================================================
