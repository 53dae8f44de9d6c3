-------------------------- MODULE WorkerRegistration --------------------------
(***************************************************************************)
(* Registration of the worker processes of one service, as the functions   *)
(* of alembic 034 implement it and worker/registration.py uses it.         *)
(*                                                                         *)
(* Three locks matter.  Registering and every operator function take the   *)
(* service's advisory lock.  Whoever ends a registration takes that        *)
(* registration's lock exclusively; heartbeats and fenced transactions     *)
(* take it shared, the latter until they commit.  Releasing takes the      *)
(* registration's lock only, so it may slip in while a registering process *)
(* waits for that lock.                                                    *)
(***************************************************************************)
EXTENDS Faults

CONSTANTS
    Proc, NoProc,
    Gen,        \* generations of admission grants
    GenOf,      \* WORKER_ADMISSION_GENERATION of each process
    MaxEpoch    \* bound: registrations ever made

ASSUME RegistrationConstants ==
    /\ NoProc \notin Proc
    /\ GenOf \in [Proc -> Gen]
    /\ MaxEpoch \in Nat /\ MaxFaults \in Nat

Epoch == 1..MaxEpoch

VARIABLES
    grant,      \* worker_admission_grants.state by generation
    newest,     \* MAX(lease_epoch) of the service, 0 before the first
    reg,        \* worker_registrations by epoch
    service,    \* the registering process that holds the service lock
    seen,       \* the active epoch it read before the registration's lock
    pc,         \* where each process is in its life
    held,       \* the epoch of the lease a process believes in, 0 for none
    fence,      \* the epoch a process's open transaction required, or 0
    committed   \* epoch of the last fenced commit

registrationVars ==
    <<grant, newest, reg, service, seen, pc, held, fence, committed, faults>>

GrantState == {"none", "pending", "active", "revoked"}
Registration ==
    [status : {"none", "active", "revoked", "expired"}, gen : Gen, fresh : BOOLEAN]
Phase == {"down", "registering", "starting", "serving", "closing"}

RegistrationTypeOK ==
    /\ grant \in [Gen -> GrantState]
    /\ newest \in 0..MaxEpoch
    /\ reg \in [Epoch -> Registration]
    /\ service \in Proc \cup {NoProc}
    /\ seen \in 0..MaxEpoch
    /\ pc \in [Proc -> Phase]
    /\ held \in [Proc -> 0..MaxEpoch]
    /\ fence \in [Proc -> 0..MaxEpoch]
    /\ committed \in 0..MaxEpoch
    /\ faults \in 0..MaxFaults

RegistrationInit ==
    /\ grant = [g \in Gen |-> "none"]
    /\ newest = 0
    /\ reg = [e \in Epoch |->
                 [status |-> "none", gen |-> CHOOSE g \in Gen : TRUE, fresh |-> FALSE]]
    /\ service = NoProc /\ seen = 0
    /\ pc = [p \in Proc |-> "down"]
    /\ held = [p \in Proc |-> 0]
    /\ fence = [p \in Proc |-> 0]
    /\ committed = 0
    /\ faults = 0

-----------------------------------------------------------------------------
(* Locks and rows *)

Active == {e \in Epoch : reg[e].status = "active"}

\* The row of the service with status 'active'; 0 without one.
ActiveEpoch == IF Active = {} THEN 0 ELSE CHOOSE e \in Active : TRUE

\* Mutant: an exclusive lock that does not wait for shared holders.
LockableAlways(e) == TRUE

\* pg_advisory_xact_lock on the registration waits for every shared holder.
Lockable(e) == \A p \in Proc : e # 0 => fence[p] # e

\* Mutant: the reason is written where the status belongs.
EndedWithReason(e, status) == [reg EXCEPT ![e].status = "superseded"]

Ended(e, status) == [reg EXCEPT ![e].status = status]

\* Mutant: the role of a revoked generation keeps its login.
CanLoginAlways(p) == TRUE

\* A revoked generation's database role is quarantined: no login, no
\* memberships, its sessions terminated.
CanLogin(p) == grant[GenOf[p]] # "revoked"

\* Mutant: vp_require_worker_lease without the status test.
LeaseUnexpired(e) == reg[e].fresh

\* vp_require_worker_lease, vp_worker_heartbeat
LeaseLive(e) == reg[e].status = "active" /\ reg[e].fresh

-----------------------------------------------------------------------------
(* A process registers: PythonWorkerRegistration.start *)

\* vp_worker_register up to the wait for the old registration's lock.
RegisterBegin(p) ==
    /\ pc[p] = "down" /\ CanLogin(p)
    /\ service = NoProc /\ service' = p
    /\ seen' = ActiveEpoch
    /\ pc' = [pc EXCEPT ![p] = "registering"]
    /\ UNCHANGED <<grant, newest, reg, held, fence, committed, faults>>

\* Mutant: a lease that stands is waited out instead of superseded.
LockedWhenFree(p) == service = p /\ ActiveEpoch = 0 /\ seen = 0

\* The lock is granted and the row is still the one read before.
Locked(p) == service = p /\ Lockable(seen) /\ ActiveEpoch = seen

\* Mutant: the maximum is taken over the active rows.
NextEpochOfActive == ActiveEpoch + 1

\* COALESCE(MAX(lease_epoch), 0) + 1
NextEpoch == newest + 1

\* The old registration is superseded and the new one inserted.
Registered(p) ==
    /\ Locked(p)
    /\ grant[GenOf[p]] = "active"
    /\ NextEpoch \in Epoch
    /\ newest' = IF NextEpoch > newest THEN NextEpoch ELSE newest
    /\ reg' = [e \in Epoch |->
                 IF e = NextEpoch
                 THEN [status |-> "active", gen |-> GenOf[p], fresh |-> TRUE]
                 ELSE IF e = seen THEN [reg[e] EXCEPT !.status = "revoked"]
                 ELSE reg[e]]
    /\ service' = NoProc /\ seen' = 0
    /\ UNCHANGED <<grant, fence, committed>>

RegisterCommit(p) ==
    /\ Registered(p)
    /\ pc' = [pc EXCEPT ![p] = "starting"]
    /\ held' = [held EXCEPT ![p] = NextEpoch]
    /\ UNCHANGED faults

\* The answer is lost: the registration stands and nobody knows it.
RegisterUnacknowledged(p) ==
    /\ Fault
    /\ Registered(p)
    /\ pc' = [pc EXCEPT ![p] = "down"]
    /\ UNCHANGED held

\* lease_fenced, grant_missing or grant_disabled; the process exits.
RegisterFails(p) ==
    /\ service = p /\ Lockable(seen)
    /\ ActiveEpoch # seen \/ grant[GenOf[p]] # "active"
    /\ service' = NoProc /\ seen' = 0
    /\ pc' = [pc EXCEPT ![p] = "down"]
    /\ UNCHANGED <<grant, newest, reg, held, fence, committed, faults>>

-----------------------------------------------------------------------------
(* The life of a lease *)

\* heartbeat_now: the first one ends start(), the later ones are the loop's.
Heartbeat(p) ==
    /\ pc[p] \in {"starting", "serving"} /\ CanLogin(p)
    /\ LeaseLive(held[p])
    /\ pc' = [pc EXCEPT ![p] = "serving"]
    /\ UNCHANGED <<grant, newest, reg, service, seen, held, fence, committed, faults>>

\* The heartbeat is refused: guarded tasks are cancelled, close follows.
LeaseLost(p) ==
    /\ pc[p] \in {"starting", "serving"}
    /\ ~(CanLogin(p) /\ LeaseLive(held[p]))
    /\ pc' = [pc EXCEPT ![p] = "closing"]
    /\ fence' = [fence EXCEPT ![p] = 0]
    /\ UNCHANGED <<grant, newest, reg, service, seen, held, committed, faults>>

\* A heartbeat that fails for another reason, or a shutdown.
Shutdown(p) ==
    /\ Fault
    /\ pc[p] \in {"starting", "serving"}
    /\ pc' = [pc EXCEPT ![p] = "closing"]
    /\ fence' = [fence EXCEPT ![p] = 0]
    /\ UNCHANGED <<grant, newest, reg, service, seen, held, committed>>

\* vp_worker_release, idempotent.
Release(p) ==
    /\ pc[p] = "closing" /\ CanLogin(p)
    /\ Lockable(held[p])
    /\ reg' = IF reg[held[p]].status = "active" THEN Ended(held[p], "revoked") ELSE reg
    /\ pc' = [pc EXCEPT ![p] = "down"]
    /\ held' = [held EXCEPT ![p] = 0]
    /\ UNCHANGED <<grant, newest, service, seen, fence, committed, faults>>

\* _revoke_bounded gives up after five seconds or on any error.
ReleaseGivesUp(p) ==
    /\ pc[p] = "closing"
    /\ pc' = [pc EXCEPT ![p] = "down"]
    /\ held' = [held EXCEPT ![p] = 0]
    /\ UNCHANGED <<grant, newest, reg, service, seen, fence, committed, faults>>

\* A fenced transaction requires the lease and keeps the shared lock.
OpenFence(p) ==
    /\ pc[p] = "serving" /\ fence[p] = 0 /\ CanLogin(p)
    /\ LeaseLive(held[p])
    /\ fence' = [fence EXCEPT ![p] = held[p]]
    /\ UNCHANGED <<grant, newest, reg, service, seen, pc, held, committed, faults>>

CommitFence(p) ==
    /\ fence[p] # 0
    /\ committed' = fence[p]
    /\ fence' = [fence EXCEPT ![p] = 0]
    /\ UNCHANGED <<grant, newest, reg, service, seen, pc, held, faults>>

AbortFence(p) ==
    /\ fence[p] # 0
    /\ fence' = [fence EXCEPT ![p] = 0]
    /\ UNCHANGED <<grant, newest, reg, service, seen, pc, held, committed, faults>>

\* A process dies; PostgreSQL rolls back what it had open.
Crash(p) ==
    /\ Fault
    /\ pc[p] # "down"
    /\ pc' = [pc EXCEPT ![p] = "down"]
    /\ held' = [held EXCEPT ![p] = 0]
    /\ fence' = [fence EXCEPT ![p] = 0]
    /\ service' = IF service = p THEN NoProc ELSE service
    /\ seen' = IF service = p THEN 0 ELSE seen
    /\ UNCHANGED <<grant, newest, reg, committed>>

\* Somebody alive still sends heartbeats for the registration.
Beating(e) == \E p \in Proc : held[p] = e /\ pc[p] \in {"starting", "serving"}

\* lease_expires_at passes: freely without heartbeats, as a fault with them.
LeaseExpires(e) ==
    /\ LeaseLive(e)
    /\ IF Beating(e) THEN Fault ELSE UNCHANGED faults
    /\ reg' = [reg EXCEPT ![e].fresh = FALSE]
    /\ UNCHANGED <<grant, newest, service, seen, pc, held, fence, committed>>

-----------------------------------------------------------------------------
(* The operator: worker_registration_operator_cli.py *)

\* _operator_active_registration_lock_sql
OperatorLocks == service = NoProc /\ Lockable(ActiveEpoch)

operatorKeeps == <<newest, service, seen, pc, held, fence, committed, faults>>

\* vp_worker_grant_upsert: only a pending grant is ever rewritten.
GrantUpsert(g) ==
    /\ OperatorLocks
    /\ grant[g] \in {"none", "pending"}
    /\ grant' = [grant EXCEPT ![g] = "pending"]
    /\ UNCHANGED <<reg, operatorKeeps>>

\* Mutant: activation leaves the grant it replaces active.
ActivatedBeside(g) == [grant EXCEPT ![g] = "active"]

Activated(g) ==
    [h \in Gen |-> IF h = g THEN "active"
                   ELSE IF grant[h] = "active" THEN "revoked" ELSE grant[h]]

\* vp_worker_grant_activate: the old generation's registration stays as it
\* is; its role is quarantined.
GrantActivate(g) ==
    /\ OperatorLocks
    /\ grant[g] = "pending"
    /\ grant' = Activated(g)
    /\ UNCHANGED <<reg, operatorKeeps>>

\* vp_worker_grant_revoke: with the registration made under the grant.
GrantRevoke(g) ==
    /\ OperatorLocks
    /\ grant[g] \in {"pending", "active"}
    /\ grant' = [grant EXCEPT ![g] = "revoked"]
    /\ reg' = [e \in Epoch |->
                 IF e \in Active /\ reg[e].gen = g
                 THEN [reg[e] EXCEPT !.status = "revoked"] ELSE reg[e]]
    /\ UNCHANGED operatorKeeps

\* vp_worker_registration_revoke
RegistrationRevoke(e) ==
    /\ service = NoProc /\ Lockable(e)
    /\ reg[e].status = "active"
    /\ reg' = Ended(e, "revoked")
    /\ UNCHANGED <<grant, operatorKeeps>>

\* vp_worker_registration_expire
RegistrationExpire(e) ==
    /\ service = NoProc /\ Lockable(e)
    /\ reg[e].status = "active" /\ ~reg[e].fresh
    /\ reg' = Ended(e, "expired")
    /\ UNCHANGED <<grant, operatorKeeps>>

-----------------------------------------------------------------------------
(* Specification *)

Process(p) ==
    \/ RegisterBegin(p)
    \/ RegisterCommit(p)
    \/ RegisterFails(p)
    \/ Heartbeat(p)
    \/ LeaseLost(p)
    \/ Release(p)
    \/ ReleaseGivesUp(p)

Transaction(p) == OpenFence(p) \/ CommitFence(p) \/ AbortFence(p)

ProcessFault(p) == RegisterUnacknowledged(p) \/ Shutdown(p) \/ Crash(p)

Operator ==
    \/ \E g \in Gen : GrantUpsert(g) \/ GrantActivate(g) \/ GrantRevoke(g)
    \/ \E e \in Epoch : RegistrationRevoke(e) \/ RegistrationExpire(e)

RegistrationNext ==
    \/ \E p \in Proc : Process(p) \/ Transaction(p) \/ ProcessFault(p)
    \/ \E e \in Epoch : LeaseExpires(e)
    \/ Operator

RegistrationSpec == RegistrationInit /\ [][RegistrationNext]_registrationVars

\* Processes run, transactions end; PostgreSQL queues the waiters of a lock
\* in order, so a process that keeps trying registers in its turn.
RegistrationFairness ==
    \A p \in Proc :
        /\ WF_registrationVars(Process(p))
        /\ WF_registrationVars(CommitFence(p) \/ AbortFence(p))
        /\ SF_registrationVars(RegisterBegin(p))
        /\ SF_registrationVars(RegisterCommit(p))

RegistrationFairSpec == RegistrationSpec /\ RegistrationFairness

-----------------------------------------------------------------------------
(* Properties *)

\* One registration of the service is active at most, and it is the newest:
\* an older process can never look live again
\* (uq_worker_registrations_active_service, vp_worker_register).
ActiveIsNewest == Active \subseteq {newest}

\* The registration an open transaction required is active until the
\* transaction ends: superseding, releasing, revoking and expiring all wait.
OpenFenceIsActive == \A p \in Proc : fence[p] # 0 => fence[p] \in Active

\* Fenced commits never go back to an older lease.
FencedCommitsAdvance == [][committed' >= committed]_registrationVars

\* Once a grant is revoked or replaced, nothing commits under the leases it
\* admitted, though replacing it leaves the registration row active.
RevokedGrantIsPowerless ==
    [][\A p \in Proc : committed' # committed /\ fence[p] = committed' =>
            grant[reg[committed'].gen] = "active"]_registrationVars

\* At most one generation admits workers.
OneActiveGrant ==
    \A g, h \in Gen : grant[g] = "active" /\ grant[h] = "active" => g = h

Lease ==
    INSTANCE WorkerLease WITH
        lease <- [epoch |-> newest,
                  active |-> newest # 0 /\ reg[newest].status = "active",
                  fresh |-> newest # 0 /\ reg[newest].fresh]

\* The functions of alembic 034 keep the promise of WorkerLease.
ImplementsWorkerLease == Lease!LeaseSpec

Serving(g) ==
    \E p \in Proc : GenOf[p] = g /\ pc[p] = "serving" /\ LeaseLive(held[p])

\* While operators leave a generation admitted, one of its processes ends up
\* serving, whatever lease a dead or older process left behind.
AdmittedGenerationServes ==
    \A g \in Gen : grant[g] = "active" ~>
        (Serving(g) \/ grant[g] # "active" \/ newest = MaxEpoch)
==============================================================================
