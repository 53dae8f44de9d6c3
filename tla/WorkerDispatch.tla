---------------------------- MODULE WorkerDispatch ----------------------------
(***************************************************************************)
(* One job's tasks on their way from the orchestrator to registered        *)
(* workers and back: the dispatch rows and the task stream, the claim that *)
(* attests a delivery, the prepared event and the event stream, the        *)
(* receipt that applies it, and the acknowledgements that take the         *)
(* messages out of Redis.  PostgreSQL and Redis commit separately, so every *)
(* transaction that calls Redis may do so and then fail to commit.         *)
(*                                                                         *)
(* A dispatch is <<node, attempt>>: attempt 0 is the initial dispatch,     *)
(* attempt 1 the retry staged by the receipt of a failure.  A worker       *)
(* process is the lease epoch it registered under (WorkerLease).           *)
(***************************************************************************)
EXTENDS WorkerLease, Faults, FiniteSets

CONSTANTS
    Node,
    Dep,        \* Dep[n]: the nodes whose artifacts n consumes
    MaxEpoch    \* bound: registrations ever made

ASSUME DispatchConstants ==
    /\ Dep \in [Node -> SUBSET Node]
    /\ MaxEpoch \in Nat /\ MaxFaults \in Nat

Dispatch == Node \X {0, 1}
NoClaim == <<>>

VARIABLES
    job,        \* jobs.status, or "deleted"
    node,       \* node_executions: status, retry_count, the claiming dispatch
    stopping,   \* <<S>> while a cancel request has read S as active, before it writes
    sent,       \* worker_task_dispatches.delivery_state, "none" without a row
    res,        \* worker_task_dispatches.resolution_state
    sender,     \* dispatches whose XADD is in flight
    marker,     \* dispatches with an idempotency marker in Redis
    tasks,      \* task messages a worker may still be given
    att,        \* epoch of the delivery attestation, 0 without one
    acked,      \* attestations acknowledged
    up,         \* the process of the newest lease runs
    hand,       \* dispatches some process is executing
    artifacts,  \* dispatches whose claim persisted an output
    emis,       \* worker_event_emissions.emission_state
    kind,       \* its event type
    events,     \* event messages in the orchestrator's stream
    receipt     \* registered_worker_event_receipts: none, applied, acknowledged

redisVars == <<sender, marker, tasks, events>>
rowVars == <<sent, res, att, acked, emis, kind, receipt, artifacts>>
dispatchVars ==
    <<job, node, stopping, sent, res, sender, marker, tasks, att, acked, up, hand,
      artifacts, emis, kind, events, receipt, faults, leaseVars>>

Active == {"PENDING", "QUEUED", "RUNNING"}
Settled == {"SUCCEEDED", "FAILED", "PARTIALLY_FAILED", "CANCELLED"}
NodeRow == [status : Active \cup {"SUCCEEDED", "FAILED", "SKIPPED", "CANCELLED"},
            retry : {0, 1}, owner : Dispatch \cup {NoClaim}]

DeliveryState == {"none", "pending", "attempting", "delivered", "uncertain", "cancelled"}
ResolutionState == {"unresolved", "cancel_authorized", "acknowledged", "cancelled"}
EmissionState == {"none", "prepared", "emitted", "resolved"}
EventType == {"none", "completed", "failed"}
ReceiptState == {"none", "applied", "acknowledged"}

DispatchTypeOK ==
    /\ job \in Settled \cup {"RUNNING", "deleted"}
    /\ node \in [Node -> NodeRow]
    /\ stopping \in {<<>>} \cup {<<S>> : S \in SUBSET Node}
    /\ sent \in [Dispatch -> DeliveryState] /\ res \in [Dispatch -> ResolutionState]
    /\ sender \subseteq Dispatch /\ marker \subseteq Dispatch
    /\ tasks \subseteq marker /\ hand \subseteq Dispatch
    /\ att \in [Dispatch -> 0..lease.epoch]
    /\ \A d \in acked : att[d] # 0
    /\ up \in BOOLEAN
    /\ \A d \in artifacts : att[d] # 0
    /\ emis \in [Dispatch -> EmissionState] /\ kind \in [Dispatch -> EventType]
    /\ events \subseteq Dispatch
    /\ receipt \in [Dispatch -> ReceiptState]
    /\ lease.epoch \in 0..MaxEpoch
    /\ faults \in 0..MaxFaults

DispatchInit ==
    /\ LeaseInit
    /\ job = "RUNNING"
    /\ node = [n \in Node |-> [status |-> "PENDING", retry |-> 0, owner |-> NoClaim]]
    /\ stopping = <<>>
    /\ sent = [d \in Dispatch |-> "none"]
    /\ res = [d \in Dispatch |-> "unresolved"]
    /\ sender = {} /\ marker = {} /\ tasks = {} /\ events = {}
    /\ att = [d \in Dispatch |-> 0]
    /\ acked = {} /\ hand = {} /\ artifacts = {} /\ up = FALSE
    /\ emis = [d \in Dispatch |-> "none"]
    /\ kind = [d \in Dispatch |-> "none"]
    /\ receipt = [d \in Dispatch |-> "none"]
    /\ faults = 0

\* A transaction's commit reaches PostgreSQL, or it is lost after the calls of
\* Redis it made; written "Commits \/ CommitLost" by the actions below.
Commits == UNCHANGED faults
CommitLost == Fault /\ UNCHANGED rowVars

-----------------------------------------------------------------------------
(* Guards shared by the functions of alembic 034 *)

LeaseLive(e) == lease.epoch = e /\ lease.active /\ lease.fresh

\* A transaction that requires the lease until it commits.
Fenced(e) == LeaseLive(e) /\ LeaseCommit

\* vp_require_worker_node_claim: the node row still carries this claim.
ClaimStands(d) ==
    /\ job = "RUNNING"
    /\ node[d[1]].status = "RUNNING"
    /\ node[d[1]].owner = d

\* The node waits, under no claim, for the delivery of this very dispatch.
Claimable(d) ==
    /\ job = "RUNNING"
    /\ node[d[1]].status = "QUEUED" /\ node[d[1]].owner = NoClaim
    /\ sent[d] = "delivered" /\ res[d] = "unresolved"
    /\ att[d] = 0

\* Mutant: a dependency only must not have failed.
ReadyUnlessFailed(row) ==
    {n \in Node : row[n].status = "PENDING"
                  /\ \A m \in Dep[n] : row[m].status # "FAILED"}

Ready(row) ==
    {n \in Node : row[n].status = "PENDING"
                  /\ \A m \in Dep[n] : row[m].status = "SUCCEEDED"}

\* Mutant: queued nodes are not waited for.
FinalizedEarly(row) ==
    IF \E n \in Node : row[n].status \in {"PENDING", "RUNNING"} THEN "RUNNING"
    ELSE IF \A n \in Node : row[n].status = "SUCCEEDED" THEN "SUCCEEDED" ELSE "FAILED"

\* Mutant: a job with a failed node is left open.
FinalizedSuccess(row) ==
    IF \A n \in Node : row[n].status = "SUCCEEDED" THEN "SUCCEEDED" ELSE "RUNNING"

\* _apply_job_finalization: nothing while a node is active.
Finalized(row) ==
    LET leaf == {n \in Node : \A m \in Node : n \notin Dep[m]}
        succeeded == {n \in Node : row[n].status = "SUCCEEDED"}
    IN  IF \E n \in Node : row[n].status \in Active THEN "RUNNING"
        ELSE IF succeeded = Node THEN "SUCCEEDED"
        ELSE IF leaf \subseteq succeeded THEN "PARTIALLY_FAILED" ELSE "FAILED"

-----------------------------------------------------------------------------
(* Worker processes *)

StartWorker ==
    /\ lease.epoch < MaxEpoch
    /\ Issue
    /\ up' = TRUE
    /\ UNCHANGED <<job, node, stopping, rowVars, redisVars, hand, faults>>

\* Shutdown, revocation, or expiry of a lapsed lease.  The process notices at
\* its next heartbeat; what it executes may go on until it needs the lease.
StopWorker ==
    /\ End
    /\ up' = FALSE
    /\ UNCHANGED <<job, node, stopping, rowVars, redisVars, hand, faults>>

MissHeartbeats ==
    /\ lease.fresh /\ Lapse
    /\ up => Fault
    /\ ~up => UNCHANGED faults
    /\ UNCHANGED <<job, node, stopping, rowVars, redisVars, up, hand>>

Crash ==
    /\ up /\ Fault
    /\ up' = FALSE
    /\ hand' = {d \in hand : att[d] # lease.epoch}
    /\ UNCHANGED <<job, node, stopping, rowVars, redisVars, leaseVars>>

-----------------------------------------------------------------------------
(* Orchestrator: staging and delivering dispatches *)

\* _dispatch_ready_nodes at the start of the job: one transaction per node.
StageInitial(n) ==
    /\ job = "RUNNING" /\ n \in Ready(node)
    /\ sent[<<n, 0>>] = "none"
    /\ sent' = [sent EXCEPT ![<<n, 0>>] = "pending"]
    /\ node' = [node EXCEPT ![n].status = "QUEUED"]
    /\ UNCHANGED <<job, stopping, res, att, acked, emis, kind, receipt, artifacts,
                   redisVars, up, hand, faults, leaseVars>>

\* _begin_dispatch_attempts commits before Redis is called.
BeginAttempt(d) ==
    /\ sent[d] = "pending" /\ res[d] = "unresolved"
    /\ sent' = [sent EXCEPT ![d] = "attempting"]
    /\ sender' = sender \cup {d}
    /\ UNCHANGED <<job, node, stopping, res, att, acked, emis, kind, receipt, artifacts,
                   marker, tasks, events, up, hand, faults, leaseVars>>

\* The Lua script adds the message and its marker together, once.
XaddTask(d) ==
    /\ d \in sender \ marker
    /\ marker' = marker \cup {d}
    /\ tasks' = tasks \cup {d}
    /\ UNCHANGED <<job, node, stopping, rowVars, sender, events, up, hand, faults,
                   leaseVars>>

\* Mutant: whatever became of the row meanwhile is overwritten.
DeliveredAnyway(d) == "delivered"

Delivered(d) == IF sent[d] = "attempting" THEN "delivered" ELSE sent[d]

MarkDelivered(d) ==
    /\ d \in sender \cap marker
    /\ sender' = sender \ {d}
    /\ sent' = [sent EXCEPT ![d] = Delivered(d)]
    /\ UNCHANGED <<job, node, stopping, res, att, acked, emis, kind, receipt, artifacts,
                   marker, tasks, events, up, hand, faults, leaseVars>>

\* The attempt ends before, or after, Redis took the message.
SenderFails(d) ==
    /\ d \in sender /\ Fault
    /\ sender' = sender \ {d}
    /\ UNCHANGED <<job, node, stopping, rowVars, marker, tasks, events, up, hand,
                   leaseVars>>

\* Mutant: an attempt without a marker goes out again under the old row.
StaleAttemptDelivered(d) == "delivered"

\* Mutant: an attempt without a marker is left as it is.
StaleAttemptKept(d) == IF d \in marker THEN "delivered" ELSE "attempting"

\* What the marker says of an attempt older than a minute.
StaleAttempt(d) == IF d \in marker THEN "delivered" ELSE "uncertain"

RecoverStaleAttempt(d) ==
    /\ sent[d] = "attempting"
    /\ d \in sender => Fault
    /\ d \notin sender => UNCHANGED faults
    /\ sent' = [sent EXCEPT ![d] = StaleAttempt(d)]
    /\ UNCHANGED <<job, node, stopping, res, att, acked, emis, kind, receipt, artifacts,
                   redisVars, up, hand, leaseVars>>

-----------------------------------------------------------------------------
(* Worker: claim, execute, report, acknowledge *)

\* The attestation of the delivery and the claim are one transaction.
Attested(d) ==
    /\ node' = [node EXCEPT ![d[1]].status = "RUNNING", ![d[1]].owner = d]
    /\ att' = [att EXCEPT ![d] = lease.epoch]

ClaimNode(d) ==
    /\ up /\ d \in tasks
    /\ Fenced(lease.epoch)
    /\ Claimable(d) /\ Attested(d)
    /\ hand' = hand \cup {d}
    /\ UNCHANGED <<job, stopping, sent, res, acked, emis, kind, receipt, artifacts,
                   redisVars, up, faults>>

\* What _persist_artifact_for_current_claim requires, and what it stores.
Persistable(d) == ClaimStands(d) /\ Fenced(att[d])
Stored(d) == artifacts' = artifacts \cup {d}

\* The handler returned: its output is stored under the claim it was made for.
PersistArtifact(d) ==
    /\ d \in hand \ artifacts /\ emis[d] = "none"
    /\ Persistable(d) /\ Stored(d)
    /\ UNCHANGED <<job, node, stopping, sent, res, att, acked, emis, kind, receipt,
                   redisVars, up, hand, faults>>

\* Mutant: completion is reported before its artifact is stored.
ReportableEarly(d, k) == emis[d] = "none"

\* One emission row per attestation: a second outcome of it is refused.
Reportable(d, k) == emis[d] = "none" /\ (k = "completed" => d \in artifacts)

Prepared(d, k) ==
    /\ emis' = [emis EXCEPT ![d] = "prepared"]
    /\ kind' = [kind EXCEPT ![d] = k]

PrepareEvent(d, k) ==
    /\ d \in hand /\ Reportable(d, k)
    /\ ClaimStands(d) /\ Fenced(att[d])
    /\ Prepared(d, k)
    /\ UNCHANGED <<job, node, stopping, sent, res, att, acked, receipt, artifacts,
                   redisVars, up, hand, faults>>

\* A failure can be reported at any point, also after the output was stored.
ReportSuccess(d) == PrepareEvent(d, "completed")
ReportFailure(d) == PrepareEvent(d, "failed")

\* list_prepared_worker_event_emission_ids: what the replay loop goes through.
Replayable(d) == emis[d] = "prepared" /\ d \notin acked

\* vp_load_prepared_worker_event_emission
Sendable(d) ==
    /\ Replayable(d) /\ res[d] = "unresolved"
    /\ ClaimStands(d) /\ LeaseLive(att[d])

Emitted(d) == emis' = [emis EXCEPT ![d] = "emitted"]

\* By the task itself, up to three times, or by the process's replay loop.
SendEvent(d) ==
    /\ up /\ Sendable(d)
    /\ events' = events \cup {d}
    /\ \/ Commits /\ Emitted(d) /\ LeaseCommit
          /\ UNCHANGED <<sent, res, att, acked, kind, receipt, artifacts>>
       \/ CommitLost /\ UNCHANGED leaseVars
    /\ UNCHANGED <<job, node, stopping, sender, marker, tasks, up, hand>>

\* Mutant: a prepared event is enough.
EventPrepared(d) == emis[d] # "none"

\* require_worker_task_ack_receipt: the event is out.
EventOut(d) == emis[d] \in {"emitted", "resolved"}

\* vp_authorize_worker_task_ack
AckAuthorized(d) == EventOut(d) /\ ClaimStands(d) /\ LeaseLive(att[d])

\* Attestation and dispatch are acknowledged together.
Acknowledged(d) ==
    /\ acked' = acked \cup {d}
    /\ res' = [res EXCEPT ![d] = "acknowledged"]

\* _ack_message_for_claim
AckTask(d) ==
    /\ d \in hand /\ d \notin acked
    /\ AckAuthorized(d)
    /\ tasks' = tasks \ {d}
    /\ hand' = hand \ {d}
    /\ \/ /\ Commits /\ LeaseCommit
          /\ Acknowledged(d)
          /\ UNCHANGED <<sent, att, emis, kind, receipt, artifacts>>
       \/ CommitLost /\ UNCHANGED leaseVars
    /\ UNCHANGED <<job, node, stopping, sender, marker, events, up>>

\* What the watcher of a running handler looks for, every two seconds.
CancelSeen(d) == job = "CANCELLED" \/ node[d[1]].status = "CANCELLED"

\* Before and after the handler the task stops, without a report, when it was
\* cancelled or its claim is gone.
StopsQuietly(d) == CancelSeen(d) \/ ~(ClaimStands(d) /\ LeaseLive(att[d]))

\* It stopped, its event is out and the acknowledgement failed, or an error
\* leaves the message pending.
Abandon(d) ==
    /\ d \in hand
    /\ IF StopsQuietly(d) \/ emis[d] = "emitted" THEN UNCHANGED faults ELSE Fault
    /\ hand' = hand \ {d}
    /\ UNCHANGED <<job, node, stopping, rowVars, redisVars, up, leaseVars>>

-----------------------------------------------------------------------------
(* Orchestrator: applying events *)

\* Nodes reachable from S along dependencies, S excluded.
Downstream(S) ==
    LET step(T) == T \cup {n \in Node : Dep[n] \cap T # {}}
        reach[k \in 0..Cardinality(Node)] == IF k = 0 THEN S ELSE step(reach[k - 1])
    IN  reach[Cardinality(Node)] \ S

Completed(d) ==
    LET done == [node EXCEPT ![d[1]].status = "SUCCEEDED"]
        next == Ready(done)
        row == [n \in Node |-> IF n \in next THEN [done[n] EXCEPT !.status = "QUEUED"]
                               ELSE done[n]]
    IN  /\ node' = row
        /\ sent' = [e \in Dispatch |-> IF e[1] \in next /\ e[2] = 0
                                       THEN "pending" ELSE sent[e]]
        /\ job' = Finalized(row)

\* Mutant: max_retries is not looked at.
RetriedAlways(d) ==
    /\ LeaseLive(att[d])
    /\ node' = [node EXCEPT ![d[1]] = [status |-> "QUEUED", retry |-> @.retry + 1,
                                      owner |-> NoClaim]]
    /\ sent' = [sent EXCEPT ![<<d[1], 1>>] = "pending"]
    /\ UNCHANGED job

\* The worker whose failure it was must still hold its lease (alembic 037).
Released(d) ==
    /\ LeaseLive(att[d])
    /\ node' = [node EXCEPT ![d[1]] = [status |-> "QUEUED", retry |-> 1, owner |-> NoClaim]]

\* The retry row is staged and the claim released.
Retried(d) ==
    /\ node[d[1]].retry = 0 /\ Released(d)
    /\ sent' = [sent EXCEPT ![<<d[1], 1>>] = "pending"]
    /\ UNCHANGED job

Failed(d) ==
    LET row == [n \in Node |->
                   IF n = d[1] THEN [node[n] EXCEPT !.status = "FAILED"]
                   ELSE IF n \in Downstream({d[1]}) /\ node[n].status = "PENDING"
                   THEN [node[n] EXCEPT !.status = "SKIPPED"]
                   ELSE node[n]]
    IN  /\ node[d[1]].retry = 1
        /\ node' = row
        /\ job' = Finalized(row)
        /\ UNCHANGED sent

\* vp_observe_worker_event_emission takes the event for the emission's even
\* when the worker's own mark was lost.
Observed(d) == emis' = [emis EXCEPT ![d] = IF @ = "prepared" THEN "emitted" ELSE @]

\* apply_registered_worker_event
ApplyEvent(d) ==
    \/ kind[d] = "completed" /\ Completed(d)
    \/ kind[d] = "failed" /\ Retried(d)
    \/ kind[d] = "failed" /\ Failed(d)

\* accept_and_apply, in one transaction; a redelivery finds the receipt.
AcceptAndApply(d) ==
    /\ receipt[d] = "none" /\ ClaimStands(d)
    /\ Observed(d)
    /\ receipt' = [receipt EXCEPT ![d] = "applied"]
    /\ ApplyEvent(d)

\* The listener reads an event, or reclaims one it left pending.
AcceptEvent(d) ==
    /\ d \in events /\ AcceptAndApply(d)
    /\ UNCHANGED <<stopping, res, att, acked, kind, artifacts, redisVars, up, hand,
                   faults, leaseVars>>

\* Mutant: deliveries whose task the worker acknowledged are passed over.
AppliedUnacked(d) == receipt[d] = "applied" /\ d \notin acked

\* Mutant: having seen the event is enough.
SeenOrApplied(d) == d \in events

Applied(d) == receipt[d] = "applied"

\* vp_acknowledge_proven_worker_task_dispatch: an applied receipt is the proof, or
\* the acknowledgement of an event that is out; the worker's lease and claim may
\* be gone.
AckProof(d) ==
    /\ receipt[d] = "applied" \/ (d \in acked /\ EventOut(d))
    /\ sent[d] = "delivered" /\ res[d] # "cancelled"

\* _mark_proven_task_acknowledged, for a task its worker did not acknowledge
Proven(d) == IF d \in acked THEN UNCHANGED <<acked, res>> ELSE AckProof(d) /\ Acknowledged(d)

ReceiptAcknowledged(d) ==
    /\ receipt' = [receipt EXCEPT ![d] = "acknowledged"]
    /\ emis' = [emis EXCEPT ![d] = IF @ = "emitted" THEN "resolved" ELSE @]

\* _acknowledge_locked_delivery: the task's message, then the event's, then the
\* rows.
AckLockedDelivery(d) ==
    /\ tasks' = IF d \in acked THEN tasks ELSE tasks \ {d}
    /\ events' = events \ {d}
    /\ \/ Commits /\ Proven(d) /\ ReceiptAcknowledged(d)
          /\ UNCHANGED <<sent, att, kind, artifacts>>
       \/ CommitLost

\* acknowledge_applied and its reconciler.
AckEvent(d) ==
    /\ Applied(d) /\ AckLockedDelivery(d)
    /\ UNCHANGED <<job, node, stopping, sender, marker, up, hand, leaseVars>>

-----------------------------------------------------------------------------
(* Cancelling and deleting the job *)

\* cancel_job reads job and nodes, locks nothing, and writes what it read.
CancelReads ==
    /\ job \in {"RUNNING", "PARTIALLY_FAILED"} /\ stopping = <<>>
    /\ stopping' = <<{n \in Node : node[n].status \in Active}>>
    /\ UNCHANGED <<job, node, rowVars, redisVars, up, hand, faults, leaseVars>>

CancelWrites ==
    /\ stopping # <<>> /\ job # "deleted"
    /\ job' = "CANCELLED"
    /\ node' = [n \in Node |-> IF n \in stopping[1]
                               THEN [node[n] EXCEPT !.status = "CANCELLED"] ELSE node[n]]
    /\ stopping' = <<>>
    /\ UNCHANGED <<rowVars, redisVars, up, hand, faults, leaseVars>>

Stopped(d) == job = "CANCELLED" /\ node[d[1]].status = "CANCELLED"

\* Mutant: the event is not looked at.
WithdrawableAnyway(d) == Stopped(d)

\* A prepared event holds the dispatch: the outcome may be in the stream.
Withdrawable(d) == Stopped(d) /\ emis[d] = "none"

CancelPending(d) ==
    /\ Withdrawable(d) /\ sent[d] = "pending" /\ res[d] = "unresolved"
    /\ sent' = [sent EXCEPT ![d] = "cancelled"]
    /\ res' = [res EXCEPT ![d] = "cancelled"]
    /\ UNCHANGED <<job, node, stopping, att, acked, emis, kind, receipt, artifacts,
                   redisVars, up, hand, faults, leaseVars>>

AuthorizeCancelledAck(d) ==
    /\ Withdrawable(d) /\ sent[d] = "delivered" /\ res[d] = "unresolved"
    /\ res' = [res EXCEPT ![d] = "cancel_authorized"]
    /\ UNCHANGED <<job, node, stopping, sent, att, acked, emis, kind, receipt, artifacts,
                   redisVars, up, hand, faults, leaseVars>>

\* Once before the XACK and once, in the same transaction, after it.
CancelAuthorized(d) ==
    Withdrawable(d) /\ sent[d] = "delivered" /\ res[d] = "cancel_authorized"

\* XACK takes out only a message some worker has been given: a claimed one has
\* been, of another one the rows do not tell.
AckCancelled(d) ==
    /\ CancelAuthorized(d)
    /\ \/ tasks' = tasks \ {d}
       \/ att[d] = 0 /\ UNCHANGED tasks
    /\ \/ /\ Commits
          /\ res' = [res EXCEPT ![d] = "acknowledged"]
          /\ acked' = acked \cup {e \in {d} : att[e] # 0}
          /\ UNCHANGED <<sent, att, emis, kind, receipt, artifacts>>
       \/ CommitLost
    /\ UNCHANGED <<job, node, stopping, sender, marker, events, up, hand, leaseVars>>

\* Mutant: only the receipts count.
ResolvedReceipts(d) == receipt[d] \in {"none", "acknowledged"}

\* vp_resolve_worker_event_authority_for_job_deletion
Resolved(d) ==
    \/ sent[d] = "none"
    \/ sent[d] = "cancelled" /\ res[d] = "cancelled"
    \/ /\ res[d] = "acknowledged"
       /\ att[d] # 0 => d \in acked
       /\ emis[d] \in {"none", "resolved"}
       /\ receipt[d] \in {"none", "acknowledged"}

DeleteJob ==
    /\ job \in {"SUCCEEDED", "FAILED", "CANCELLED"}
    /\ \A d \in Dispatch : Resolved(d)
    /\ job' = "deleted"
    /\ UNCHANGED <<node, stopping, rowVars, redisVars, up, hand, faults, leaseVars>>

-----------------------------------------------------------------------------
(* The row triggers of alembic 034: the writes they let through *)

ReceiptTrigger(d) ==
    /\ receipt[d] = "acknowledged" => receipt'[d] = "acknowledged"
    /\ receipt[d] = "applied" => receipt'[d] # "none"

\* An attestation is acknowledged once, for a live worker whose event is out, for
\* an applied receipt, or for a cancelled dispatch without an event.
AttestationTrigger(d) ==
    /\ att[d] # 0 => att'[d] = att[d]
    /\ d \in acked => d \in acked'
    /\ d \in acked' \ acked =>
          \/ LeaseLive(att[d]) /\ EventOut(d)
          \/ receipt[d] # "none"
          \/ emis[d] = "none" /\ res[d] = "cancel_authorized"

EmissionTrigger(d) ==
    /\ emis[d] # "none" => kind'[d] = kind[d]
    /\ emis'[d] # emis[d] => <<emis[d], emis'[d]>> \in
          {<<"none", "prepared">>, <<"prepared", "emitted">>, <<"emitted", "resolved">>}

DispatchTrigger(d) ==
    /\ sent[d] \in {"delivered", "uncertain", "cancelled"} => sent'[d] = sent[d]
    /\ res[d] \in {"acknowledged", "cancelled"} => res'[d] = res[d]

-----------------------------------------------------------------------------
\* process_task, after its claim: the handler's outcome.
ProcessTask(d) == PersistArtifact(d) \/ ReportSuccess(d) \/ ReportFailure(d)

\* Messages are read, or reclaimed, and processed concurrently; each one claims,
\* executes, reports and acknowledges.
WorkerSteps(d) ==
    ClaimNode(d) \/ ProcessTask(d) \/ SendEvent(d) \/ AckTask(d) \/ Abandon(d)

DispatchNext ==
    \/ StartWorker \/ StopWorker \/ MissHeartbeats \/ Crash
    \/ \E n \in Node : StageInitial(n)
    \/ \E d \in Dispatch :
          \/ BeginAttempt(d) \/ XaddTask(d) \/ MarkDelivered(d)
          \/ SenderFails(d) \/ RecoverStaleAttempt(d)
          \/ WorkerSteps(d)
          \/ AcceptEvent(d) \/ AckEvent(d)
          \/ CancelPending(d) \/ AuthorizeCancelledAck(d) \/ AckCancelled(d)
    \/ CancelReads \/ CancelWrites \/ DeleteJob

DispatchSpec == DispatchInit /\ [][DispatchNext]_dispatchVars

\* Worker processes are restarted, read their stream, run each task to its end
\* and replay prepared events every five seconds.
WorkerFairness ==
    /\ WF_dispatchVars(~(up /\ LeaseLive(lease.epoch)) /\ StartWorker)
    /\ \A d \in Dispatch :
          /\ WF_dispatchVars(ClaimNode(d)) /\ WF_dispatchVars(PersistArtifact(d))
          /\ WF_dispatchVars(ReportSuccess(d) \/ ReportFailure(d))
          /\ WF_dispatchVars(SendEvent(d)) /\ WF_dispatchVars(AckTask(d))

\* The listener reads the event stream and reclaims what it left pending, and
\* runs the reconcilers of dispatches and acknowledgements every minute.
ListenerFairness ==
    \A d \in Dispatch :
       /\ WF_dispatchVars(BeginAttempt(d)) /\ WF_dispatchVars(XaddTask(d))
       /\ WF_dispatchVars(MarkDelivered(d))
       /\ WF_dispatchVars(RecoverStaleAttempt(d) /\ UNCHANGED faults)
       /\ WF_dispatchVars(AcceptEvent(d)) /\ WF_dispatchVars(AckEvent(d))
       /\ WF_dispatchVars(AuthorizeCancelledAck(d)) /\ WF_dispatchVars(AckCancelled(d))
       /\ WF_dispatchVars(CancelPending(d))

DispatchFairSpec ==
    /\ DispatchSpec
    /\ \A n \in Node : WF_dispatchVars(StageInitial(n))
    /\ WorkerFairness /\ ListenerFairness

-----------------------------------------------------------------------------
(* Properties *)

\* A task's message leaves Redis only when its outcome is in the event stream
\* or applied, or its job was cancelled: XACK never loses a task.
NoTaskLost ==
    \A d \in marker \ tasks : d \in events \/ receipt[d] # "none" \/ Stopped(d)
                             \/ job = "deleted"

\* No write of the orchestrator or of a worker is one the row triggers refuse: a
\* refused write would fail the transaction on every retry.
TriggersLetWritesThrough ==
    [][\A d \in Dispatch : /\ ReceiptTrigger(d) /\ AttestationTrigger(d)
                           /\ EmissionTrigger(d) /\ DispatchTrigger(d)]_dispatchVars

\* A row says delivered only if the message reached Redis; so an attempt whose
\* fate is unknown is never claimed.
DeliveredMeansSent ==
    \A d \in Dispatch : sent[d] = "delivered" \/ att[d] # 0 => d \in marker

\* A node starts only after all its dependencies succeeded, whatever order
\* their events arrive in.
DependenciesFirst ==
    \A n \in Node : node[n].status \in {"QUEUED", "RUNNING", "SUCCEEDED", "FAILED"}
                    => \A m \in Dep[n] : node[m].status = "SUCCEEDED"

\* A settled job has no node that is still active.
SettledHasNoActiveNode ==
    job \in Settled => \A n \in Node : node[n].status \notin Active

\* A node succeeds by the one claim it names, whose output is stored and whose
\* receipt is applied.
OutputIsFromTheClaim ==
    \A n \in Node : node[n].status = "SUCCEEDED" =>
       LET d == node[n].owner
       IN  d # NoClaim /\ d \in artifacts /\ kind[d] = "completed" /\ receipt[d] # "none"

\* A dispatch is withdrawn only if it produced no event, and then never does.
WithdrawnHasNoOutcome ==
    \A d \in Dispatch : res[d] \in {"cancel_authorized", "cancelled"} =>
        emis[d] = "none" /\ d \notin events

\* A deleted job leaves no event in Redis and no task still to be sent. The only
\* task messages that outlive it were withdrawn before any worker claimed them.
DeletedLeavesNoWork ==
    job = "deleted" => /\ events = {} /\ sender \subseteq marker
                       /\ \A d \in tasks : att[d] = 0 /\ res[d] = "acknowledged"

\* vp_recover_registered_worker_node would reset this node.
Recoverable(n) ==
    /\ job = "RUNNING" /\ node[n].status \in {"QUEUED", "RUNNING"}
    /\ node[n].owner # NoClaim /\ ~LeaseLive(att[node[n].owner])
    /\ \A d \in Dispatch : d[1] = n /\ sent[d] # "none" =>
          /\ res[d] \notin {"unresolved", "cancel_authorized"}
          /\ emis[d] \notin {"prepared", "emitted"}

\* A node under a registered claim is never reset for redispatch: until its
\* outcome is applied, its dispatch or its event is unresolved.
ClaimedNodeIsHeld == \A n \in Node : ~Recoverable(n)

\* Finished jobs are terminal; cancelling one returns it as it is.
SettledJobStays ==
    [][(job \in Settled => job' \in {job, "deleted"})]_dispatchVars

\* Nothing in this subsystem moves the node any further: its task's fate in
\* Redis is unknown, its worker is gone without an event, its worker left the
\* message pending, or the failure of a lost worker waits for a retry.
Stuck(n) ==
    \/ \E d \in Dispatch : d[1] = n /\ sent[d] = "uncertain"
    \/ /\ node[n].status = "RUNNING"
       /\ LET d == node[n].owner
          IN  \/ d \notin events /\ (~LeaseLive(att[d]) \/ d \notin hand)
              \/ d \in events /\ kind[d] = "failed" /\ ~LeaseLive(att[d])

\* A running job settles unless one of its nodes is stuck (or the last worker
\* the bound on registrations allows is gone).
JobSettles ==
    job = "RUNNING" ~> \/ job # "RUNNING"
                       \/ \E n \in Node : Stuck(n)
                       \/ lease.epoch = MaxEpoch /\ ~(up /\ LeaseLive(MaxEpoch))

\* An applied outcome is acknowledged and its messages leave Redis, with or
\* without the worker.
AppliedIsAcknowledged ==
    \A d \in Dispatch : receipt[d] = "applied" ~>
        receipt[d] = "acknowledged" /\ d \notin tasks /\ d \notin events

\* After cancellation every dispatch that produced no event is resolved, save
\* those whose delivery is unknown.
CancelledDispatchesResolve ==
    \A d \in Dispatch : Withdrawable(d) /\ sent[d] # "none" ~>
        res[d] \in {"acknowledged", "cancelled"} \/ sent[d] = "uncertain"
==============================================================================
