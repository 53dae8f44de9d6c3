# Videoprocess: TLA+ models and proofs

Videoprocess produces short videos with a pipeline of workers and publishes them
on YouTube through *ChannelOps*, an agent that discovers trends, plans tasks,
runs jobs, uploads, promotes and measures. This directory models the parts of it
where concurrency, crashes and unreliable calls meet durable state. Paths below
are relative to the repository root; `PROJECT.json` maps every definition to the
lines it models and lists components, runs, hazards and theorems.

## The system and what is modelled

| Part | Module | Hard behaviour |
|---|---|---|
| ChannelOps leadership (Go) | `Leadership`, `LeaderEpoch` | dropped sessions, stale cached authority, a shared `holder_id`, lost commit answers |
| ChannelOps queue and loop (Go) | `OpsQueue` | takeover inside a pass, exit with a lease held |
| Discovery ingestion (Go and Python) | `DiscoveryIngestion` | a request that outlives its caller |
| Promotion (Go and Python) | `Promotion` | a crash around an external call, an operator racing the handler |
| Worker registrations and grants (SQL, Python) | `WorkerLease`, `WorkerRegistration` | three kinds of locks, generations taking over from one another |
| Task dispatch and event receipts | `WorkerDispatch` | PostgreSQL and Redis commit separately, redelivery, cancel and delete |
| Python orchestrator and schedule window | `Orchestrator` | launches in several transactions, stale views, restart recovery |
| Redis markers | `MarkerContinuity` | overlapping readiness runs, janitors, repair |
| Registered consumer reconciliation | `RegisteredJobs`, `RegisteredReconcile` | irreversible EVALs between a container and a host that talk through files |
| Worker admission: journal, roles, deployment script | `AdmissionJournal`, `RoleLifecycle`, `AdmissionDeploy` | a kill between any two steps, then another invocation |
| Channel in production: plans, uploads, inventory, agent, operators | `AutoFlow`, `UploadOperation`, `OwnedInventory`, `ChannelAgent`, `Production` | effects that must not happen twice, authority that may be withdrawn any time |

How they interact. Every ChannelOps operation is a queue item. A runner claims it
under a leadership epoch, and its handler alternates transactions with calls of
outside services made under no lock. Production tasks become jobs; the
orchestrator dispatches their nodes through PostgreSQL and Redis to workers that
hold a registration. A deployment replaces the workers: it provisions the
database roles of a new generation, admits it, and retires the Redis consumers
of the old one. The operator writes the same rows through the API all the while.

How modules are composed. `OpsQueue` extends `Leadership` and `WorkerDispatch`
extends `WorkerLease`: each takes from the abstract module what `LeaderEpoch`
and `WorkerRegistration` are shown to implement (`ImplementsLeadership`,
`ImplementsWorkerLease`). `Orchestrator` takes from `WorkerDispatch` that a claimed
node is held by the dispatch attested for it, which is proved there
(`ClaimsAreHeld`). `AdmissionDeploy` takes the registered reconciliation as one
gate, whose own life is `RegisteredReconcile`. `Production` runs `AutoFlow`,
`UploadOperation`, `OwnedInventory` and `ChannelAgent` on one set of rows.

## Modules

`Leadership` is a promise: one row names the leader, and a fenced write happens
only for the runner whose epoch is the row's. `LeaderEpoch` is the code: session
lock, upsert, cache, `FOR SHARE`, two threads per process (the loop and the HTTP
server). A fenced transaction is two steps there, open and commit; the refinement
maps the pair to one abstract write. `Orphan` is a server session whose client has
closed its connection.

`OpsQueue` follows `runOnce` label by label (`pc`): ensure leadership, recover stale
leases, claim, confirm, handle, complete or fail or release. A lease is
`(locked_by, locked_at)`; `locked_at` is a stamp that grows with each claim.
`effect`, `unacked` and `lost` are history. A reject request reads the queued items
of its task (`picked`) and cancels them later, whatever became of them.

`DiscoveryIngestion` replaces the generic handler of a discovery item by the two
phases of `HandleIngestDiscovery` and the requests the Python API has in flight. A
request carries the lease it was sent under; a claim of the run carries its
generation.

`Promotion` replaces it by the phases of `HandlePromotePublication`. The digests of
the snapshot are `fresh`: the runners whose prepared snapshot still describes the
rows. Policy verdicts, evidence and YouTubeManager's answers are
nondeterministic; a request whose answer is lost may be applied later, or never.

`WorkerLease` promises one lease per worker service, named by an epoch that only
grows, and fenced commits only under the lease that stands. `WorkerRegistration`
is the SECURITY DEFINER functions of migration 034 and the worker's own
registration object, lock by lock.

`WorkerDispatch` follows one job's tasks: dispatch rows and task stream, the claim
that attests a delivery, the prepared event and the event stream, the receipt that
applies it, both acknowledgements. A dispatch is `<<node, attempt>>`. The row
triggers of the migrations are predicates on steps (`DispatchTrigger` and others).
The guards of the claim on schedule window, channel and task
(`034_worker_registrations.py:4829-4863`, `5044-5085`) belong to
`Orchestrator`; here the job may always run.

`Orchestrator` is the level above: the window, launching, dispatching, outcomes,
cancelling, recovery at start. Workers of `Legacy` nodes are unregistered; their
outcome is applied in two transactions (`half`), a registered one's in one.

`MarkerContinuity` has the rows that own markers, the readiness runs (`Checker`),
the janitors and the operator's repair. Every step is one call of PostgreSQL or of
Redis.

`RegisteredJobs` is the journal and Docker: intents committed before each request,
requests that Docker may carry out later or never, cleanup that starts from the
journal alone. `RegisteredReconcile` adds the file protocol and the controller in
the container, label by label, beside the old workers it races.

`AdmissionJournal` has the helper's updates as operators from a document to the
documents they may write. `RoleLifecycle` has the role commands transaction by
transaction and file by file. `AdmissionDeploy` is the script: `todo` is what is
left of it, a failed step continues with its recovery, a new invocation plans from
the journal. `erred` are the generations a role command's scan failed to validate for
an error, and quarantined (`ScanErrs`, one generation per fault).

`AutoFlow` has plans with revisions, approvals and jobs; `UploadOperation` the
upload handler with its operation row, the submission fence and the manager;
`OwnedInventory` the inventory and the history it is judged by; `ChannelAgent` the
runner and its handlers cut where they commit or leave the process. `Production`
adds the operators, the clock and the schedule. Editing the channel waits for any
fence, editing its lane or format only for the promotion's (`EditLane`).

`Faults` counts what may go wrong in a behaviour; the modules whose environment
fails extend it.

`MC*` modules give constants and symmetry. Definitions commented "Mutant" state one
plausible slip of the code each; no specification uses them. `PROJECT.json` pairs
each property with the slip that breaks it.

## Runs

| Run | Bounds | States | What it shows |
|---|---|---|---|
| `leader_epoch` | 2 processes, one holder id, 2 threads, 3 faults | 57 K | fences are current until commit, commits never go back, a live lease passes the fence, `Leadership` is implemented, one runner ends up leading |
| `ops_queue` | 2 runners, 2 items, 2 attempts, 1 fault | 125 K | attempts bounded, acknowledged work kept, settled is final but for a dead letter a reject request had picked, items settle |
| `discovery` | 2 runners, 1 item, 2 attempts, 1 fault | 21 K | one commit of signals, success means ingested, the item settles |
| `promotion` | 2 runners, upload's and operator's item, 2 attempts, 1 fault | 1.49 M | one submission, no claim ahead of YouTube, a rejection is final |
| `promotion_reject` | as `promotion` | | a violation, see Findings |
| `registration` | 3 processes, 2 generations, 3 epochs, 1 fault | 106 K | revoked grants are powerless, `WorkerLease` is implemented, the admitted generation serves |
| `dispatch` | 1 node, 2 epochs, 2 faults | 237 K | no task lost, outputs belong to the claim, triggers refuse nothing, job and cancelled dispatches resolve |
| `orchestrator` | chain of 3 nodes (source, unregistered, registered), 1 job, 3 claims, 1 fault | 903 K | one registered worker per node, waiting means nothing in flight, a running job settles unless the window's closing left it one of four things |
| `markers` | 1 source, 2 readiness processes, 2 janitors, 2 faults | 153 K | ready means seen and swept, markers of deleted jobs disappear |
| `reconcile` | 2 streams, 1 fault, 10 frames | 293 K | EVALs journaled, success means retired, nothing left behind, the attempt ends |
| `admission` | 2 workers, 3 faults | 535 K | the admitted can log in unless a scan that erred withdrew them, the recorded outcome is true, the transaction settles |
| `production` | 2 items, 2 revisions, 2 jobs each, 2 upload workers, 2 attempts, 2 polls, 1 fault | 451 K | effects at most once and authorized, completed means published, one item at a time |

Why these bounds. Two processes and one takeover put every step of one pass next to
every step of another. Two attempts reach both outcomes of a retry decision. A fault
is a crash, a dropped session, a lost answer or an intervention; each model names
its bound `MaxFaults`, and each fault can strike between any two steps. Two faults
are kept where a second one meets the recovery of the first (`dispatch`, `markers`),
and three in `admission`: a failure, a crash of the rollback it starts, and a
failure of the replay. Three epochs let a replaced generation try again. Ten frames
are enough for both streams and for reaching `MaxSequence`. Larger instances of
earlier versions were checked once without an error, too long to keep: `promotion`
with two faults (9.6 million states), `markers` with two sources (1.25 million),
`reconcile` with more faults (1.79 million), `orchestrator` with two parallel nodes
(828 K) and with two jobs for `GuardIsExclusive` (837 K).

`CHECK_DEADLOCK FALSE` stands where the system may stop: a settled job or
transaction, an exhausted bound of epochs or faults, a wedged deployment.

**Fairness.** Weak fairness of each loop's, timer's and listener's own steps: they
tick, retry after errors, and PostgreSQL closes dead sessions. Strong fairness of
claiming and of recovering a stale lease: a pass may find nothing due, but due times
pass and a lease that stays turns fifteen minutes old; of registering, whose lock is
taken and released again and again by others. Leases and attempts run out
(`markers`, `dispatch`). In `reconcile` the deployment's cleanup and Docker's stop
are fair, the controller is not: whatever it does, the attempt ends. In `admission`
an operator invokes the script again until it is through. In `orchestrator`
launches, workers and the listener share one weak fairness: as long as one of them
can move, one does. Faults are bounded and not fair, so liveness says what happens
once they stop. Only `ingest_discovery` leases are recovered, so `QueuedItemsSettle`
excepts items held by a process that exited, and `DiscoverySettles` has no such
exception. `TransactionSettles` excepts `Wedged`, the states from which no
invocation recovers; that list was checked to be exact with one worker.

## Findings

`promotion_reject`: the reject endpoint looks at `publish_status` alone
(`backend/app/api/channel_agent.py:1021`). While a submission is in flight the
publication is still `uploaded`, so it can be rejected and then become promoted on
YouTube; the operation stays `submitting`. The endpoint's message and the test at
`backend/tests/channel_agent/test_api.py:1437` treat a scheduled publication as one
that "cannot be safely rejected"; this state precedes it.

## Proofs

TLAPS proves what follows for every value of the constants, from the named
assumptions of the modules (distinct markers such as `NoRunner`, at least one
attempt, orders and chains that are sequences). Bounds such as `MaxFaults` and
`MaxEpoch` are arbitrary naturals there. Each module of proofs has one inductive
invariant; TLC checked it on the run's instance first.

* `FencingProofs`, what keeps an old process from acting after a new one.
  *Leader.* `LeaderFenceInv` strengthens `OpenFenceIsCurrent` with
  `OwnEpochsOnly` (an epoch belongs to one process, which makes a shared holder id
  harmless) and "the last commit is not ahead of the row". Key lemma:
  `RowWritesWait`, every write of the row waits for open transactions. Exclusion,
  order of commits and the refinement follow. *Registrations.* Only the newest
  registration is active, and an open fence's registration and grant are active,
  because whoever ends either takes the lock the fence holds. From this
  `ImplementsWorkerLease` and that revoked grants are powerless. *Markers.* A run
  that is still the owner has seen, or has still to look for, every marker it
  demands (`HoldsRun`), and only markers of rows that are gone are authorized for
  deletion (`GoneInv`).
* `OpsQueueProofs`, the queue and its two handlers. `QueueInv`: a stamp and an item
  identify one claim (`LeaseInv`), and a runner with the lease of acknowledged work
  can only be about to mark it done (`CommitInv`). `DiscoveryInv`: a generation is
  claimed by one request and signals are committed under the newest one.
  `PromotionInv`: a runner about to submit is alone and nothing was sent before,
  what the database says of YouTube was seen there, valid snapshots describe
  promotable rows.
* `DispatchProofs`, any job graph. `DispatchInv` ties row, message, claim, event and
  receipt together; the parts that make it inductive are where a message may be for
  each row state (`RowInv`, `EventInv`), that a node's owner is attested (`NodeInv`),
  and what a cancel request has read and not yet written (`StopInv`). Nothing lost,
  outputs of the claim, no write a trigger refuses, and the five invariants of the
  list in `PROJECT.json` follow.
* `OrchestratorProofs`, any graph and jobs. Every step moves a node in one of six
  ways (`NodeStep`); each action is shown to take such steps, and the invariants
  follow from them alone: registered workers never share a node, waiting jobs hold
  nothing, dependencies first, the window's guard excludes other jobs.
* `ReconcileProofs`. `JobInv`: the journal knows of whatever Docker has or may still
  create. `NumberInv` and `EvalInv`: frame, record and reply are at most one ahead of
  the controller, so the answer it waits for proves that the record was written.
  `GoneInv`: what the capture pinned covers every live lease, so the last look finds
  all consumers gone for good.
* `ProductionProofs`, any items, jobs and workers. An attempt is committed before
  it is made and never forgotten (`UploadInv`, `PromotionInv`); authority is checked
  under the fence and nobody changes what it covers while it is held (`FenceInv`;
  the lane is covered by the promotion's fence only, so for an upload it is as
  approved when the fence is taken); the
  revision the upload compares is the one the job was created from (`BoundInv`).
* `PublishedProofs`, the same model. The completion looks at rows only. That a row
  stands for a request: an upload's row leaves `reserved` only in the hands of the
  worker that sent it (`SentInv`), and a promotion found reserved is in the hands of
  a handler tried again, which records its doubt instead of a success
  (`PublishInv`). From this, completed items were published.

Only model-checked: every liveness property (fairness and ENABLED are outside the
prover); the properties of `AdmissionDeploy`, whose script is a sequence computed by
planners from the journal; `PromotionTypeOK` and the other type invariants that no
proof needed.

## Observations

What the models showed about the code without contradicting any of its statements.

*Orchestrator and dispatch.* Two unregistered workers can be busy with one node:
recovery or parking takes the node back while its worker runs, and the completion of
a parallel registered node stages it again under a receipt row (only initial rows are
looked for, `registered_worker_event_receipt.py:251-271`). The first worker's outcome
is then refused, since its claim stamp no longer matches. `OneWorkerPerNode`
therefore speaks of registered workers. `cancel_job` writes a status it read before
(`job_service.py:224`; the comment at line 229 assumes that a settled job stays), so a
job that settled meanwhile becomes cancelled. An unregistered completion stalls when
the window closes between its two transactions. A restart that resets a queued,
unclaimed node can fail a job that still has an active node. Remote output is deleted
when the persisting commit's answer is lost, and the node is then reported failed.
An outcome that is handled while the window is closed or processing is halted is
dropped: the node stays running until its job is cancelled or, for an unregistered
worker, the API restarts. A legacy retry committed as queued just before the closing
is never sent. XACK of a task that was never delivered leaves its message in the
stream; later claims of it are refused.

*Queue.* A reject request reads the items it cancels in one statement and writes them
by the flush of another, so an item that was dead-lettered in between ends cancelled.

*Markers.* Authorizations are joined to expectations by message id, which an event
prepared at the snapshot has not got: its marker may be seen, its job deleted and
`ready` still accepted. The next run meets it.

*Reconciliation.* A `launching` job whose service was never created, or a secret left
`creating`, makes cleanup raise every time (`Ambiguous`): the code prefers this to
forgetting a request that may still be carried out.

*Admission.* Five interruptions wedge a transaction (`Wedged`): inside the runtime
role command while a rollback is prepared; inside or after the marker command there,
before the secret manifest is written; a failure that leaves the final vision job
unfinished; a failed readiness of the rollback marker, which retires it; and a scan
that errs. A transient error while a scan validates a generation counts as a refusal
(`worker_runtime_role_cli.py:1203-1218`): an admitted generation loses login and
membership, which strands a rollback or a retirement whose operator or rollback
worker it was. When the marker's readiness fails, the failure restores the crontab
as it was before the attempt. When the attempt is a replay, that crontab already
names the rollback generation which the same recovery retires
(`deploy-sync-extension.sh:17309-17325`): the marker's cron is left without a login
until the promotion is repaired (`MarkerWithdrawn`, the exception in
`AdmittedCanLogIn`). A crash between `docker secret create` and the record of the
secret leaks an unrecorded secret; the control generation's name derives from the
commit, so a redeploy adopts it. The identity of the step that promotes the rollback
control is `control-current.conf` itself, so a crash before the forward control's
retirement is scheduled completes without retiring it; `OutcomeIsTrue` excepts it.
After a migration the rollback leaves the relay at the candidate's image
(`deploy-sync-extension.sh:14685-14690`, `14752-14765`). Candidates of workers whose
records could not be read after the failure are left behind, not admitted
(`preserve_incomplete`, lines 17562-17573). Autoflow's health answer is the one of
its start, so the gate before the old control is retired does not tell that autoflow
can still log in.

*Production.* The Python queue (the "legacy local/test profile", `README.md:80`) has no
reclaim: a crash strands a `running` item, which blocks admissions until the inventory
expires. `mark_succeeded` leaves the lock columns set, while the history check wants
them cleared. Any retry makes a history unclean and holds the inventory, and so does
a metric of an earlier item falling due while the next is in production: all fail
closed. The plain (not owned) promote posts before its commit and without an operation
row, and can overwrite a concurrent rejection; its crash between two enqueues loses
the second. A plain execution has no idempotency key, so a retried handler can make a
second job and upload. The owned promotion, entered again after `submitting`,
finalizes from the status it fetches although it may never have posted. The owned
settle overwrites a concurrent rejection. `patch_plan` revives a rejected plan.
Feedback on a halted channel holds the inventory. A retried upload node of an owned
job is refused unless its row is already submitted; that of a crashed worker stays
claimed. Edits of a lane or a format take no lock that an upload's fence holds
(`api/channel_agent.py:343-366`, `435-447`, `797-818`), so one paused between fence
and POST is posted nevertheless, as if the lane were still configured as approved.

## Not modelled, and limits

Reasons per component are in `PROJECT.json`: the Go ports of orchestrator, worker
consumer, tick and metric handlers, FFmpeg, outbox relay, aggregator, frontend, API
routing. Within modelled components: succession and closeout of inventories,
retired-history certificates, the owned variant of a manual promotion, candidate
restore and retirement queue of the journal (no caller enters them), the update of
autoflow alone, the baseline without a control generation (`legacy_no_control`,
`deploy-sync-extension.sh:8186-8239`), the quarantine service of ChannelOps
(`channelops_quarantine.py`), the public approval of a publication (owned plans
refuse it), file modes and role attributes.

Times are order only: due times, stale ages and timeouts are nondeterministic. Row lock
order between transactions is modelled where the code relies on it and otherwise left
to PostgreSQL, which breaks a deadlock by an error on one side. Retention deletes
settled rows after thirty days; the models stay within that period. A database session
that is lost while its command lingers could write after a concurrent revoke
(admission): left out.
