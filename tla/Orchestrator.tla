----------------------------- MODULE Orchestrator -----------------------------
(***************************************************************************)
(* Jobs above the level of WorkerDispatch: the schedule window, launching   *)
(* a job in several transactions, dispatching what is ready, applying       *)
(* outcomes, cancelling, and recovery when the API process restarts.        *)
(*                                                                         *)
(* Workers are registered (their outcomes are applied by one receipt       *)
(* transaction) or, for Legacy nodes, unregistered (two).  What              *)
(* WorkerDispatch shows of messages is used here: a dispatch row is open    *)
(* until a claim attests it, and resolved once its outcome is acknowledged. *)
(***************************************************************************)
EXTENDS Naturals, Sequences, FiniteSets

CONSTANTS
    Job, NoJob,
    Node, Dep,
    Order,      \* the nodes as definition.nodes lists them
    Source,     \* nodes of type "source"
    Legacy,     \* nodes whose workers are unregistered
    Task,       \* concurrent calls of start_job
    MaxStamp,   \* bound: claims per job
    MaxFaults   \* bound: restarts, halts, worker losses, missing assets

ASSUME OrchestratorConstants ==
    /\ NoJob \notin Job
    /\ Dep \in [Node -> SUBSET Node]
    /\ Source \subseteq Node
    /\ Legacy \subseteq Node
    /\ MaxStamp \in Nat /\ MaxFaults \in Nat

VARIABLES
    window, guarded,  \* runtime_schedules: state and guarded_job_id
    halted,           \* the channel is halted, or the task left "producing"
    status, started,  \* jobs.status; started_at is set
    node,             \* node_executions: status, claim stamp (0 none), retry,
                      \* and whether registration columns are left over
    disp,             \* dispatch rows by node and origin: none, open, attested
    work,             \* executions <<job, node, stamp>> a worker is busy with
    half, resend,     \* legacy completions and retries between their two
                      \* transactions
    mail,             \* legacy nodes whose task message a worker may be given
    launch,           \* calls of start_job, and dispatching after a legacy
                      \* completion: job, label, position, view of the nodes
    cancel,           \* <<active nodes>> read by a cancel request of the job
    release,          \* waiting jobs read by an open request, before it writes
    stamp, faults

orchestratorVars == <<window, guarded, halted, status, started, node, disp, work,
                      half, resend, mail, launch, cancel, release, stamp, faults>>
windowVars == <<window, guarded>>
jobVars == <<status, started, node, disp>>
legacyVars == <<half, resend, mail>>
requestVars == <<cancel, release>>

Origin == {"initial", "receipt"}
ActiveNode == {"PENDING", "QUEUED", "RUNNING"}
Settled == {"SUCCEEDED", "FAILED", "PARTIALLY_FAILED", "CANCELLED"}
NodeRow == [st : ActiveNode \cup {"SUCCEEDED", "FAILED", "SKIPPED", "CANCELLED"},
            stamp : 0..MaxStamp, retry : {0, 1}, left : BOOLEAN]
Idle == [job |-> NoJob, pc |-> "idle", initial |-> TRUE, at |-> 0,
         seen |-> [n \in Node |-> "PENDING"]]

OrchestratorTypeOK ==
    /\ window \in {"OPEN", "DRAINING", "CLOSED"} /\ guarded \in Job \cup {NoJob}
    /\ halted \in BOOLEAN
    /\ status \in [Job -> Settled \cup {"PENDING", "WAITING_WINDOW", "RUNNING"}]
    /\ started \in [Job -> BOOLEAN]
    /\ node \in [Job -> [Node -> NodeRow]]
    /\ disp \in [Job -> [Node \X Origin -> {"none", "open", "attested"}]]
    /\ work \subseteq Job \X Node \X (1..MaxStamp)
    /\ half \subseteq Job \X Node \X (1..MaxStamp)
    /\ resend \subseteq Job \X Node \X (1..MaxStamp) /\ mail \subseteq Job \X Legacy
    /\ \A t \in Task : launch[t].pc \in {"idle", "called", "planned", "dispatch", "failed"}
    /\ \A j \in Job : cancel[j] \in {<<>>} \cup {<<S>> : S \in SUBSET Node}
    /\ release \subseteq Job
    /\ stamp \in 0..MaxStamp /\ faults \in 0..MaxFaults

OrchestratorInit ==
    /\ window \in {"OPEN", "CLOSED"} /\ guarded = NoJob
    /\ halted = FALSE
    /\ status = [j \in Job |-> "PENDING"] /\ started = [j \in Job |-> FALSE]
    /\ node = [j \in Job |-> [n \in Node |->
                  [st |-> "PENDING", stamp |-> 0, retry |-> 0, left |-> FALSE]]]
    /\ disp = [j \in Job |-> [d \in Node \X Origin |-> "none"]]
    /\ work = {} /\ half = {} /\ resend = {} /\ mail = {}
    /\ launch = [t \in Task |-> Idle]
    /\ cancel = [j \in Job |-> <<>>] /\ release = {}
    /\ stamp = 0 /\ faults = 0

Fault == faults < MaxFaults /\ faults' = faults + 1

-----------------------------------------------------------------------------
(* The window *)

Fresh(j) == ~started[j] /\ \A n \in Node : node[j][n].st = "PENDING"

\* should_defer_job_start
Defers(j) ==
    \/ window = "CLOSED"
    \/ window = "OPEN" /\ guarded \notin {NoJob, j}
    \/ window = "DRAINING" /\ (status[j] = "WAITING_WINDOW" \/ Fresh(j))

\* Mutant: the window is not looked at again.
PermittedAlways(j) == ~halted

\* require_active_execution_authority of a running job.
Permitted(j) == ~halted /\ window # "CLOSED" /\ guarded \in {NoJob, j}

\* Mutant: running nodes are left to finish.
ParkedQueued(row) ==
    [n \in Node |-> IF row[n].st = "QUEUED" THEN [row[n] EXCEPT !.st = "PENDING"] ELSE row[n]]

\* Mutant: the registration columns are cleared with the rest.
ParkedClean(row) ==
    [n \in Node |-> IF row[n].st \in ActiveNode
                    THEN [row[n] EXCEPT !.st = "PENDING", !.stamp = 0] ELSE row[n]]

\* defer_job_until_next_window: worker_id and started_at are cleared, the
\* registration columns are not.
Parked(row) ==
    [n \in Node |-> IF row[n].st \in ActiveNode
                    THEN [row[n] EXCEPT !.st = "PENDING", !.stamp = 0,
                                        !.left = @ \/ (row[n].stamp # 0 /\ n \notin Legacy)]
                    ELSE row[n]]

Park(j) ==
    /\ node' = [node EXCEPT ![j] = Parked(node[j])]
    /\ status' = [status EXCEPT ![j] = "WAITING_WINDOW"]
    /\ UNCHANGED <<started, disp>>

\* drain and close, and the first transaction of open.
SetWindow(w) ==
    /\ window # w
    /\ window' = w /\ guarded' = NoJob
    /\ UNCHANGED <<halted, jobVars, work, legacyVars, launch, requestVars, stamp, faults>>

\* release_waiting_video_jobs reads, then writes what it read.
ReleaseReads ==
    /\ window = "OPEN" /\ release = {}
    /\ release' = {j \in Job : status[j] = "WAITING_WINDOW"} /\ release' # {}
    /\ UNCHANGED <<windowVars, halted, jobVars, work, legacyVars, launch, cancel, stamp, faults>>

Idlers == {t \in Task : launch[t].pc = "idle"}

\* start_jobs_background: one call of start_job per job.
Called(js) ==
    \E f \in [js -> Idlers] :
       /\ \A i, j \in js : f[i] = f[j] => i = j
       /\ launch' = [t \in Task |->
              IF \E j \in js : f[j] = t
              THEN [Idle EXCEPT !.job = CHOOSE j \in js : f[j] = t, !.pc = "called"]
              ELSE launch[t]]

ReleaseWrites ==
    /\ release # {}
    /\ status' = [j \in Job |-> IF j \in release THEN "PENDING" ELSE status[j]]
    /\ release' = {}
    /\ Called(release)
    /\ UNCHANGED <<windowVars, halted, started, node, disp, work, legacyVars, cancel, stamp, faults>>

\* Mutant: only the job itself is looked at.
QuietItself(j) == TRUE

\* Every open job and every active node is locked and looked at.
Quiet(j) ==
    /\ \A i \in Job \ {j} : status[i] \in Settled
    /\ \A i \in Job, n \in Node : node[i][n].st \notin {"QUEUED", "RUNNING"}

\* open_video_schedule_for_job
GuardedOpen(j) ==
    /\ window = "CLOSED" /\ status[j] = "WAITING_WINDOW" /\ Quiet(j)
    /\ window' = "OPEN" /\ guarded' = j
    /\ status' = [status EXCEPT ![j] = "PENDING"]
    /\ Called({j})
    /\ UNCHANGED <<halted, started, node, disp, work, legacyVars, requestVars, stamp, faults>>

\* start_or_defer_jobs of a job just submitted.
Submit(j) ==
    /\ status[j] = "PENDING" /\ Fresh(j) /\ \A t \in Task : launch[t].job # j
    /\ IF Defers(j) THEN Park(j) /\ UNCHANGED launch
       ELSE Called({j}) /\ UNCHANGED jobVars
    /\ UNCHANGED <<windowVars, halted, work, legacyVars, requestVars, stamp, faults>>

-----------------------------------------------------------------------------
(* start_job, transaction by transaction *)

Leaves == {n \in Node : \A m \in Node : n \notin Dep[m]}

\* Mutant: only success ends a job.
OutcomeSuccess(st, old) == IF \A n \in Node : st[n] = "SUCCEEDED" THEN "SUCCEEDED" ELSE old

\* _apply_job_finalization of the statuses st; no change while one is active.
Outcome(st, old) ==
    IF \E n \in Node : st[n] \in ActiveNode THEN old
    ELSE IF \A n \in Node : st[n] = "SUCCEEDED" THEN "SUCCEEDED"
    ELSE IF \A n \in Leaves : st[n] = "SUCCEEDED" THEN "PARTIALLY_FAILED"
    ELSE "FAILED"

View(row) == [n \in Node |-> row[n].st]

\* Mutant: a dependency only must not have failed.
ReadyUnlessFailed(st, n) == st[n] = "PENDING" /\ \A m \in Dep[n] : st[m] # "FAILED"

ReadyIn(st, n) == st[n] = "PENDING" /\ \A m \in Dep[n] : st[m] = "SUCCEEDED"

Return(t) == launch' = [launch EXCEPT ![t] = Idle]

\* The next node of the loop that the view in memory calls ready; 0 at its end.
NextReady(t) ==
    LET ks == {k \in launch[t].at..Len(Order) : ReadyIn(launch[t].seen, Order[k])}
    IN  IF ks = {} THEN 0 ELSE CHOOSE k \in ks : \A m \in ks : k <= m

\* _lock_initial_launch_authority gives nothing to go on with.
LaunchRefused(t) ==
    LET j == launch[t].job
    IN  /\ launch[t].pc # "idle"
        /\ \/ (halted \/ status[j] \in Settled) /\ UNCHANGED jobVars
           \/ ~halted /\ status[j] \notin Settled /\ Defers(j) /\ Park(j)
        /\ Return(t)
        /\ UNCHANGED <<windowVars, halted, work, legacyVars, requestVars, stamp, faults>>

Authorized(j) == ~halted /\ status[j] \notin Settled /\ ~Defers(j)

\* Unclaimed queued nodes are taken back, the plan is stored.
LaunchPlans(t) ==
    LET j == launch[t].job
    IN  /\ launch[t].pc = "called" /\ Authorized(j)
        /\ node' = [node EXCEPT ![j] = [n \in Node |->
               IF node[j][n].st = "QUEUED" /\ node[j][n].stamp = 0
               THEN [node[j][n] EXCEPT !.st = "PENDING"] ELSE node[j][n]]]
        /\ status' = [status EXCEPT ![j] = "RUNNING"]
        /\ started' = [started EXCEPT ![j] = TRUE]
        /\ launch' = [launch EXCEPT ![t].pc = "planned"]
        /\ UNCHANGED <<disp, windowVars, halted, work, legacyVars, requestVars, stamp, faults>>

\* _resolve_source_nodes; the asset of a source may be gone.
LaunchResolves(t) ==
    LET j == launch[t].job
        open == {n \in Source : node[j][n].st \in ActiveNode}
    IN  /\ launch[t].pc = "planned" /\ Authorized(j)
        /\ \E found \in SUBSET open :
              /\ IF found = open THEN UNCHANGED faults ELSE Fault
              /\ node' = [node EXCEPT ![j] = [n \in Node |->
                     IF n \notin open THEN node[j][n]
                     ELSE [node[j][n] EXCEPT
                             !.st = IF n \in found THEN "SUCCEEDED" ELSE "FAILED"]]]
        /\ launch' = [launch EXCEPT ![t].pc = "dispatch", ![t].at = 1,
                                    ![t].seen = View(node'[j])]
        /\ UNCHANGED <<status, started, disp, windowVars, halted, work, legacyVars, requestVars,
                       stamp>>

\* stage_worker_task_dispatch refuses a second unresolved initial dispatch.
Stageable(j, n) == disp[j][<<n, "initial">>] = "none"

\* The task messages of S that unregistered workers read.
Posted(j, S) == {<<j, n>> : n \in S \cap Legacy}

\* One node: locked, looked at again, answered from the cache or dispatched.
\* Only start_job checks its launch authority for every node.
LaunchDispatches(t) ==
    LET j == launch[t].job
        n == Order[NextReady(t)]
        goOn == [launch EXCEPT ![t].at = NextReady(t) + 1, ![t].seen = View(node'[j])]
        ready == ReadyIn(View(node[j]), n)
        locked == Permitted(j) /\ status[j] = "RUNNING"
    IN  /\ launch[t].pc = "dispatch" /\ NextReady(t) # 0
        /\ launch[t].initial => Authorized(j)
        /\ \/ ~ready /\ launch[t].initial /\ UNCHANGED <<jobVars, mail>> /\ launch' = goOn
           \/ (~locked \/ (~ready /\ ~launch[t].initial)) /\ UNCHANGED <<jobVars, mail>> /\ Return(t)
           \/ /\ ready /\ locked  \* cache hit
              /\ node' = [node EXCEPT ![j][n].st = "SUCCEEDED"]
              /\ launch' = goOn /\ UNCHANGED <<status, started, disp, mail>>
           \/ /\ ready /\ locked /\ Stageable(j, n)
              /\ node' = [node EXCEPT ![j][n].st = "QUEUED"]
              /\ disp' = [disp EXCEPT ![j][<<n, "initial">>] = "open"]
              /\ mail' = mail \cup Posted(j, {n})
              /\ launch' = goOn /\ UNCHANGED <<status, started>>
           \/ /\ ready /\ locked /\ ~Stageable(j, n)  \* raises
              /\ IF launch[t].initial THEN launch' = [launch EXCEPT ![t].pc = "failed"]
                 ELSE Return(t)
              /\ UNCHANGED <<jobVars, mail>>
        /\ UNCHANGED <<windowVars, halted, work, half, resend, requestVars, stamp, faults>>

\* The exception handler of start_job.
LaunchFails(t) ==
    LET j == launch[t].job
    IN  /\ launch[t].pc = "failed" /\ Authorized(j)
        /\ status' = [status EXCEPT ![j] = "FAILED"]
        /\ Return(t)
        /\ UNCHANGED <<started, node, disp, windowVars, halted, work, legacyVars, requestVars,
                       stamp, faults>>

\* _maybe_finalize_job judges the view in memory.
LaunchEnds(t) ==
    LET j == launch[t].job
    IN  /\ launch[t].pc = "dispatch" /\ NextReady(t) = 0
        /\ status' = [status EXCEPT ![j] = Outcome(launch[t].seen, @)]
        /\ Return(t)
        /\ UNCHANGED <<started, node, disp, windowVars, halted, work, legacyVars, requestVars,
                       stamp, faults>>

-----------------------------------------------------------------------------
(* Workers and outcomes *)

\* A registered claim attests an open dispatch and needs a clean node row; an
\* unregistered one needs the message only.  A worker refused leaves the message
\* pending and is given it again.
Claimable(j, n, o) ==
    /\ status[j] = "RUNNING" /\ Permitted(j) /\ node[j][n].st = "QUEUED"
    /\ disp[j][<<n, o>>] = "open"
    /\ IF n \in Legacy THEN <<j, n>> \in mail ELSE node[j][n].stamp = 0 /\ ~node[j][n].left

Claim(j, n, o) ==
    /\ Claimable(j, n, o) /\ stamp < MaxStamp
    /\ stamp' = stamp + 1
    /\ node' = [node EXCEPT ![j][n] = [@ EXCEPT !.st = "RUNNING", !.stamp = stamp + 1]]
    /\ disp' = [disp EXCEPT ![j][<<n, o>>] = IF n \in Legacy THEN @ ELSE "attested"]
    /\ work' = work \cup {<<j, n, stamp + 1>>}
    /\ mail' = mail \ {<<j, n>>}
    /\ UNCHANGED <<windowVars, halted, status, started, half, resend, launch, requestVars, faults>>

\* The message of a worker that is gone is pending and given to another.
Undelivered(w) == mail \cup Posted(w[1], {w[2]})

WorkerLost(w) ==
    /\ w \in work /\ Fault
    /\ work' = work \ {w} /\ mail' = Undelivered(w)
    /\ UNCHANGED <<windowVars, halted, jobVars, half, resend, launch, requestVars, stamp>>

ClaimMatches(w) ==
    /\ status[w[1]] = "RUNNING" /\ Permitted(w[1])
    /\ node[w[1]][w[2]].st = "RUNNING" /\ node[w[1]][w[2]].stamp = w[3]

\* A worker that finds its claim blocked, before the handler, after it or when it
\* reports, drops the run; the listener drops an outcome of a legacy worker that
\* it handles then, and one of a registered worker it leaves in the stream.  The
\* worker may have acknowledged the message or left it pending.
Drop(w) ==
    /\ w \in work /\ ~ClaimMatches(w)
    /\ work' = work \ {w} /\ mail' \in {mail, Undelivered(w)}
    /\ UNCHANGED <<windowVars, halted, jobVars, half, resend, launch, requestVars, stamp, faults>>

\* Every input of n is there, or comes from the cache.
Met(st, hits, n) == \A m \in Dep[n] : st[m] = "SUCCEEDED" \/ m \in hits

\* Staging what a completion made ready until nothing more is; a graph has no
\* cycle, so what the cache answers is what becomes ready and is found there.
Staged(st, hits) ==
    [n \in Node |-> IF n \in hits THEN "SUCCEEDED"
                    ELSE IF st[n] = "PENDING" /\ Met(st, hits, n) THEN "QUEUED" ELSE st[n]]

WithStatus(row, st) == [n \in Node |-> [row[n] EXCEPT !.st = st[n]]]

\* accept_and_apply of a completion: one transaction, its dispatch resolved by
\* the acknowledgement that follows.
Complete(w) ==
    LET j == w[1] n == w[2]
        done == [View(node[j]) EXCEPT ![n] = "SUCCEEDED"]
    IN  /\ n \notin Legacy /\ w \in work /\ ClaimMatches(w)
        /\ work' = work \ {w}
        /\ \E hits \in SUBSET {m \in Node : done[m] = "PENDING"} :
             LET st == Staged(done, hits)
                 new == {m \in Node : done[m] = "PENDING" /\ st[m] = "QUEUED"}
             IN  /\ \A m \in hits : Met(done, hits, m)
                 /\ \A m \in hits \cup new : ~node[j][m].left
                 /\ node' = [node EXCEPT ![j] = WithStatus(node[j], st)]
                 /\ disp' = [disp EXCEPT ![j] = [d \in Node \X Origin |->
                        IF d[1] \in new /\ d[2] = "receipt" THEN "open"
                        ELSE IF d[1] = n /\ disp[j][d] = "attested" THEN "none"
                        ELSE disp[j][d]]]
                 /\ mail' = mail \cup Posted(j, new)
                 /\ status' = [status EXCEPT ![j] = Outcome(st, @)]
        /\ UNCHANGED <<windowVars, halted, started, half, resend, launch, requestVars, stamp, faults>>

\* Legacy completion: the node's status first ...
CompleteFirst(w) ==
    /\ w[2] \in Legacy /\ w \in work /\ ClaimMatches(w)
    /\ work' = work \ {w}
    /\ node' = [node EXCEPT ![w[1]][w[2]].st = "SUCCEEDED"]
    /\ half' = half \cup {w}
    /\ UNCHANGED <<windowVars, halted, status, started, disp, resend, mail, launch, requestVars,
                   stamp, faults>>

\* ... then the job is finalized, or its next nodes are dispatched.
CompleteSecond(w) ==
    LET j == w[1]
        end == Outcome(View(node[j]), status[j])
    IN  /\ w \in half
        /\ half' = half \ {w}
        /\ IF status[j] # "RUNNING" \/ ~Permitted(j) \/ node[j][w[2]].stamp # w[3]
           THEN UNCHANGED <<status, launch>>
           ELSE IF end # "RUNNING"
           THEN status' = [status EXCEPT ![j] = end] /\ UNCHANGED launch
           ELSE /\ UNCHANGED status
                /\ \E t \in Idlers :
                      launch' = [launch EXCEPT ![t] =
                          [job |-> j, pc |-> "dispatch", initial |-> FALSE, at |-> 1,
                           seen |-> View(node[j])]]
        /\ UNCHANGED <<windowVars, halted, started, node, disp, work, resend, mail, requestVars,
                       stamp, faults>>

Downstream(n) ==
    LET step(T) == T \cup {m \in Node : Dep[m] \cap T # {}}
        reach[k \in 0..Cardinality(Node)] == IF k = 0 THEN {n} ELSE step(reach[k - 1])
    IN  reach[Cardinality(Node)] \ {n}

\* _skip_downstream
Skipped(st, n) ==
    [m \in Node |-> IF m \in Downstream(n) /\ st[m] = "PENDING" THEN "SKIPPED" ELSE st[m]]

\* Mutant: retries are not counted.
RetryableAlways(j, n) == TRUE

Retryable(j, n) == node[j][n].retry < 1

Requeue(row, k) == [row EXCEPT !.st = "QUEUED", !.retry = row.retry + 1, !.stamp = k]

\* _apply_registered_failure, the first time: the claim is given up and the node
\* gets a dispatch of its own, unless another is still open.
Retry(w) ==
    LET j == w[1] n == w[2]
    IN  /\ n \notin Legacy /\ w \in work /\ ClaimMatches(w) /\ Retryable(j, n)
        /\ \A o \in Origin : disp[j][<<n, o>>] # "open"
        /\ work' = work \ {w}
        /\ node' = [node EXCEPT ![j][n] = Requeue(node[j][n], 0)]
        /\ disp' = [disp EXCEPT ![j] = [d \in Node \X Origin |->
               IF d = <<n, "receipt">> THEN "open" ELSE IF d[1] = n THEN "none" ELSE disp[j][d]]]
        /\ UNCHANGED <<windowVars, halted, status, started, legacyVars, launch, requestVars,
                       stamp, faults>>

\* on_node_failed, the first time: the node is queued again under its old claim ...
RetryFirst(w) ==
    LET j == w[1] n == w[2]
    IN  /\ n \in Legacy /\ w \in work /\ ClaimMatches(w) /\ Retryable(j, n)
        /\ work' = work \ {w} /\ resend' = resend \cup {w}
        /\ node' = [node EXCEPT ![j][n] = Requeue(node[j][n], node[j][n].stamp)]
        /\ \/ UNCHANGED <<mail, faults>>
           \/ Fault /\ mail' = Undelivered(w)  \* the worker did not acknowledge
        /\ UNCHANGED <<windowVars, halted, status, started, disp, half, launch, requestVars, stamp>>

\* ... then its message is sent, if nothing has changed.
RetrySecond(w) ==
    LET j == w[1] n == w[2]
    IN  /\ w \in resend
        /\ resend' = resend \ {w}
        /\ mail' = IF /\ status[j] = "RUNNING" /\ Permitted(j)
                      /\ node[j][n].st = "QUEUED" /\ node[j][n].stamp = w[3]
                   THEN Undelivered(w) ELSE mail
        /\ UNCHANGED <<windowVars, halted, jobVars, work, half, launch, requestVars, stamp, faults>>

Fail(w) ==
    LET j == w[1] n == w[2]
        st == Skipped([View(node[j]) EXCEPT ![n] = "FAILED"], n)
    IN  /\ w \in work /\ ClaimMatches(w) /\ ~Retryable(j, n)
        /\ work' = work \ {w}
        /\ node' = [node EXCEPT ![j] = WithStatus(node[j], st)]
        /\ disp' = IF n \in Legacy THEN disp
                   ELSE [disp EXCEPT ![j] = [d \in Node \X Origin |->
                           IF d[1] = n /\ disp[j][d] = "attested" THEN "none" ELSE disp[j][d]]]
        /\ status' = [status EXCEPT ![j] = Outcome(st, @)]
        /\ UNCHANGED <<windowVars, halted, started, legacyVars, launch, requestVars, stamp, faults>>

-----------------------------------------------------------------------------
(* Operators and restarts *)

CancelReads(j) ==
    /\ status[j] \notin {"SUCCEEDED", "FAILED", "CANCELLED"} /\ cancel[j] = <<>>
    /\ cancel' = [cancel EXCEPT ![j] = <<{n \in Node : node[j][n].st \in ActiveNode}>>]
    /\ UNCHANGED <<windowVars, halted, jobVars, work, legacyVars, launch, release, stamp, faults>>

CancelWrites(j) ==
    /\ cancel[j] # <<>>
    /\ cancel' = [cancel EXCEPT ![j] = <<>>]
    /\ status' = [status EXCEPT ![j] = "CANCELLED"]
    /\ node' = [node EXCEPT ![j] = [n \in Node |->
           IF n \in cancel[j][1] THEN [node[j][n] EXCEPT !.st = "CANCELLED"] ELSE node[j][n]]]
    /\ UNCHANGED <<windowVars, halted, started, disp, work, legacyVars, launch, release, stamp, faults>>

Halt ==
    /\ ~halted /\ Fault /\ halted' = TRUE
    /\ UNCHANGED <<windowVars, jobVars, work, legacyVars, launch, requestVars, stamp>>

Resume ==
    /\ halted /\ halted' = FALSE
    /\ UNCHANGED <<windowVars, jobVars, work, legacyVars, launch, requestVars, stamp, faults>>

\* _prepare_job_for_recovery: nodes untouched for ten minutes are taken back.
\* A registered claim is held (ClaimedNodeIsHeld of WorkerDispatch).
Abandoned(j) ==
    {n \in Node : /\ node[j][n].st \in {"QUEUED", "RUNNING"}
                  /\ n \in Legacy \/ (node[j][n].stamp = 0 /\ ~node[j][n].left)}

Reset(row, S) ==
    [n \in Node |-> IF n \in S THEN [row[n] EXCEPT !.st = "PENDING", !.stamp = 0] ELSE row[n]]

\* _recover_stale_jobs classifies every open job in one transaction, then
\* finalizes or starts; what was in flight in the old process is gone.
Restart ==
    /\ Fault
    /\ half' = {} /\ resend' = {} /\ release' = {} /\ cancel' = [j \in Job |-> <<>>]
    /\ \E stale \in [Job -> SUBSET Node] :
         LET open == {j \in Job : status[j] \notin Settled}
             parked == {j \in open : Defers(j)}
             reset(j) == stale[j] # {}
             begin == {j \in open \ parked :
                          reset(j) \/ status[j] \in {"PENDING", "WAITING_WINDOW"}}
         IN  /\ \A j \in Job : stale[j] \subseteq Abandoned(j)
             /\ \A j \in Job : j \notin open \ parked => stale[j] = {}
             /\ node' = [j \in Job |-> IF j \in parked THEN Parked(node[j])
                                       ELSE Reset(node[j], stale[j])]
             /\ status' = [j \in Job |->
                    IF j \in parked THEN "WAITING_WINDOW"
                    ELSE IF j \in begin THEN (IF status[j] = "RUNNING" THEN "PENDING" ELSE status[j])
                    ELSE IF j \in open THEN Outcome(View(node[j]), status[j])
                    ELSE status[j]]
             /\ \E f \in [begin -> Task] :
                  /\ \A i, j \in begin : f[i] = f[j] => i = j
                  /\ launch' = [t \in Task |->
                         IF \E j \in begin : f[j] = t
                         THEN [Idle EXCEPT !.job = CHOOSE j \in begin : f[j] = t, !.pc = "called"]
                         ELSE Idle]
    /\ UNCHANGED <<windowVars, halted, started, disp, work, mail, stamp>>

-----------------------------------------------------------------------------
LaunchStep(t) ==
    \/ LaunchRefused(t) \/ LaunchPlans(t) \/ LaunchResolves(t)
    \/ LaunchDispatches(t) \/ LaunchFails(t) \/ LaunchEnds(t)

WorkerStep(w) == Complete(w) \/ CompleteFirst(w) \/ Retry(w) \/ RetryFirst(w) \/ Fail(w)

SecondStep(w) == CompleteSecond(w) \/ RetrySecond(w)

OrchestratorNext ==
    \/ \E w \in {"OPEN", "DRAINING", "CLOSED"} : SetWindow(w)
    \/ ReleaseReads \/ ReleaseWrites
    \/ \E j \in Job : GuardedOpen(j) \/ Submit(j) \/ CancelReads(j) \/ CancelWrites(j)
    \/ \E t \in Task : LaunchStep(t)
    \/ \E j \in Job, n \in Node, o \in Origin : Claim(j, n, o)
    \/ \E w \in work : WorkerStep(w) \/ Drop(w) \/ WorkerLost(w)
    \/ \E w \in half \cup resend : SecondStep(w)
    \/ Halt \/ Resume \/ Restart

OrchestratorSpec == OrchestratorInit /\ [][OrchestratorNext]_orchestratorVars

\* Calls of start_job run on, workers read their streams and report, and the
\* listener handles what they report: as long as one of them can, one of them does.
OrchestratorFairSpec ==
    /\ OrchestratorSpec
    /\ WF_orchestratorVars(
          /\ UNCHANGED faults
          /\ \/ \E t \in Task : LaunchStep(t)
             \/ \E j \in Job, n \in Node, o \in Origin : Claim(j, n, o)
             \/ \E w \in work : WorkerStep(w)
             \/ \E w \in half \cup resend : SecondStep(w))

-----------------------------------------------------------------------------
(* Properties *)

\* A node is dispatched, runs or ends only after every node it depends on has
\* succeeded, whichever of launch, event or retry dispatches it.
StartsAfterDependencies ==
    \A j \in Job, n \in Node \ Source :
        node[j][n].st \in {"QUEUED", "RUNNING", "SUCCEEDED", "FAILED"} =>
            \A m \in Dep[n] : node[j][m].st = "SUCCEEDED"

\* Nothing is dispatched or claimed for a job the window does not admit.
WindowHolds ==
    [][\A j \in Job, n \in Node :
          node'[j][n].st \in {"QUEUED", "RUNNING"} /\ node'[j][n].st # node[j][n].st
              => window # "CLOSED" /\ guarded \in {NoJob, j}]_orchestratorVars

\* While the window is open for one job no other job has work in flight.
GuardIsExclusive ==
    guarded # NoJob => \A j \in Job \ {guarded}, n \in Node :
                           node[j][n].st \notin {"QUEUED", "RUNNING"}

\* No two registered workers are ever busy with the same node, whatever the window,
\* retries and restarts take back.
OneWorkerPerNode ==
    \A v, w \in work : v[1] = w[1] /\ v[2] = w[2] /\ v[2] \notin Legacy => v = w

\* A job waiting for the window has given up everything in flight.
WaitingHoldsNothing ==
    \A j \in Job : status[j] = "WAITING_WINDOW" =>
        \A n \in Node : node[j][n].st \notin {"QUEUED", "RUNNING"}

\* What the window's closing between the two transactions of a legacy completion
\* leaves behind: nothing of the job is queued or running, and only a restart of
\* the API looks at it again.
LegacyStall(j) ==
    /\ \E n \in Legacy : node[j][n].st = "SUCCEEDED"
    /\ \A n \in Node : node[j][n].st \notin {"QUEUED", "RUNNING"}

\* What its closing leaves of a run that was dropped, or of a retry that was
\* not sent: a node no worker has and no message asks for.
Dropped(j, n) == node[j][n].st = "RUNNING" /\ <<j, n, node[j][n].stamp>> \notin work

Unsent(j, n) ==
    /\ n \in Legacy /\ node[j][n].st = "QUEUED" /\ node[j][n].stamp # 0
    /\ <<j, n>> \notin mail /\ \A w \in resend : w[1] # j \/ w[2] # n

\* Without a fault, once the window stays open a running job settles, unless the
\* closing left one of these behind: a node parked under a registered claim, which
\* nothing clears, a run dropped, a retry unsent, a legacy completion interrupted
\* (or claims run out).
RunningJobSettles ==
    [](faults = 0) /\ <>[](window = "OPEN" /\ guarded = NoJob /\ ~halted) =>
        \A j \in Job : status[j] = "RUNNING" ~>
            \/ status[j] # "RUNNING"
            \/ \E n \in Node : node[j][n].left \/ Dropped(j, n) \/ Unsent(j, n)
            \/ LegacyStall(j)
            \/ stamp = MaxStamp /\ ~\E w \in work : ClaimMatches(w)

\* The job is marked terminal once all node executions are terminal.
TerminalOnceNodesAre ==
    \A j \in Job : status[j] \in Settled => \A n \in Node : node[j][n].st \notin ActiveNode
==============================================================================
