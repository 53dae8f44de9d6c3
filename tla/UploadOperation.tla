--------------------------- MODULE UploadOperation ---------------------------
(***************************************************************************)
(* The upload node of a job and its durable operation row:                 *)
(* backend/worker/handlers/youtube_upload.py,                              *)
(* services/youtube_upload_operations.py and the SQL functions of          *)
(* migrations 034 and 042 that reserve and transition the row.             *)
(*                                                                         *)
(* op[j]    the operation row of job j's upload node: status, and whether  *)
(*          request_attempted_at is set                                    *)
(* node[j]  the upload node, retried[j] its retry_count and claim[j] the   *)
(*          worker whose claim on it is live                               *)
(* wk[w]    the handler running in worker w: its position, its job, and    *)
(*          the manager's answer it holds but has not recorded             *)
(* fence    who holds the schedule row lock across an external effect      *)
(* mgr[j]   the upload as the manager service knows it                     *)
(* posts    how often the video of j was posted                            *)
(* faults   failures and interventions so far                              *)
(*                                                                         *)
(* What entitles a job to upload (the producer check of migration 042) is  *)
(* state of other modules and comes in as the parameter ok.                *)
(***************************************************************************)
EXTENDS AutoFlow, FiniteSets

CONSTANTS Workers,     \* upload workers
          NoOne, Runner, \* no one, and the channel agent's runner
          MaxFaults    \* bound: failures and operator interventions

ASSUME FaultsAssumption == MaxFaults \in Nat
ASSUME FenceAssumption == NoOne \notin Workers /\ Runner \notin Workers /\ NoOne # Runner

VARIABLES op, node, retried, claim, wk, fence, mgr, posts, faults

nodeVars == <<node, retried, claim>>
uploadVars == <<op, nodeVars, wk, fence, mgr, posts, faults>>

OpStates == {"none", "reserved", "submitted", "succeeded", "failed", "uncertain"}
WorkerPlaces == {"idle", "claimed", "submit", "attempted", "post", "posted", "poll", "finish"}

Idle == [pc |-> "idle", j |-> BoundJob(1), ack |-> "none"]

UploadTypeOK ==
    /\ op \in [Jobs -> [st : OpStates, att : BOOLEAN]]
    /\ node \in [Jobs -> {"pending", "running", "succeeded", "failed"}]
    /\ retried \in [Jobs -> BOOLEAN]
    /\ claim \in [Jobs -> Workers \cup {NoOne}]
    /\ wk \in [Workers -> [pc : WorkerPlaces, j : Jobs, ack : {"none", "ok", "lost", "refused"}]]
    /\ fence \in Workers \cup {NoOne, Runner}
    /\ mgr \in [Jobs -> {"none", "accepted", "completed", "failed"}]
    /\ posts \in [Jobs -> Nat]
    /\ faults \in 0 .. MaxFaults

UploadInit ==
    /\ op = [j \in Jobs |-> [st |-> "none", att |-> FALSE]]
    /\ node = [j \in Jobs |-> "pending"]
    /\ retried = [j \in Jobs |-> FALSE]
    /\ claim = [j \in Jobs |-> NoOne]
    /\ wk = [w \in Workers |-> Idle]
    /\ fence = NoOne
    /\ mgr = [j \in Jobs |-> "none"]
    /\ posts = [j \in Jobs |-> 0]
    /\ faults = 0

Free == fence = NoOne

(* What goes wrong, and what an operator does, is paid from one budget. *)
Costs(bad) ==
    IF bad THEN faults < MaxFaults /\ faults' = faults + 1 ELSE UNCHANGED faults

-----------------------------------------------------------------------------
(* Every database step of the handler checks that the claim of the node is *)
(* still this worker's.                                                    *)
Current(w) == LET j == wk[w].j IN claim[j] = w /\ node[j] = "running" /\ job[j].st = "running"

Goto(w, place) == wk' = [wk EXCEPT ![w].pc = place, ![w].ack = "none"]
Leave(w) == wk' = [wk EXCEPT ![w] = Idle]
Unlocked(w) == fence' = IF fence = w THEN NoOne ELSE fence

(* A reported failure, applied: the first one offers the node again to any *)
(* worker, the second fails it and with it the job.                        *)
FailNode(j) ==
    /\ retried' = [retried EXCEPT ![j] = TRUE]
    /\ claim' = [claim EXCEPT ![j] = NoOne]
    /\ node' = [node EXCEPT ![j] = IF retried[j] THEN "failed" ELSE "pending"]
    /\ job' = [job EXCEPT ![j].st = IF retried[j] THEN "failed" ELSE @]

(* The handler raises: a worker whose claim is current reports the failure *)
(* (Dispatch follows the report to its application), one that lost the     *)
(* claim changes nothing.                                                  *)
Raise(w) ==
    /\ Leave(w)
    /\ Unlocked(w)
    /\ IF Current(w) THEN FailNode(wk[w].j) ELSE UNCHANGED <<nodeVars, job>>

SetRow(w, row) == op' = [op EXCEPT ![wk[w].j] = row]
SetOp(w, st) == SetRow(w, [op[wk[w].j] EXCEPT !.st = st])

(* The transitions of the row: its insertion, the manager's identifier,    *)
(* the receipt, and the two ends without one.                              *)
ReserveRow(w) == SetOp(w, "reserved")
MarkSubmitted(w) == SetOp(w, "submitted")
MarkSucceededOp(w) == SetOp(w, "succeeded")
MarkTerminal(w, st) == st \in {"failed", "uncertain"} /\ SetOp(w, st)

(* _action_for: what the row found or inserted tells the handler to do. *)
ActionFor(o) ==
    CASE o.st \in {"none", "reserved"} /\ ~o.att -> "submit"
      [] o.st = "submitted" -> "poll"
      [] o.st = "succeeded" -> "finish"
      [] OTHER -> "block"

-----------------------------------------------------------------------------
(* A worker claims the upload node of a running job. *)
ClaimNode(w, j) ==
    /\ wk[w].pc = "idle" /\ job[j].st = "running" /\ node[j] = "pending"
    /\ node' = [node EXCEPT ![j] = "running"]
    /\ claim' = [claim EXCEPT ![j] = w]
    /\ wk' = [wk EXCEPT ![w] = [Idle EXCEPT !.pc = "claimed", !.j = j]]
    /\ UNCHANGED <<op, retried, fence, mgr, posts, faults, plan, job, sched>>

(* vp_reserve_worker_youtube_upload finds or inserts the row for a current *)
(* claim; a row not yet attempted needs the producer's authority.          *)
Reservable(w, ok) == Current(w) /\ (ActionFor(op[wk[w].j]) = "submit" => ok)

(* claim(): the row is inserted once per node, and an attempted one is     *)
(* never submitted again.                                                  *)
ReserveOperation(w, ok) ==
    LET next == ActionFor(op[wk[w].j]) IN
    /\ wk[w].pc = "claimed" /\ Free
    /\ IF Reservable(w, ok) /\ next # "block"
         THEN /\ IF next = "submit" THEN ReserveRow(w) ELSE UNCHANGED op
              /\ Goto(w, next)
              /\ UNCHANGED <<nodeVars, job, fence>>
         ELSE Raise(w) /\ UNCHANGED op
    /\ UNCHANGED <<mgr, posts, faults, plan, sched>>

(* _preflight_submission: no quota or no credentials fails the row. *)
PreflightFails(w) == MarkTerminal(w, "failed") /\ Raise(w)

(* The first half of mark_attempting, inside submission_fence: the row is  *)
(* marked attempted and committed, which releases the lock.                *)
MarkAttempting(w, ok, preflight) ==
    LET j == wk[w].j IN
    /\ wk[w].pc = "submit" /\ Free
    /\ IF Current(w) /\ op[j] = [st |-> "reserved", att |-> FALSE] /\ (preflight => ok)
         THEN IF preflight
                THEN /\ SetRow(w, [op[j] EXCEPT !.att = TRUE])
                     /\ Goto(w, "attempted")
                     /\ UNCHANGED <<nodeVars, job, fence>>
                ELSE PreflightFails(w)
         ELSE Raise(w) /\ UNCHANGED op
    /\ Costs(~preflight)
    /\ UNCHANGED <<mgr, posts, plan, sched>>

(* Mutant: the second half trusts the check of the first. *)
AcquireFenceUnchecked(w, ok) ==
    LET j == wk[w].j IN
    /\ wk[w].pc = "attempted" /\ Free
    /\ IF Current(w) /\ op[j] = [st |-> "reserved", att |-> TRUE]
         THEN fence' = w /\ Goto(w, "post") /\ UNCHANGED <<nodeVars, job>>
         ELSE Raise(w)
    /\ UNCHANGED <<op, mgr, posts, faults, plan, sched>>

(* The second half: the lock is taken again and the "fence" transition     *)
(* checks the claim, the row and the producer once more.  Only then may    *)
(* the request be sent; otherwise the row stays attempted for good.        *)
AcquireFence(w, ok) ==
    LET j == wk[w].j IN
    /\ wk[w].pc = "attempted" /\ Free
    /\ IF Current(w) /\ op[j] = [st |-> "reserved", att |-> TRUE] /\ ok
         THEN fence' = w /\ Goto(w, "post") /\ UNCHANGED <<nodeVars, job>>
         ELSE Raise(w)
    /\ UNCHANGED <<op, mgr, posts, faults, plan, sched>>

(* _submit_upload sends the request.  The manager takes it and answers,    *)
(* takes it and the answer is lost, or refuses it.                         *)
PostUpload(w, ack) ==
    LET j == wk[w].j IN
    /\ wk[w].pc = "post"
    /\ posts' = [posts EXCEPT ![j] = @ + 1]
    /\ mgr' = [mgr EXCEPT ![j] = IF ack = "refused" THEN @ ELSE "accepted"]
    /\ wk' = [wk EXCEPT ![w].pc = "posted", ![w].ack = ack]
    /\ Costs(ack # "ok")
    /\ UNCHANGED <<op, nodeVars, fence, plan, job, sched>>

(* Mutant: a lost answer is taken for a request that was not sent. *)
RecordAnswerOrRetry(w) ==
    LET j == wk[w].j IN
    /\ wk[w].pc = "posted" /\ Unlocked(w)
    /\ IF wk[w].ack = "lost"
         THEN op' = [op EXCEPT ![j].att = FALSE] /\ Goto(w, "submit")
         ELSE MarkSubmitted(w) /\ Goto(w, "poll")
    /\ UNCHANGED <<mgr, posts, faults, plan, sched, nodeVars, job>>

(* The answer is recorded inside the fence: an identifier makes the row    *)
(* submitted, a refusal failed, anything else uncertain.                   *)
RecordAnswer(w) ==
    LET j == wk[w].j IN
    /\ wk[w].pc = "posted"
    /\ IF wk[w].ack = "ok"
         THEN MarkSubmitted(w) /\ Goto(w, "poll") /\ Unlocked(w) /\ UNCHANGED <<nodeVars, job>>
         ELSE MarkTerminal(w, IF wk[w].ack = "refused" THEN "failed" ELSE "uncertain") /\ Raise(w)
    /\ UNCHANGED <<mgr, posts, faults, plan, sched>>

(* _poll_for_completion: the manager's result settles the row.             *)
PollManager(w) ==
    LET j == wk[w].j IN
    /\ wk[w].pc = "poll" /\ mgr[j] \in {"completed", "failed"}
    /\ IF Current(w) /\ op[j].st = "submitted"
         THEN IF mgr[j] = "completed"
                THEN MarkSucceededOp(w) /\ Goto(w, "finish") /\ UNCHANGED <<nodeVars, job, fence>>
                ELSE MarkTerminal(w, "failed") /\ Raise(w)
         ELSE Raise(w) /\ UNCHANGED op
    /\ UNCHANGED <<mgr, posts, faults, plan, sched>>

(* A poll that runs out of time leaves the row submitted; one that cannot  *)
(* be believed (a cancellation, a malformed result) makes it uncertain.    *)
PollGivesUp(w, uncertain) ==
    /\ wk[w].pc = "poll"
    /\ IF uncertain /\ Current(w) THEN MarkTerminal(w, "uncertain") ELSE UNCHANGED op
    /\ Raise(w)
    /\ Costs(TRUE)
    /\ UNCHANGED <<mgr, posts, plan, sched>>

(* The receipt is copied to the node's output and the node completes, and  *)
(* with it the job, whose last node it is.                                 *)
FinishNode(w) ==
    LET j == wk[w].j IN
    /\ wk[w].pc = "finish"
    /\ Leave(w)
    /\ IF Current(w)
         THEN /\ node' = [node EXCEPT ![j] = "succeeded"]
              /\ claim' = [claim EXCEPT ![j] = NoOne]
              /\ job' = [job EXCEPT ![j].st = "succeeded"]
         ELSE UNCHANGED <<node, claim, job>>
    /\ UNCHANGED <<op, retried, fence, mgr, posts, faults, plan, sched>>

-----------------------------------------------------------------------------
(* A worker dies anywhere in the handler, or only its lease ends and the   *)
(* handler goes on.  Either way the claim is not live any more, and nobody *)
(* else may take the node: its dispatch stays unresolved (Dispatch's       *)
(* ClaimedNodeIsHeld).  The locks of a dead worker go with its session; a  *)
(* lease cannot end inside the fence, which takes its margin first.        *)
Unclaimed(w) == LET j == wk[w].j IN claim' = IF claim[j] = w THEN [claim EXCEPT ![j] = NoOne] ELSE claim

WorkerCrash(w) ==
    /\ wk[w].pc # "idle"
    /\ Leave(w)
    /\ Unlocked(w)
    /\ Unclaimed(w)
    /\ Costs(TRUE)
    /\ UNCHANGED <<op, node, retried, mgr, posts, plan, job, sched>>

LeaseEnds(w) ==
    /\ wk[w].pc # "idle" /\ claim[wk[w].j] = w /\ fence # w
    /\ Unclaimed(w)
    /\ Costs(TRUE)
    /\ UNCHANGED <<op, node, retried, wk, fence, mgr, posts, plan, job, sched>>

(* cancel_job: it waits for a fence, whose transaction locks job and node. *)
CancelJob(j) ==
    /\ job[j].st \in {"waiting", "running"}
    /\ claim[j] = NoOne \/ claim[j] # fence
    /\ job' = [job EXCEPT ![j].st = "failed"]
    /\ node' = [node EXCEPT ![j] = IF @ \in {"pending", "running"} THEN "failed" ELSE @]
    /\ Costs(TRUE)
    /\ UNCHANGED <<op, retried, claim, wk, fence, mgr, posts, plan, sched>>

(* The manager service finishes an upload it accepted. *)
ManagerSettles(j, st) ==
    /\ mgr[j] = "accepted"
    /\ mgr' = [mgr EXCEPT ![j] = st]
    /\ Costs(st = "failed")
    /\ UNCHANGED <<op, nodeVars, wk, fence, posts, plan, job, sched>>

=============================================================================
