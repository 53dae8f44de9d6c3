------------------------------ MODULE Production ------------------------------
(***************************************************************************)
(* A channel in production: the runner of ChannelAgent, the upload workers *)
(* and the manager of UploadOperation, the schedule, the operators of      *)
(* api/channel_agent.py and api/autoflow.py, and time, all working on the  *)
(* same rows.                                                              *)
(***************************************************************************)
EXTENDS ChannelAgent

vars == <<autoflowVars, uploadVars, agentVars, rn>>

operatorFrame == <<job, op, nodeVars, wk, fence, mgr, posts, polls, promo, pposts, met, clockVars, rn>>

Init == AutoFlowInit /\ UploadInit /\ AgentInit /\ rn = Resting

TypeOK == AutoFlowTypeOK /\ UploadTypeOK /\ AgentTypeOK

-----------------------------------------------------------------------------
(* Operators.  All but EditLane take a row that the fence holds. *)

(* The channel: halt and resume, a configuration patch, dry run on and off *)
(* (which leaves a newer configuration than the approved one).             *)
SetHalted(halted) ==
    /\ Free /\ chan.halted # halted /\ Costs(halted)
    /\ chan' = [chan EXCEPT !.halted = halted]
    /\ UNCHANGED <<operatorFrame, plan, sched, inv, item, task, q, dirty, pub>>

PatchChannel(cfg) ==
    /\ Free /\ chan.cfg # cfg /\ Costs(cfg = "dry" \/ chan.cfg = "same")
    /\ chan' = [chan EXCEPT !.cfg = cfg]
    /\ UNCHANGED <<operatorFrame, plan, sched, inv, item, task, q, dirty, pub>>

(* patch_lane, pause_lane, resume_lane and the patch of a lane's format,    *)
(* which may be taken back, take no lock of their own.  They wait for the  *)
(* fence of a promotion, for which lock_producer locks both rows, but not  *)
(* for the fence of an upload: vp_owned_producer_upload reads them plainly.*)
(* Without an inventory they only choose among candidates.                 *)
EditLane(lane) ==
    /\ Owned /\ fence # Runner /\ chan.lane # lane /\ Costs(lane = "changed")
    /\ chan' = [chan EXCEPT !.lane = lane]
    /\ UNCHANGED <<operatorFrame, plan, sched, inv, item, task, q, dirty, pub>>

InventoryApi ==
    /\ \/ CreateInventory /\ UNCHANGED faults
       \/ ApproveInventory /\ UNCHANGED faults
       \/ OpenIntake /\ UNCHANGED faults
       \/ RecoverInventory /\ UNCHANGED faults
       \/ RevokeInventory /\ Costs(TRUE)
       \/ Feedback /\ UNCHANGED faults
    /\ UNCHANGED <<operatorFrame, plan, sched, task, q, dirty, pub>>

(* Someone edits, approves or rejects a plan.  For an owned task, editing  *)
(* and approving take the producer's lock and authority.                   *)
PlanLocked(t) == Free /\ plan[t].st # "none" /\ (Owned => Authority(t) /\ task[t].pol)

PatchPlan(t) ==
    /\ PlanLocked(t) /\ plan[t].rev < MaxRev
    /\ plan' = [plan EXCEPT ![t] = InvalidateApproval(@, chan.kind # "plain")]

ApprovePlan(t) ==
    /\ PlanLocked(t) /\ Approvable(plan[t])
    /\ plan' = [plan EXCEPT ![t] = ApprovedPlan(@)]

RejectPlan(t) ==
    /\ Free /\ plan[t].st # "none"
    /\ plan' = [plan EXCEPT ![t] = RejectedPlan(@)]

PlanApi(t) ==
    /\ PatchPlan(t) \/ ApprovePlan(t) \/ RejectPlan(t)
    /\ plan' # plan /\ Costs(TRUE)
    /\ UNCHANGED <<operatorFrame, sched, inventoryVars, task, q, dirty, pub>>

(* _cancel_queued_publication_items: what is still queued, not what runs *)
Cancelled(t) == {x \in {"promote", "metrics"} \X {t} : q[x].st = "queued"}

RejectPublication(t) ==
    /\ Free /\ pub[t] = "uploaded" /\ Costs(TRUE)
    /\ pub' = [pub EXCEPT ![t] = "rejected"]
    /\ task' = [task EXCEPT ![t].st = "rejected"]
    /\ q' = [x \in DOMAIN q |-> IF x \in Cancelled(t) THEN [st |-> "cancelled", att |-> 0] ELSE q[x]]
    /\ dirty' = [dirty EXCEPT ![t] = @ \/ Cancelled(t) # {}]
    /\ UNCHANGED <<operatorFrame, plan, sched, inventoryVars>>

Active(k, t) == q[<<k, t>>].st \in {"queued", "running"}

(* A review is evidence of the revision the plan was approved at. *)
PreUploadEvidence(p) == p.appr
PromotionEvidence(p) == p.appr

(* promote_publication by hand *)
PromotePublication(t) ==
    /\ ~Owned /\ ~chan.halted /\ pub[t] = "uploaded" /\ ~Active("promote", t)
    /\ task[t].st = "uploaded_private" \/ (task[t].st = "held" /\ task[t].why = "policy")
    /\ Reviewed(t)
    /\ task' = [task EXCEPT ![t].st = "uploaded_private", ![t].prm = PromotionEvidence(plan[t])]
    /\ q' = EnqueueNext(q, "promote", t)
    /\ UNCHANGED <<operatorFrame, plan, sched, faults, inventoryVars, dirty, pub>>

(* release_human_review: the plan is approved and the task goes on *)
ReleaseReview(t) ==
    /\ External /\ Free /\ ~chan.halted
    /\ task[t].st = "held" /\ task[t].why = "review" /\ Approvable(plan[t])
    /\ plan' = [plan EXCEPT ![t] = ApprovedPlan(@)]
    /\ task' = [task EXCEPT ![t].st = "planning", ![t].why = "none", ![t].exp = PreUploadEvidence(plan'[t])]
    /\ q' = IF Active("execute", t) THEN q ELSE EnqueueNext(q, "execute", t)
    /\ UNCHANGED <<operatorFrame, sched, faults, inventoryVars, dirty, pub>>

-----------------------------------------------------------------------------
(* The schedule, seen from here. *)
SetSchedule(st) ==
    /\ Free
    /\ CASE st = "DRAINING" -> sched = "OPEN" /\ Costs(TRUE)
         [] st = "CLOSED" -> sched = "DRAINING" /\ (\A j \in Jobs : job[j].st # "running") /\ UNCHANGED faults
         [] OTHER -> sched = "CLOSED" /\ UNCHANGED faults
    /\ sched' = st
    /\ UNCHANGED <<operatorFrame, plan, inventoryVars, task, q, dirty, pub>>

(* A parked job starts when the window opens. *)
StartWaiting(j) ==
    /\ sched = "OPEN" /\ Free /\ job[j].st = "waiting"
    /\ job' = [job EXCEPT ![j].st = "running"]
    /\ UNCHANGED <<plan, sched, uploadVars, agentVars, rn>>

-----------------------------------------------------------------------------
(* Time: the inventory's window, the day after an upload, the due date and *)
(* the deadline of a publication's metrics.                                *)
timeFrame == <<autoflowVars, uploadVars, inventoryVars, task, q, dirty, polls, pub, promo, pposts, rn>>

WindowEnds == ~over /\ over' = TRUE /\ UNCHANGED <<timeFrame, cool, met>>

DayPasses(t) ==
    /\ ~cool[t] /\ op[BoundJob(t)].st = "succeeded" /\ cool' = [cool EXCEPT ![t] = TRUE]
    /\ UNCHANGED <<timeFrame, over, met>>

MetricsDue(t) == met[t] = "pending" /\ met' = [met EXCEPT ![t] = "due"] /\ UNCHANGED <<timeFrame, clockVars>>
MetricsLate(t) == met[t] = "due" /\ met' = [met EXCEPT ![t] = "late"] /\ UNCHANGED <<timeFrame, clockVars>>

-----------------------------------------------------------------------------
QueueStep == \E k \in Kinds, t \in Tasks : ClaimItem(k, t)

OwnedStep ==
    \/ PlanOwned
    \/ \E allow \in BOOLEAN : StorePlanPolicy(allow)
    \/ ApproveOwnedPlan
    \/ FinishPlan
    \/ ExecuteOwned
    \/ FinishExecute
    \/ ObserveOwned
    \/ PublishOwned
    \/ PreparePromotion
    \/ \E allow \in BOOLEAN : ReservePromotion(allow)
    \/ PromotionFence
    \/ \E ok \in BOOLEAN : PostPromotion(ok)
    \/ \E ok \in BOOLEAN : SettlePromotion(ok)
    \/ \E ok \in BOOLEAN : ReconcileOwned(ok)
    \/ \E ok \in BOOLEAN : CollectOwned(ok)

PlainStep ==
    \/ PlanPlain
    \/ \E allow \in BOOLEAN : ApprovePlainPlan(allow)
    \/ CommitPlan
    \/ ExecutePlain
    \/ BindJob
    \/ ObservePlain
    \/ \E quota, usable \in BOOLEAN : PublishPlain(quota, usable)
    \/ \E allow \in BOOLEAN : CheckPromotion(allow)
    \/ \E ok \in BOOLEAN : PostPlain(ok)
    \/ CommitPromotion
    \/ QueueReconcile
    \/ \E removed \in BOOLEAN : ReconcilePlain(removed)
    \/ \E ok \in BOOLEAN : CollectPlain(ok)
    \/ MarkSucceeded

TickStep ==
    \/ \E ok \in BOOLEAN : OwnedTick(ok)
    \/ \E allow \in BOOLEAN : OwnedTickFinish(allow)
    \/ \E t \in Tasks : PlainTick(t)

RunnerStep == QueueStep \/ OwnedStep \/ PlainStep \/ TickStep

WorkerStep(w) ==
    /\ \/ \E j \in Jobs : ClaimNode(w, j)
       \/ ReserveOperation(w, UploadAuthority(wk[w].j))
       \/ \E preflight \in BOOLEAN : MarkAttempting(w, UploadAuthority(wk[w].j), preflight)
       \/ AcquireFence(w, UploadAuthority(wk[w].j))
       \/ \E ack \in {"ok", "lost", "refused"} : PostUpload(w, ack)
       \/ RecordAnswer(w)
       \/ PollManager(w)
       \/ FinishNode(w)
    /\ UNCHANGED <<agentVars, rn>>

WorkerFault(w) ==
    /\ WorkerCrash(w) \/ LeaseEnds(w) \/ \E uncertain \in BOOLEAN : PollGivesUp(w, uncertain)
    /\ UNCHANGED <<agentVars, rn>>

JobStep(j) ==
    \/ StartWaiting(j)
    \/ (CancelJob(j) \/ \E st \in {"completed", "failed"} : ManagerSettles(j, st)) /\ UNCHANGED <<agentVars, rn>>

OperatorStep ==
    \/ \E halted \in BOOLEAN : SetHalted(halted)
    \/ \E cfg \in {"changed", "dry"} : PatchChannel(cfg)
    \/ \E lane \in {"same", "changed"} : EditLane(lane)
    \/ InventoryApi
    \/ \E t \in Tasks : PlanApi(t)
    \/ \E t \in Tasks : RejectPublication(t)
    \/ \E t \in Tasks : PromotePublication(t)
    \/ \E t \in Tasks : ReleaseReview(t)
    \/ \E st \in {"OPEN", "DRAINING", "CLOSED"} : SetSchedule(st)

TimeStep ==
    \/ WindowEnds
    \/ \E t \in Tasks : DayPasses(t)
    \/ \E t \in Tasks : MetricsDue(t)
    \/ \E t \in Tasks : MetricsLate(t)

Next ==
    \/ RunnerStep
    \/ HandlerFails
    \/ RunnerCrash
    \/ \E w \in Workers : WorkerStep(w)
    \/ \E w \in Workers : WorkerFault(w)
    \/ \E j \in Jobs : JobStep(j)
    \/ OperatorStep
    \/ TimeStep

Spec == Init /\ [][Next]_vars

-----------------------------------------------------------------------------
(* Every request of an owned task that leaves the system, the upload and   *)
(* the promotion, is sent while its inventory still allows it: not held,   *)
(* expired or revoked in the meantime, its item reserved, the channel      *)
(* neither halted nor reconfigured, the plan approved at its current       *)
(* revision, and for the upload at the revision the job was created from.  *)
(* The checks, the commit that records the attempt and the request are     *)
(* different transactions (mark_attempting and its fence,                  *)
(* _promote_owned); an operator's change fits between any two of them.     *)
(* Lane and format are as approved when a promotion is sent; for an upload *)
(* only when its fence is taken, for they may be edited behind it.         *)
EffectsAreAuthorized ==
    [][Owned => /\ \A t \in Tasks : pposts'[t] > pposts[t] =>
                      /\ Live /\ item[t] = "reserved" /\ ~chan.halted /\ SameConfiguration
                      /\ ExpectedAuthority(plan[t], plan[t].rev) /\ pub[t] = "uploaded"
                /\ \A j \in Jobs : posts'[j] > posts[j] =>
                      /\ Live /\ item[j[1]] = "reserved" /\ ~chan.halted /\ chan.cfg = "same"
                      /\ ExpectedAuthority(plan[j[1]], job[j].rev)
                /\ \A w \in Workers : (fence # w /\ fence' = w) => SameConfiguration]_vars

(* No video is posted twice by one job, whatever worker takes the node     *)
(* over when it is retried after a failure or a lost answer (claim and     *)
(* _action_for); and an owned publication is promoted by one request at    *)
(* most, whatever handler comes back to a promotion it finds submitting.   *)
EffectsAtMostOnce ==
    /\ \A j \in Jobs : posts[j] <= 1
    /\ Owned => \A t \in Tasks : pposts[t] <= 1

(* An inventory item is completed, by the reconcile handler, a tick or the *)
(* periodic feedback, only when its video was really uploaded, promoted    *)
(* and reconciled, each exactly once, and by the job of its own task.      *)
CompletedIsPublished ==
    \A t \in Tasks : item[t] = "completed" =>
        /\ op[BoundJob(t)].st = "succeeded" /\ posts[BoundJob(t)] = 1
        /\ task[t].job = 1 /\ job[BoundJob(t)].st = "succeeded"
        /\ pub[t] = "scheduled" /\ promo[t] = "finalized" /\ pposts[t] = 1
        /\ q[<<"reconcile", t>>].st = "succeeded"

(* Items are used one after the other: the next one is reserved only after *)
(* the ones before it are completed and a day has passed since their       *)
(* uploads, although a tick reads the inventory twice with a call to the   *)
(* policy service in between (owned_inventory.finish reads it again).      *)
OneItemAtATime ==
    \A t, u \in Tasks : (u < t /\ item[t] # "unused") => (item[u] = "completed" /\ cool[u])

=============================================================================
