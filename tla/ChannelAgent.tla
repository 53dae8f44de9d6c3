----------------------------- MODULE ChannelAgent -----------------------------
(***************************************************************************)
(* The channel agent's runner: backend/app/channel_agent/queue.py,         *)
(* runner.py, scheduler.py, service.py, owned_inventory.py (the tick) and  *)
(* owned_producer.py (planning an owned task).                             *)
(*                                                                         *)
(* One runner claims one queue item at a time; rn is where it is in the    *)
(* handler, for which kind and task, and an answer it holds.  A handler is *)
(* cut where it commits or leaves the process: between two cuts nothing of *)
(* it is visible.  Every phase of an owned handler takes the schedule row, *)
(* so it waits for whoever holds the fence; when an owned phase fails, the *)
(* handler holds the task and its inventory and completes the item.  Any   *)
(* other exception goes to the queue's retry.                              *)
(***************************************************************************)
EXTENDS OwnedInventory

CONSTANTS MaxAttempts, \* a queue item's max_attempts
          MaxPolls,    \* observations of a running job before giving up
          PlainTasks   \* bound: tasks a channel without inventory produces

VARIABLE rn

runnerFrame == <<sched, op, nodeVars, wk, mgr, posts, over, cool>>

Resting == [pc |-> "idle", k |-> "plan", t |-> 1, ans |-> 0]
At(k, place) == rn.k = k /\ rn.pc = place
Rest == rn' = Resting
Move(place) == rn' = [rn EXCEPT !.pc = place]

-----------------------------------------------------------------------------
(* The queue. *)

(* enqueue with a key that does not change: the second call finds the item *)
EnqueueOnce(Q, k, t) == IF Q[<<k, t>>].st = "none" THEN [Q EXCEPT ![<<k, t>>].st = "queued"] ELSE Q

(* enqueue with a new key: the next poll, or a new attempt *)
EnqueueNext(Q, k, t) == [Q EXCEPT ![<<k, t>>] = [st |-> "queued", att |-> 0]]

Complete(Q, k, t) == [Q EXCEPT ![<<k, t>>] = [st |-> "succeeded", att |-> 0]]

(* mark_failed_or_retry *)
RetryItem(Q, k, t) ==
    IF Q[<<k, t>>].att >= MaxAttempts THEN [Q EXCEPT ![<<k, t>>] = [st |-> "dead", att |-> 0]]
                                  ELSE [Q EXCEPT ![<<k, t>>].st = "queued"]

(* claim_next; the metrics of a publication are not claimed before due *)
ClaimItem(k, t) ==
    /\ rn.pc = "idle" /\ q[<<k, t>>].st = "queued"
    /\ k = "metrics" => met[t] \in {"due", "late"}
    /\ q' = [q EXCEPT ![<<k, t>>] = [st |-> "running", att |-> @.att + 1]]
    /\ rn' = [Resting EXCEPT !.pc = "claimed", !.k = k, !.t = t]
    /\ UNCHANGED <<runnerFrame, plan, job, fence, faults, inventoryVars, task, dirty, polls, recordVars>>

Unlock == fence' = IF fence = Runner THEN NoOne ELSE fence

(* An exception the handler does not turn into a hold. *)
Retry ==
    /\ q' = RetryItem(q, rn.k, rn.t)
    /\ dirty' = [dirty EXCEPT ![rn.t] = TRUE]
    /\ Rest

HandlerFails ==
    /\ rn.pc \notin {"idle", "tick", "done"} /\ Costs(TRUE) /\ Retry /\ Unlock
    /\ UNCHANGED <<runnerFrame, plan, job, inventoryVars, task, polls, recordVars>>

(* The process dies; nothing ever takes its running item again. *)
RunnerCrash ==
    /\ rn.pc # "idle" /\ Costs(TRUE) /\ Rest /\ Unlock
    /\ UNCHANGED <<runnerFrame, plan, job, inventoryVars, task, q, dirty, polls, recordVars>>

(* mark_succeeded, after a handler of a channel without inventory returned *)
MarkSucceeded ==
    /\ rn.pc = "done" /\ q' = Complete(q, rn.k, rn.t) /\ Rest
    /\ UNCHANGED <<runnerFrame, plan, job, fence, faults, inventoryVars, task, dirty, polls, recordVars>>

-----------------------------------------------------------------------------
(* The tick. *)

(* scheduler.run_once: only these channels get ticks *)
TickScheduled == rn.pc = "idle" /\ Free /\ ~chan.halted /\ ~chan.paused

(* _task_from_candidate *)
SelectTask(t) == task' = [task EXCEPT ![t].st = "selected"]

(* The item is reserved for a new task with its plan item; the last one    *)
(* exhausts the inventory.                                                 *)
Admit(t) ==
    /\ item' = [Settle(FinishedItems) EXCEPT ![t] = "reserved"]
    /\ SelectTask(t)
    /\ q' = EnqueueOnce(q, "plan", t)
    /\ inv' = IF Unused = {t} THEN [inv EXCEPT !.st = "exhausted"] ELSE inv
    /\ chan' = IF Unused = {t} THEN Paused ELSE chan

(* finish: what a tick does with its last reading *)
TickHolds(redis) ==
    /\ inv' = [st |-> IF over THEN "expired" ELSE "held", redis |-> redis /\ ~over]
    /\ chan' = Paused
    /\ UNCHANGED <<item, task, q>>

TickCompletes == item' = Settle(FinishedItems) /\ UNCHANGED <<inv, chan, task, q>>

(* A tick that finds nothing to admit ends with its first reading; one     *)
(* that could change nothing is left out.                                  *)
OwnedTick(redisOk) ==
    /\ TickScheduled /\ Owned /\ inv.st = "approved" /\ Costs(~redisOk)
    /\ IF TickFails \/ ~redisOk THEN TickHolds(~redisOk /\ ~TickFails) /\ UNCHANGED rn
       ELSE IF Ready THEN /\ rn' = [Resting EXCEPT !.pc = "tick", !.t = Next1(Unused)]
                          /\ UNCHANGED <<inv, chan, item, task, q>>
       ELSE FinishedItems # {} /\ TickCompletes /\ UNCHANGED rn
    /\ UNCHANGED <<runnerFrame, plan, job, fence, dirty, polls, recordVars>>

(* The policy service answered; the inventory is read once more. *)
OwnedTickFinish(allow) ==
    /\ Owned /\ rn.pc = "tick" /\ Free /\ Costs(~allow) /\ Rest
    /\ IF inv.st # "approved" THEN UNCHANGED <<inv, chan, item, task, q>>
       ELSE IF TickFails \/ (~allow /\ rn.t \in Unused) THEN TickHolds(FALSE)
       ELSE IF Ready THEN Admit(rn.t)
       ELSE TickCompletes
    /\ UNCHANGED <<runnerFrame, plan, job, fence, dirty, polls, recordVars>>

(* The guards of a candidate, of which the account's concurrency is the    *)
(* one that depends on other tasks.                                        *)
GuardsPass == \A u \in Tasks : task[u].st \notin {"selected", "planning", "producing"}

(* ChannelAgentService.tick *)
PlainTick(t) ==
    /\ TickScheduled /\ ~Owned /\ chan.cfg # "dry" /\ t \in PlainTasks /\ task[t].st = "none"
    /\ GuardsPass
    /\ SelectTask(t)
    /\ q' = EnqueueOnce(q, "plan", t)
    /\ UNCHANGED <<runnerFrame, plan, job, fence, faults, inventoryVars, dirty, polls, recordVars, rn>>

-----------------------------------------------------------------------------
(* Owned handlers. *)

OwnedAt(k, place) == Owned /\ At(k, place) /\ Free

(* owned_producer.hold *)
Hold ==
    /\ task' = [task EXCEPT ![rn.t].st = "held", ![rn.t].why = "other"]
    /\ inv' = HeldInventory("held") /\ chan' = Paused
    /\ q' = Complete(q, rn.k, rn.t) /\ Rest
    /\ UNCHANGED item

(* plan_owned saves and binds the plan once *)
OwnedPlan(t) == IF plan[t].st = "none" THEN [plan EXCEPT ![t] = NewPlan(TRUE)] ELSE plan

(* maybe_plan up to the bound plan *)
PlanOwned ==
    LET t == rn.t IN
    /\ OwnedAt("plan", "claimed")
    /\ IF Authority(t) /\ task[t].st = "selected"
         THEN /\ plan' = OwnedPlan(t)
              /\ Move("planned") /\ UNCHANGED <<inventoryVars, task, q>>
         ELSE Hold /\ UNCHANGED plan
    /\ UNCHANGED <<runnerFrame, job, fence, faults, dirty, polls, recordVars>>

(* The policy answer is stored with the task, unless an earlier attempt    *)
(* stored it.                                                              *)
StorePlanPolicy(allow) ==
    LET t == rn.t IN
    /\ OwnedAt("plan", "planned") /\ (task[t].pol => allow) /\ Costs(~allow)
    /\ IF Authority(t) /\ task[t].st = "selected" /\ allow
         THEN /\ task' = [task EXCEPT ![t].pol = TRUE]
              /\ Move("approve") /\ UNCHANGED <<inventoryVars, q>>
         ELSE Hold
    /\ UNCHANGED <<runnerFrame, plan, job, fence, dirty, polls, recordVars>>

(* approve_internal under lock_plan: without authority the task is held, a *)
(* plan rejected in between is an exception.                               *)
ApproveOwnedPlan ==
    LET t == rn.t IN
    /\ OwnedAt("plan", "approve")
    /\ IF ~Authority(t) THEN Hold /\ UNCHANGED <<plan, dirty>>
       ELSE IF Approvable(plan[t])
         THEN /\ plan' = [plan EXCEPT ![t] = ApprovedPlan(@)]
              /\ Move("approved") /\ UNCHANGED <<inventoryVars, task, q, dirty>>
         ELSE Retry /\ UNCHANGED <<plan, inventoryVars, task>>
    /\ UNCHANGED <<runnerFrame, job, fence, faults, polls, recordVars>>

(* The end of maybe_plan: the approved revision goes with the task and its *)
(* execute item.                                                           *)
FinishPlan ==
    LET t == rn.t IN
    /\ OwnedAt("plan", "approved")
    /\ IF Authority(t) /\ task[t].st = "selected" /\ ExpectedAuthority(plan[t], plan[t].rev)
         THEN /\ task' = [task EXCEPT ![t].st = "planning", ![t].exp = plan[t].appr]
              /\ q' = EnqueueOnce(Complete(q, "plan", t), "execute", t)
              /\ Rest /\ UNCHANGED inventoryVars
         ELSE Hold
    /\ UNCHANGED <<runnerFrame, plan, job, fence, faults, dirty, polls, recordVars>>

(* The task of an execute item must still be in the states it is queued in *)
Executable(t) == task[t].st \in {"planning", "producing"}

(* _bind_channelops_execution: the task gets its job in the transaction    *)
(* that creates it.                                                        *)
BindExecution(j) == task' = [task EXCEPT ![j[1]].st = "producing", ![j[1]].job = j[2]]

(* _execute_owned up to the job: the bound execution writes run, job and   *)
(* task in one transaction.  A task that has its job is not executed again.*)
ExecuteOwned ==
    LET t == rn.t IN
    /\ OwnedAt("execute", "claimed")
    /\ IF Running /\ task[t].job # 0
         THEN Move("executed") /\ UNCHANGED <<plan, job, inventoryVars, task, q>>
       ELSE IF Running /\ Authority(t) /\ task[t].pol /\ Executable(t)
               /\ BoundExecutionAllowed(plan[t], TRUE, task[t].exp)
         THEN /\ CreateJob(BoundJob(t))
              /\ BindExecution(BoundJob(t))
              /\ Move("executed") /\ UNCHANGED <<inventoryVars, q>>
         ELSE Hold /\ UNCHANGED <<plan, job>>
    /\ UNCHANGED <<runnerFrame, fence, faults, dirty, polls, recordVars>>

FinishExecute ==
    LET t == rn.t IN
    /\ OwnedAt("execute", "executed")
    /\ IF Running
         THEN /\ q' = EnqueueOnce(Complete(q, "execute", t), "observe", t)
              /\ Rest /\ UNCHANGED <<inventoryVars, task>>
         ELSE Hold
    /\ UNCHANGED <<runnerFrame, plan, job, fence, faults, dirty, polls, recordVars>>

(* _owned_upload_receipt *)
Receipt(t) ==
    /\ op[BoundJob(t)].st = "succeeded" /\ job[BoundJob(t)].st = "succeeded"
    /\ History(t) # "error"

(* The client's observe_job: a parked job looks like a running one. *)
ObserveJob(j) == IF job[j].st = "waiting" THEN "running" ELSE job[j].st

(* _observe_owned *)
ObserveOwned ==
    LET t == rn.t
        st == ObserveJob(BoundJob(t)) IN
    /\ OwnedAt("observe", "claimed")
    /\ IF Running /\ polls[t] < MaxPolls /\ st = "running"
         THEN /\ polls' = [polls EXCEPT ![t] = @ + 1]
              /\ q' = EnqueueNext(q, "observe", t)
              /\ Rest /\ UNCHANGED <<inventoryVars, task>>
       ELSE IF Running /\ polls[t] < MaxPolls /\ st = "succeeded" /\ Receipt(t)
         THEN /\ q' = EnqueueOnce(Complete(q, "observe", t), "publish", t)
              /\ Rest /\ UNCHANGED <<inventoryVars, task, polls>>
         ELSE Hold /\ UNCHANGED polls
    /\ UNCHANGED <<runnerFrame, plan, job, fence, faults, dirty, recordVars>>

(* _publish_owned *)
PublishOwned ==
    LET t == rn.t IN
    /\ OwnedAt("publish", "claimed")
    /\ IF Running /\ Receipt(t)
         THEN /\ pub' = IF pub[t] = "none" THEN [pub EXCEPT ![t] = "uploaded"] ELSE pub
              /\ task' = IF pub[t] = "none" THEN [task EXCEPT ![t].st = "uploaded_private"] ELSE task
              /\ q' = EnqueueOnce(Complete(q, "publish", t), "promote", t)
              /\ Rest /\ UNCHANGED inventoryVars
         ELSE Hold /\ UNCHANGED pub
    /\ UNCHANGED <<runnerFrame, plan, job, fence, faults, dirty, polls, promo, pposts, met>>

(* _owned_approved_plan: an approval of the current revision, by policy *)
ApprovedNow(t) == task[t].pol /\ ExpectedAuthority(plan[t], plan[t].rev)

(* What _promote_owned asks for before it commits and before it posts. *)
MayPromote(t) ==
    /\ Authority(t) /\ task[t].st = "uploaded_private" /\ pub[t] = "uploaded"
    /\ Receipt(t) /\ ApprovedNow(t)

(* The runner keeps the revision it will ask the policy about... *)
PreparePromotion ==
    LET t == rn.t IN
    /\ OwnedAt("promote", "claimed") /\ promo[t] = "none"
    /\ IF Running /\ MayPromote(t)
         THEN rn' = [rn EXCEPT !.pc = "prepared", !.ans = plan[t].appr] /\ UNCHANGED <<inventoryVars, task, q>>
         ELSE Hold
    /\ UNCHANGED <<runnerFrame, plan, job, fence, faults, dirty, polls, recordVars>>

(* ... the policy answered and the operation is committed as submitting; a *)
(* later attempt finds it and never posts.                                 *)
ReservePromotion(allow) ==
    LET t == rn.t IN
    /\ OwnedAt("promote", "prepared") /\ Costs(~allow)
    /\ IF MayPromote(t) /\ plan[t].appr = rn.ans /\ allow
         THEN promo' = [promo EXCEPT ![t] = "submitting"] /\ Move("fence") /\ UNCHANGED <<inventoryVars, task, q>>
         ELSE Hold /\ UNCHANGED promo
    /\ UNCHANGED <<runnerFrame, plan, job, fence, dirty, polls, pub, pposts, met>>

(* ... and before the request everything is checked again under the fence. *)
PromotionFence ==
    LET t == rn.t IN
    /\ OwnedAt("promote", "fence")
    /\ IF MayPromote(t) /\ promo[t] = "submitting" /\ plan[t].appr = rn.ans
         THEN fence' = Runner /\ Move("post") /\ UNCHANGED <<inventoryVars, task, q>>
         ELSE Hold /\ UNCHANGED fence
    /\ UNCHANGED <<runnerFrame, plan, job, faults, dirty, polls, recordVars>>

(* The request is sent under the fence; ans is 1 when it was answered. *)
PostPromotion(answered) ==
    /\ Owned /\ At("promote", "post") /\ Costs(~answered)
    /\ pposts' = [pposts EXCEPT ![rn.t] = @ + 1]
    /\ rn' = [rn EXCEPT !.pc = "settle", !.ans = IF answered THEN 1 ELSE 0] /\ Unlock
    /\ UNCHANGED <<runnerFrame, plan, job, inventoryVars, task, q, dirty, polls, pub, promo, met>>

(* The metric schedules of a publication are made once. *)
ScheduleMetrics(t) == met' = IF met[t] = "none" THEN [met EXCEPT ![t] = "pending"] ELSE met

(* The outcome, from the answer or from the platform's status. *)
SettlePromotion(confirmed) ==
    LET t == rn.t
        known == rn.ans = 1 IN
    /\ Owned /\ rn.k = "promote" /\ Free
    /\ rn.pc = "settle" \/ (rn.pc = "claimed" /\ promo[t] \in {"submitting", "uncertain"})
    /\ (known => confirmed) /\ Costs(~confirmed)
    /\ IF Running /\ confirmed
         THEN /\ promo' = [promo EXCEPT ![t] = "finalized"]
              /\ pub' = [pub EXCEPT ![t] = "scheduled"]
              /\ task' = IF task[t].st \in {"held", "failed", "rejected"} THEN task
                         ELSE [task EXCEPT ![t].st = "scheduled"]
              /\ ScheduleMetrics(t)
              /\ q' = EnqueueOnce(EnqueueOnce(Complete(q, "promote", t), "metrics", t), "reconcile", t)
              /\ Rest /\ UNCHANGED inventoryVars
         ELSE /\ promo' = IF Running THEN [promo EXCEPT ![t] = "uncertain"] ELSE promo
              /\ Hold /\ UNCHANGED <<pub, met>>
    /\ UNCHANGED <<runnerFrame, plan, job, fence, dirty, polls, pposts>>

(* _reconcile_owned *)
ReconcileOwned(confirmed) ==
    LET t == rn.t
        after == Complete(q, "reconcile", t) IN
    /\ OwnedAt("reconcile", "claimed") /\ Costs(~confirmed)
    /\ IF Running /\ confirmed
         THEN q' = after /\ FinalizeItems(t, after) /\ Rest /\ UNCHANGED task
         ELSE Hold
    /\ UNCHANGED <<runnerFrame, plan, job, fence, dirty, polls, recordVars>>

(* _collect_owned *)
CollectOwned(available) ==
    LET t == rn.t IN
    /\ OwnedAt("metrics", "claimed") /\ Costs(~available)
    /\ IF ~Running THEN Hold /\ UNCHANGED met
       ELSE IF met[t] = "due" /\ available
         THEN /\ met' = [met EXCEPT ![t] = "succeeded"]
              /\ task' = IF task[t].st \in {"held", "failed", "rejected"} THEN task
                         ELSE [task EXCEPT ![t].st = "measured"]
              /\ q' = Complete(q, "metrics", t)
              /\ Rest /\ UNCHANGED inventoryVars
         ELSE /\ met' = IF met[t] = "late" THEN [met EXCEPT ![t] = "expired"] ELSE met
              /\ q' = IF met[t] = "late" THEN Complete(q, "metrics", t) ELSE EnqueueNext(q, "metrics", t)
              /\ Rest /\ UNCHANGED <<inventoryVars, task>>
    /\ UNCHANGED <<runnerFrame, plan, job, fence, dirty, polls, pub, promo, pposts>>

-----------------------------------------------------------------------------
(* Handlers of a channel without an inventory. *)

PlainAt(k, place) == ~Owned /\ At(k, place)
External == chan.kind = "external"

HeldTask(t, why) == [task EXCEPT ![t].st = "held", ![t].why = why]

(* valid_pre_upload_evidence: the human review is of the approved plan *)
Reviewed(t) == External => ExpectedAuthority(plan[t], task[t].exp)

(* handle_plan_task: the plan is saved by another session... *)
PlanPlain ==
    /\ PlainAt("plan", "claimed")
    /\ plan' = [plan EXCEPT ![rn.t] = NewPlan(External)]
    /\ Move("planned")
    /\ UNCHANGED <<runnerFrame, job, fence, faults, inventoryVars, task, q, dirty, polls, recordVars>>

(* ... approved by another one, when the policy allows it... *)
ApprovePlainPlan(allow) ==
    LET t == rn.t IN
    /\ PlainAt("plan", "planned") /\ ~External /\ Free /\ Costs(~allow)
    /\ IF allow /\ ~Approvable(plan[t]) THEN Retry /\ UNCHANGED plan
       ELSE /\ plan' = IF allow THEN [plan EXCEPT ![t] = ApprovedPlan(@)] ELSE plan
            /\ Move("approved") /\ UNCHANGED <<q, dirty>>
    /\ UNCHANGED <<runnerFrame, job, fence, inventoryVars, task, polls, recordVars>>

(* ... and the task goes on, or waits for a human. *)
CommitPlan ==
    LET t == rn.t IN
    /\ PlainAt("plan", IF External THEN "planned" ELSE "approved")
    /\ task' = IF External THEN HeldTask(t, "review") ELSE [task EXCEPT ![t].st = "planning"]
    /\ q' = IF External THEN q ELSE EnqueueOnce(q, "execute", t)
    /\ Move("done")
    /\ UNCHANGED <<runnerFrame, plan, job, fence, faults, inventoryVars, dirty, polls, recordVars>>

(* handle_execute_task: without a bound job every call makes a new one. *)
ExecutePlain ==
    LET t == rn.t IN
    /\ PlainAt("execute", "claimed") /\ Free
    /\ IF ~Reviewed(t)
         THEN task' = HeldTask(t, "review") /\ Move("done") /\ UNCHANGED <<plan, job, q>>
       ELSE IF task[t].job # 0
         THEN /\ task' = IF task[t].st \in {"held", "failed", "rejected", "measured"} THEN task
                         ELSE [task EXCEPT ![t].st = "producing"]
              /\ q' = EnqueueOnce(q, "observe", t) /\ Move("done") /\ UNCHANGED <<plan, job>>
       ELSE IF ExecuteAllowed(plan[t], External)
         THEN \E j \in FreshJob(t) :
              /\ CreateJob(j)
              /\ rn' = [rn EXCEPT !.pc = "executed", !.ans = j[2]] /\ UNCHANGED <<task, q>>
         ELSE task' = [task EXCEPT ![t].st = "failed"] /\ Move("done") /\ UNCHANGED <<plan, job, q>>
    /\ UNCHANGED <<runnerFrame, fence, faults, inventoryVars, dirty, polls, recordVars>>

BindJob ==
    LET t == rn.t IN
    /\ PlainAt("execute", "executed")
    /\ task' = [task EXCEPT ![t].st = "producing", ![t].job = rn.ans]
    /\ q' = EnqueueNext(q, "observe", t) /\ Move("done")
    /\ UNCHANGED <<runnerFrame, plan, job, fence, faults, inventoryVars, dirty, polls, recordVars>>

(* handle_observe_job *)
ObservePlain ==
    LET t == rn.t
        st == ObserveJob(<<t, task[t].job>>) IN
    /\ PlainAt("observe", "claimed")
    /\ IF polls[t] >= MaxPolls
         THEN task' = HeldTask(t, "other") /\ Move("done") /\ UNCHANGED <<q, polls>>
       ELSE IF st = "running"
         THEN polls' = [polls EXCEPT ![t] = @ + 1] /\ q' = EnqueueNext(q, "observe", t) /\ Rest /\ UNCHANGED task
       ELSE /\ task' = IF st = "failed" THEN [task EXCEPT ![t].st = "failed"] ELSE task
            /\ q' = IF st = "failed" THEN q ELSE EnqueueOnce(q, "publish", t)
            /\ Move("done") /\ UNCHANGED polls
    /\ UNCHANGED <<runnerFrame, plan, job, fence, faults, inventoryVars, dirty, recordVars>>

(* _publish_time_material_usage_guard: asked before the first publication *)
UsageBlocks(t, usable) == pub[t] = "none" /\ ~usable

(* handle_publish_task; an external asset waits for a manual promotion *)
PublishPlain(quota, usable) ==
    LET t == rn.t IN
    /\ PlainAt("publish", "claimed") /\ Costs(~quota \/ ~usable) /\ Move("done")
    /\ IF ~Reviewed(t) \/ ~quota \/ UsageBlocks(t, usable)
         THEN task' = HeldTask(t, IF Reviewed(t) THEN "other" ELSE "review") /\ UNCHANGED <<pub, q>>
         ELSE /\ pub' = IF pub[t] = "none" THEN [pub EXCEPT ![t] = "uploaded"] ELSE pub
              /\ task' = [task EXCEPT ![t].st = "uploaded_private"]
              /\ q' = IF External THEN q ELSE EnqueueNext(q, "promote", t)
    /\ UNCHANGED <<runnerFrame, plan, job, fence, inventoryVars, dirty, polls, promo, pposts, met>>

(* valid_promotion_evidence: the promotion was reviewed for the same       *)
(* approval as the upload.                                                 *)
PromotionReviewed(t) == Reviewed(t) /\ (External => task[t].prm = plan[t].appr)

(* handle_promote_publication: the checks and the policy... *)
CheckPromotion(allow) ==
    LET t == rn.t
        rejected == pub[t] = "rejected" \/ task[t].st = "rejected"
        reviewed == PromotionReviewed(t) IN
    /\ PlainAt("promote", "claimed") /\ Costs(~allow)
    /\ IF rejected THEN Move("done") /\ UNCHANGED <<task, q, dirty>>
       ELSE IF pub[t] # "uploaded" \/ task[t].st \notin {"uploaded_private", "held"}
         THEN Retry /\ UNCHANGED task
       ELSE IF ~reviewed \/ ~allow
         THEN task' = HeldTask(t, IF reviewed THEN "policy" ELSE "review") /\ Move("done") /\ UNCHANGED <<q, dirty>>
         ELSE Move("post") /\ UNCHANGED <<task, q, dirty>>
    /\ UNCHANGED <<runnerFrame, plan, job, fence, inventoryVars, polls, recordVars>>

(* ... the request; without an answer it is retried... *)
PostPlain(answered) ==
    /\ PlainAt("promote", "post") /\ Costs(~answered)
    /\ pposts' = [pposts EXCEPT ![rn.t] = @ + 1]
    /\ IF answered THEN Move("settle") /\ UNCHANGED <<q, dirty>> ELSE Retry
    /\ UNCHANGED <<runnerFrame, plan, job, fence, inventoryVars, task, polls, pub, promo, met>>

(* ... and the record.  The first enqueue commits it, the second one only  *)
(* the reconcile item.                                                     *)
CommitPromotion ==
    LET t == rn.t IN
    /\ PlainAt("promote", "settle")
    /\ pub' = [pub EXCEPT ![t] = "scheduled"]
    /\ task' = [task EXCEPT ![t].st = "scheduled"]
    /\ met' = [met EXCEPT ![t] = "pending"]
    /\ q' = EnqueueOnce(q, "metrics", t) /\ Move("queue")
    /\ UNCHANGED <<runnerFrame, plan, job, fence, faults, inventoryVars, dirty, polls, promo, pposts>>

QueueReconcile ==
    /\ PlainAt("promote", "queue")
    /\ q' = EnqueueOnce(q, "reconcile", rn.t) /\ Move("done")
    /\ UNCHANGED <<runnerFrame, plan, job, fence, faults, inventoryVars, task, dirty, polls, recordVars>>

(* handle_reconcile_publication: what the platform reports is taken over *)
ReconcilePlain(removed) ==
    LET t == rn.t IN
    /\ PlainAt("reconcile", "claimed") /\ Costs(removed) /\ Move("done")
    /\ pub' = IF removed THEN [pub EXCEPT ![t] = "removed"] ELSE pub
    /\ task' = IF removed THEN HeldTask(t, "other") ELSE task
    /\ UNCHANGED <<runnerFrame, plan, job, fence, inventoryVars, q, dirty, polls, promo, pposts, met>>

(* handle_collect_metrics *)
CollectPlain(available) ==
    LET t == rn.t IN
    /\ PlainAt("metrics", "claimed") /\ Costs(~available)
    /\ IF pub[t] = "rejected" \/ task[t].st = "rejected"
         THEN Move("done") /\ UNCHANGED <<task, met, q>>
       ELSE IF met[t] = "due" /\ available
         THEN /\ met' = [met EXCEPT ![t] = "succeeded"] /\ task' = [task EXCEPT ![t].st = "measured"]
              /\ Move("done") /\ UNCHANGED q
       ELSE IF met[t] = "late"
         THEN /\ met' = [met EXCEPT ![t] = "expired"] /\ task' = HeldTask(t, "other")
              /\ Move("done") /\ UNCHANGED q
         ELSE q' = EnqueueNext(q, "metrics", t) /\ Rest /\ UNCHANGED <<task, met>>
    /\ UNCHANGED <<runnerFrame, plan, job, fence, inventoryVars, dirty, polls, pub, promo, pposts>>

=============================================================================
