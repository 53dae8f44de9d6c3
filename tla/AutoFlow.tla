------------------------------- MODULE AutoFlow -------------------------------
(***************************************************************************)
(* Plans, their approvals and the jobs executed from them:                 *)
(* backend/app/autoflow/service.py, with the guards that                   *)
(* services/owned_producer_workflow.py adds to a plan of an owned task.    *)
(*                                                                         *)
(* plan[t] is the plan of production task t: its status, its execution     *)
(* revision and the revision its approval was given for (0: none).         *)
(* job[<<t, i>>] is the i-th job created from that plan, with the revision *)
(* it was created from.  An execution bound to a ChannelOps task carries   *)
(* an idempotency key, so it can only ever create job <<t, 1>>; an unbound *)
(* one gets a fresh key each time, and MaxJobs bounds how often.           *)
(*                                                                         *)
(* A job's "failed" is FAILED, PARTIALLY_FAILED or CANCELLED alike.        *)
(*                                                                         *)
(* sched is the runtime schedule; its own life is the subject of           *)
(* Orchestrator, here it only opens, drains and closes.                    *)
(***************************************************************************)
EXTENDS Naturals

CONSTANTS Items,     \* number of production tasks, one per inventory item
          MaxRev,    \* bound: execution revisions of a plan
          MaxJobs    \* bound: jobs created from one plan

ASSUME ItemsAssumption == Items \in Nat \ {0}
ASSUME RevAssumption == MaxRev \in Nat \ {0} /\ MaxJobs \in Nat \ {0}

VARIABLES plan, job, sched

autoflowVars == <<plan, job, sched>>

Tasks == 1 .. Items
Jobs == Tasks \X (1 .. MaxJobs)

PlanStates == {"none", "drafted", "review_required", "review_approved", "rejected", "executed"}
JobStates == {"none", "waiting", "running", "succeeded", "failed"}

AutoFlowTypeOK ==
    /\ plan \in [Tasks -> [st : PlanStates, rev : 0 .. MaxRev, appr : 0 .. MaxRev]]
    /\ job \in [Jobs -> [st : JobStates, rev : 0 .. MaxRev]]
    /\ sched \in {"OPEN", "DRAINING", "CLOSED"}

AutoFlowInit ==
    /\ plan = [t \in Tasks |-> [st |-> "none", rev |-> 0, appr |-> 0]]
    /\ job = [j \in Jobs |-> [st |-> "none", rev |-> 0]]
    /\ sched \in {"OPEN", "CLOSED"}

-----------------------------------------------------------------------------
(* The status a plan has for its rights and approvals. *)
StatusFor(review, approved) ==
    IF approved THEN "review_approved" ELSE IF review THEN "review_required" ELSE "drafted"

(* A plan is saved for the first time at revision 1. *)
NewPlan(review) == [st |-> StatusFor(review, FALSE), rev |-> 1, appr |-> 0]

(* _save_plan counts the revisions of a plan that is saved again. *)
NextRevision(p) == p.rev + 1

(* A patch that changes what would be executed makes a new revision and    *)
(* drops every approval of the old one, and a rejection too.               *)
InvalidateApproval(p, review) ==
    [st |-> StatusFor(review, FALSE), rev |-> NextRevision(p), appr |-> 0]

Approvable(p) == p.st \notin {"none", "rejected"}

ApprovedPlan(p) == [p EXCEPT !.st = StatusFor(FALSE, TRUE), !.appr = p.rev]

RejectedPlan(p) == [p EXCEPT !.st = "rejected", !.appr = 0]

(* _assert_execute_allowed: not rejected, an approval only for the current *)
(* revision, and an approval at all when the rights ask for a review.      *)
ExecuteAllowed(p, review) ==
    /\ p.st \notin {"none", "rejected"}
    /\ p.appr # 0 => p.appr = p.rev
    /\ review => p.appr # 0

(* _assert_expected_execute_authority: exactly the revision the caller     *)
(* was told had been approved.                                             *)
ExpectedAuthority(p, expected) == p.appr = p.rev /\ p.appr = expected /\ expected # 0

-----------------------------------------------------------------------------
(* A job created while the window is not open is parked. *)
StartOrPark == IF sched = "OPEN" THEN "running" ELSE "waiting"

CreateJob(j) ==
    /\ job' = [job EXCEPT ![j] = [st |-> StartOrPark, rev |-> plan[j[1]].rev]]
    /\ plan' = [plan EXCEPT ![j[1]].st = "executed"]

(* The unbound execution of handle_execute_task has no key of its own, so  *)
(* each call is a new run and a new job.                                   *)
FreshJob(t) == {j \in Jobs : j[1] = t /\ job[j].st = "none"
                             /\ \A i \in Jobs : (i[1] = t /\ i[2] < j[2]) => job[i].st # "none"}

(* The bound execution creates its job once: a second call finds the       *)
(* committed run under its key and replays it.                             *)
BoundJob(t) == <<t, 1>>

(* _execute_channelops_bound: it refuses while the schedule drains, and    *)
(* under the plan's lock checks the approval and the revision expected.    *)
BoundExecutionAllowed(p, review, expected) ==
    /\ sched # "DRAINING"
    /\ ExecuteAllowed(p, review)
    /\ ExpectedAuthority(p, expected)

=============================================================================
