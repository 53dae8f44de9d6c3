------------------------------ MODULE Promotion ------------------------------
(***************************************************************************)
(* Promotion of one uploaded publication to its target visibility          *)
(* (HandlePromotePublication in handlers.go, store_promotion_operations.go,*)
(* and the operator's promote and reject endpoints in                      *)
(* backend/app/api/channel_agent.py).                                      *)
(*                                                                         *)
(* The handler alternates fenced transactions with calls of the policy     *)
(* service and of YouTubeManager, made while nothing is locked.  It keeps  *)
(* a digest of the publication and task rows across its phases, and a      *)
(* durable operation row which is "submitting" before the manager is       *)
(* called, so that a retry observes the platform instead of calling again. *)
(* Two queue items can promote one publication: the one its upload         *)
(* enqueued and the one an operator requests.                              *)
(***************************************************************************)
EXTENDS OpsQueue

CONSTANTS
    AutoItem,    \* the item enqueued by the upload
    ManualItem   \* the item enqueued by the operator's promote request

ASSUME PromotionAssumption ==
    /\ {AutoItem, ManualItem} \subseteq Item \ Discovery
    /\ AutoItem # ManualItem

VARIABLES
    op,      \* the publication_promotion_operations row
    task,    \* state of the production task, with the guard that holds it
    pub,     \* publish_status of the publication
    step,    \* where each runner's handler is
    fresh,   \* runners whose prepared snapshot still has the rows' digest
    wire,    \* SchedulePublish requests that have not reached YouTube
    remote,  \* the privacy YouTube shows for the video
    posts    \* history: SchedulePublish calls made

rowVars == <<op, task, pub, fresh>>
platformVars == <<wire, remote, posts>>
promotionVars == <<queueVars, rowVars, step, platformVars>>

OpStatus ==
    {"none", "reserved", "submitting", "uncertain", "confirmed", "finalized"}

PromotionTypeOK ==
    /\ QueueTypeOK
    /\ op \in [status : OpStatus, item : Item \cup {NoClaim}]
    /\ task \in {"uploaded_private", "held_pds", "held_review",
                 "held_uncertain", "scheduled", "rejected"}
    /\ pub \in {"uploaded", "scheduled", "rejected"}
    /\ step \in [Runner -> {"none", "prepare", "decide", "begin", "submit",
                            "await", "confirm", "reconcile", "status",
                            "uncertain", "hold", "finalize"}]
    /\ fresh \in SUBSET Runner
    /\ wire \in Nat
    /\ remote \in {"private", "target"}
    /\ posts \in Nat

\* The upload enqueued the item, unless external assets await a review.
PromotionInit ==
    /\ LeadershipInit
    /\ \E s \in {"queued", "absent"} :
        q = [i \in Item |-> [status |-> IF i = AutoItem THEN s ELSE "absent",
                             by |-> NoClaim, at |-> 0, attempts |-> 0]]
    /\ stamp = [i \in Item |-> 0]
    /\ run = [i \in Item |-> "none"]
    /\ pc = [r \in Runner |-> "idle"]
    /\ pass = [r \in Runner |-> 0]
    /\ held = [r \in Runner |-> NoClaim]
    /\ effect = [i \in Item |-> 0]
    /\ unacked = [i \in Item |-> 0]
    /\ lost = {}
    /\ picked = {}
    /\ faults = 0
    /\ op = [status |-> "none", item |-> NoClaim]
    /\ task = "uploaded_private"
    /\ pub = "uploaded"
    /\ step = [r \in Runner |-> "none"]
    /\ fresh = {}
    /\ wire = 0
    /\ remote = "private"
    /\ posts = 0

-----------------------------------------------------------------------------
(* Phases: each is one transaction under WithQueueExecutionFence *)

AtStep(r, s) == pc[r] = "handling" /\ step[r] = s

\* Both items, and the operator's requests, lock the publication's channel.
ChannelUnlocked == picked = {}

Phase(r, s) == AtStep(r, s) /\ HasLease(r) /\ ChannelUnlocked /\ Fenced(r)

Proceed(r, s) ==
    /\ step' = [step EXCEPT ![r] = s]
    /\ UNCHANGED <<itemVars, pc, loopVars, faults>>

Leave(r) == step' = [step EXCEPT ![r] = "none"]

\* The phase commits and the handler goes on, unless the answer to COMMIT is
\* lost: an error or a cancellation to the handler.
Then(r, s) ==
    \/ Proceed(r, s)
    \/ /\ Fault
       /\ \E label \in {"failed", "release"} : Goto(r, label)
       /\ Leave(r)
       /\ UNCHANGED <<itemVars, loopVars>>

\* The phase commits and the handler returns nil.
Return(r) ==
    /\ HandlerCommits(r) \/ HandlerCommitUnacknowledged(r)
    /\ Leave(r)

\* An UPDATE of the publication or the task makes every snapshot stale.
HoldTask(guard) ==
    /\ task' = guard
    /\ fresh' = {}
    /\ UNCHANGED <<op, pub>>

\* validatePromotionOperationAuthority: the operation is of this queue item.
OwnOperation(r) == op.item = held[r].item

Promotable ==
    \/ task = "uploaded_private"
    \/ task = "held_uncertain" /\ op.status # "none"

\* Mutant: the phases do not compare the digest.
SnapshotNotCompared(r) == TRUE

\* preparedPublicationSnapshot.validate
SnapshotValid(r) == r \in fresh

\* lockPreparedPromotionScope, in every phase after the first.
Scoped(r) == SnapshotValid(r) /\ OwnOperation(r)

\* Mutant: an operation left in "submitting" is submitted again.
ResumeResubmits(status) ==
    CASE status = "reserved" -> "begin"
      [] status = "submitting" -> "submit"
      [] status = "uncertain" -> "reconcile"
      [] OTHER -> "finalize"

\* The switch of executePromotionOperation.
Resume(status) ==
    CASE status = "reserved" -> "begin"
      [] status \in {"submitting", "uncertain"} -> "reconcile"
      [] OTHER -> "finalize"

-----------------------------------------------------------------------------
(* Preparation, policy decision, reservation *)

\* Finalized already, or the task has left the states promotion starts from.
PrepareSkips(r) ==
    /\ Phase(r, "prepare")
    /\ op.status = "none" \/ OwnOperation(r)
    /\ op.status = "finalized" \/ ~Promotable
    /\ Return(r)
    /\ UNCHANGED <<rowVars, platformVars>>

\* An operation of an earlier attempt of this item is taken up again.
PrepareResumes(r) ==
    /\ Phase(r, "prepare")
    /\ op.status \notin {"none", "finalized"} /\ OwnOperation(r)
    /\ Promotable
    /\ fresh' = fresh \cup {r}
    /\ Then(r, Resume(op.status))
    /\ UNCHANGED <<op, task, pub, platformVars>>

PreparePromotion(r) ==
    /\ Phase(r, "prepare")
    /\ op.status = "none"
    /\ Promotable
    /\ fresh' = fresh \cup {r}
    /\ Then(r, "decide")
    /\ UNCHANGED <<op, task, pub, platformVars>>

\* validatePromotionSafety finds the plan or the human review invalid, before
\* the decision, with it, or before the submission: the task is held.
SafetyHolds(r) ==
    /\ \/ Phase(r, "prepare") /\ op.status = "none" /\ Promotable
       \/ Phase(r, "decide") /\ op.status = "none" /\ SnapshotValid(r)
       \/ Phase(r, "begin") /\ op.status = "reserved" /\ Scoped(r)
       \/ Phase(r, "finalize") /\ op.status = "confirmed" /\ Scoped(r)
    /\ HoldTask("held_review")
    /\ Return(r)
    /\ UNCHANGED platformVars

\* finalizePromotionDecision with a verdict other than allow.
DecisionHolds(r) ==
    /\ Phase(r, "decide")
    /\ op.status = "none"
    /\ SnapshotValid(r)
    /\ HoldTask("held_pds")
    /\ Return(r)
    /\ UNCHANGED platformVars

\* The verdict is allow: reserve.  An operation that another item reserved
\* meanwhile is a conflict, which fails the handler.
ReservePromotionOperation(r) ==
    /\ Phase(r, "decide")
    /\ op.status = "none"
    /\ SnapshotValid(r)
    /\ op' = [status |-> "reserved", item |-> held[r].item]
    /\ Then(r, "begin")
    /\ UNCHANGED <<task, pub, fresh, platformVars>>

-----------------------------------------------------------------------------
(* Submission *)

\* UPDATE ... SET status = 'submitting' WHERE status = 'reserved'
BeginPromotionSubmission(r) ==
    /\ Phase(r, "begin")
    /\ Scoped(r)
    /\ op' = [op EXCEPT !.status = IF @ = "reserved" THEN "submitting" ELSE @]
    /\ Then(r, IF op.status = "reserved" THEN "submit" ELSE Resume(op.status))
    /\ UNCHANGED <<task, pub, fresh, platformVars>>

\* The request leaves for YouTubeManager, whoever leads by now.
SchedulePublish(r) ==
    /\ AtStep(r, "submit")
    /\ posts' = posts + 1
    /\ wire' = wire + 1
    /\ Proceed(r, "await")
    /\ UNCHANGED <<leadershipVars, rowVars, remote>>

\* YouTubeManager carries a request out, however late, or loses it.
ManagerApplies ==
    /\ wire > 0
    /\ wire' = wire - 1
    /\ remote' = "target"
    /\ UNCHANGED <<queueVars, rowVars, step, posts>>

ManagerLoses ==
    /\ wire > 0
    /\ wire' = wire - 1
    /\ UNCHANGED <<queueVars, rowVars, step, remote, posts>>

ScheduleAccepted(r) ==
    /\ AtStep(r, "await")
    /\ remote = "target"
    /\ Proceed(r, "confirm")
    /\ UNCHANGED <<leadershipVars, rowVars, platformVars>>

\* An error, a lost response or a timeout: the outcome is unknown.
ScheduleFails(r) ==
    /\ AtStep(r, "await")
    /\ Proceed(r, "reconcile")
    /\ UNCHANGED <<leadershipVars, rowVars, platformVars>>

-----------------------------------------------------------------------------
(* Reconciliation, confirmation, finalization *)

ReconcilePromotionOperation(r) ==
    /\ Phase(r, "reconcile")
    /\ Scoped(r)
    /\ Then(r, IF op.status \in {"confirmed", "finalized"} THEN "finalize"
                                                           ELSE "status")
    /\ UNCHANGED <<rowVars, platformVars>>

\* Mutant: an answer is taken for a match whatever privacy it shows.
StatusMatchesAnything == TRUE

\* observedPrivacy(status.Privacy) == operation.TargetPrivacy
StatusMatches == remote = "target"

\* PublicationStatus answers; a severe status or an error is no match.
PublicationStatus(r) ==
    /\ AtStep(r, "status")
    /\ \/ StatusMatches /\ Proceed(r, "confirm")
       \/ Proceed(r, "uncertain")
    /\ UNCHANGED <<leadershipVars, rowVars, platformVars>>

ConfirmPromotionOperation(r) ==
    /\ Phase(r, "confirm")
    /\ Scoped(r)
    /\ op.status \in {"submitting", "uncertain", "confirmed"}
    /\ op' = [op EXCEPT !.status = "confirmed"]
    /\ Then(r, "finalize")
    /\ UNCHANGED <<task, pub, fresh, platformVars>>

MarkPromotionOperationUncertain(r) ==
    /\ Phase(r, "uncertain")
    /\ Scoped(r)
    /\ op.status \in {"submitting", "uncertain"}
    /\ op' = [op EXCEPT !.status = "uncertain"]
    /\ Then(r, "hold")
    /\ UNCHANGED <<task, pub, fresh, platformVars>>

\* The task is held and the handler returns ErrPromotionOutcomeUncertain.
HoldPromotionOperationUncertain(r) ==
    /\ Phase(r, "hold")
    /\ Scoped(r)
    /\ IF Promotable THEN HoldTask("held_uncertain") ELSE UNCHANGED rowVars
    /\ Goto(r, "failed")
    /\ Leave(r)
    /\ UNCHANGED <<itemVars, loopVars, faults, platformVars>>

Published ==
    /\ op' = [op EXCEPT !.status = "finalized"]
    /\ task' = "scheduled"
    /\ pub' = "scheduled"
    /\ fresh' = {}

\* PromotePublication, the metric schedules, the reconcile item and the
\* operation's status are written in one transaction.
FinalizePromotionOperation(r) ==
    /\ Phase(r, "finalize")
    /\ Scoped(r)
    /\ op.status = "confirmed"
    /\ IF pub # "rejected" /\ Promotable THEN Published ELSE UNCHANGED rowVars
    /\ Return(r)
    /\ UNCHANGED platformVars

-----------------------------------------------------------------------------
(* The operator *)

\* POST /publications/{id}/promote: review evidence is written, a policy hold
\* is lifted, and the item is enqueued once.
OperatorPromotes ==
    /\ ChannelUnlocked
    /\ pub = "uploaded"
    /\ task \in {"uploaded_private", "held_pds"}
    /\ q[ManualItem].status \notin Terminal
    /\ task' = "uploaded_private"
    /\ fresh' = {}
    /\ q' = Enqueued(ManualItem)
    /\ UNCHANGED <<leadershipVars, stamp, run, effect, unacked, lost, picked,
                   pc, loopVars, faults, op, pub, step, platformVars>>

RejectGuard == pub \in {"uploaded", "held", "rejected"}

Queued == {i \in Item : q[i].status = "queued"}

\* POST /publications/{id}/reject locks the channel, checks the publication and
\* reads its queued items.
OperatorReads ==
    /\ RejectGuard
    /\ OperatorSelects(Queued)
    /\ UNCHANGED <<rowVars, step, platformVars>>

\* It writes the rows, and cancels what it read whatever became of it since.
\* A request that found nothing queued meets nobody between its steps.
OperatorRejects ==
    /\ RejectGuard
    /\ pub' = "rejected"
    /\ task' = "rejected"
    /\ fresh' = {}
    /\ \/ OperatorCancels
       \/ Queued = {} /\ ChannelUnlocked /\ UNCHANGED queueVars
    /\ UNCHANGED <<op, step, platformVars>>

OperatorGivesUp ==
    OperatorAborts /\ UNCHANGED <<rowVars, step, platformVars>>

-----------------------------------------------------------------------------
(* Specification *)

\* A collaborator's error, a stale snapshot or a conflicting operation.
PromotionFails(r) == HandlerFails(r) /\ Leave(r)

PromotionStep(r) ==
    \/ PrepareSkips(r)
    \/ PrepareResumes(r)
    \/ PreparePromotion(r)
    \/ SafetyHolds(r)
    \/ DecisionHolds(r)
    \/ ReservePromotionOperation(r)
    \/ BeginPromotionSubmission(r)
    \/ SchedulePublish(r)
    \/ ScheduleAccepted(r)
    \/ ScheduleFails(r)
    \/ ReconcilePromotionOperation(r)
    \/ PublicationStatus(r)
    \/ ConfirmPromotionOperation(r)
    \/ MarkPromotionOperationUncertain(r)
    \/ HoldPromotionOperationUncertain(r)
    \/ FinalizePromotionOperation(r)
    \/ PromotionFails(r) /\ UNCHANGED <<rowVars, platformVars>>

\* The loop of OpsQueue; a handler starts when it enters "handling".
PromotionLoop(r) ==
    /\ LoopStep(r) \/ LeaderStep(r)
    /\ step' = [step EXCEPT ![r] = IF pc'[r] # "handling" THEN "none"
                                   ELSE IF pc[r] = "handling" THEN @
                                   ELSE "prepare"]
    /\ UNCHANGED <<rowVars, platformVars>>

PromotionNext ==
    \/ \E r \in Runner : PromotionStep(r) \/ PromotionLoop(r)
    \/ OperatorPromotes
    \/ OperatorReads
    \/ OperatorRejects
    \/ OperatorGivesUp
    \/ ManagerApplies
    \/ ManagerLoses

PromotionSpec == PromotionInit /\ [][PromotionNext]_promotionVars

-----------------------------------------------------------------------------
(* Properties *)

\* YouTubeManager is asked at most once to schedule a publication, whatever
\* retries, takeovers, lost answers and operator requests surround the call.
SubmittedAtMostOnce == posts <= 1

\* The database never claims a promotion that YouTube does not show: a
\* confirmed operation and a scheduled publication were observed or accepted.
ScheduledMeansPromoted ==
    op.status \in {"confirmed", "finalized"} \/ pub = "scheduled" =>
        remote = "target"

\* A publication the operator rejected stays rejected: no phase of a handler
\* that prepared earlier holds, revives or publishes it.
RejectionIsFinal ==
    [][pub = "rejected" => pub' = "rejected" /\ task' = "rejected"]_promotionVars

\* A submission starts only for a task that waits for promotion at that very
\* moment, although its state was read phases earlier.
SubmitsOnlyUploaded ==
    [][op.status = "reserved" /\ op'.status = "submitting" =>
            task = "uploaded_private" /\ pub = "uploaded"]_promotionVars

\* Once finalized, neither a late attempt nor the operator changes the rows.
FinalizedIsFinal ==
    [][op.status = "finalized" => UNCHANGED <<op, task, pub>>]_promotionVars

\* Rejecting an uploaded publication keeps it unpromoted on YouTube: the
\* endpoint refuses what "cannot be safely rejected".
RejectedStaysUnpromoted ==
    [][pub = "rejected" /\ remote = "private" => remote' = "private"]_promotionVars
==============================================================================
