---------------------------- MODULE OwnedInventory ----------------------------
(***************************************************************************)
(* The owned seed inventory of a channel and the evidence it is judged by: *)
(* services/owned_seed_inventory.py, owned_seed_inventory_history.py,      *)
(* owned_inventory_feedback.py, owned_inventory_recovery.py,               *)
(* owned_producer_fence.py and channel_agent/owned_inventory.py.           *)
(*                                                                         *)
(* chan      the channel: how it produces (from an owned inventory, from   *)
(*           its own candidates, or from external assets under human       *)
(*           review), halted_at, intake_paused_at, and its configuration   *)
(*           and that of its lane and format against the ones the          *)
(*           inventory was approved for                                    *)
(* inv       the inventory's state, and whether its hold is the            *)
(*           recoverable one (a worker identity in Redis)                  *)
(* item[t]   inventory item t; task[t] the production task made from it:   *)
(*           state, guard it is held by, bound job, expected approved      *)
(*           revision, stored plan policy, revision of the promotion review*)
(* q[k, t]   the queue item of kind k for task t; dirty[t]: a queue item   *)
(*           of t was retried, dead-lettered or cancelled, which its       *)
(*           history shows for good; polls[t]: observe_count               *)
(* pub, promo, pposts  publication record, promotion operation, promotion  *)
(*           requests sent                                                 *)
(* met       the metric schedule (one of its five stages)                  *)
(* over, cool  the inventory's window ended; the day after an upload ended *)
(***************************************************************************)
EXTENDS UploadOperation

VARIABLES chan, inv, item, task, q, dirty, polls, pub, promo, pposts, met, over, cool

inventoryVars == <<chan, inv, item>>
clockVars == <<over, cool>>
recordVars == <<pub, promo, pposts, met>>
agentVars == <<inventoryVars, task, q, dirty, polls, recordVars, clockVars>>

Kinds == {"plan", "execute", "observe", "publish", "promote", "reconcile", "metrics"}
Nothing == [st |-> "none", att |-> 0]
NoTask == [st |-> "none", why |-> "none", job |-> 0, exp |-> 0, pol |-> FALSE, prm |-> 0]

AgentTypeOK ==
    /\ chan \in [kind : {"owned", "plain", "external"}, halted : BOOLEAN, paused : BOOLEAN,
                 cfg : {"same", "changed", "dry"}, lane : {"same", "changed"}]
    /\ inv \in [st : {"none", "draft", "approved", "exhausted", "held", "expired", "revoked"},
                redis : BOOLEAN]
    /\ item \in [Tasks -> {"unused", "reserved", "completed"}]
    /\ task \in [Tasks -> [st : {"none", "selected", "planning", "producing", "uploaded_private",
                                 "scheduled", "measured", "held", "failed", "rejected"},
                           why : {"none", "review", "policy", "other"}, job : 0 .. MaxJobs,
                           exp : 0 .. MaxRev, pol : BOOLEAN, prm : 0 .. MaxRev]]
    /\ q \in [Kinds \X Tasks -> [st : {"none", "queued", "running", "succeeded", "dead", "cancelled"},
                                 att : Nat]]
    /\ dirty \in [Tasks -> BOOLEAN] /\ polls \in [Tasks -> Nat]
    /\ pub \in [Tasks -> {"none", "uploaded", "scheduled", "rejected", "removed"}]
    /\ promo \in [Tasks -> {"none", "submitting", "uncertain", "finalized"}]
    /\ pposts \in [Tasks -> Nat]
    /\ met \in [Tasks -> {"none", "pending", "due", "late", "succeeded", "expired"}]
    /\ over \in BOOLEAN /\ cool \in [Tasks -> BOOLEAN]

AgentInit ==
    /\ chan \in [kind : {"owned", "plain", "external"}, halted : {FALSE}, paused : {TRUE}, cfg : {"same"},
                 lane : {"same"}]
    /\ inv = [st |-> "none", redis |-> FALSE]
    /\ item = [t \in Tasks |-> "unused"]
    /\ task = [t \in Tasks |-> NoTask]
    /\ q = [x \in Kinds \X Tasks |-> Nothing]
    /\ dirty = [t \in Tasks |-> FALSE] /\ polls = [t \in Tasks |-> 0]
    /\ pub = [t \in Tasks |-> "none"] /\ promo = [t \in Tasks |-> "none"]
    /\ pposts = [t \in Tasks |-> 0] /\ met = [t \in Tasks |-> "none"]
    /\ over = FALSE /\ cool = [t \in Tasks |-> FALSE]

Owned == chan.kind = "owned"
Used == {t \in Tasks : item[t] # "unused"}
Unused == Tasks \ Used
Next1(S) == CHOOSE t \in S : \A u \in S : t <= u
Live == inv.st \in {"approved", "exhausted"}
Closed == inv.st \in {"held", "expired", "revoked"}

-----------------------------------------------------------------------------
(* What the history says of one used item, from its persisted rows. *)

Broken(t) ==
    \/ task[t].st \notin {"selected", "planning", "producing", "scheduled", "uploaded_private", "measured"}
    \/ dirty[t]
    \/ job[BoundJob(t)].st = "failed"

(* _pending_promotion, in the queue Q *)
PendingPromotion(Q, t) ==
    /\ task[t].st = "uploaded_private"
    /\ Q[<<"promote", t>>].st \in {"queued", "running"}
    /\ Q[<<"publish", t>>].st \in {"running", "succeeded"}
    /\ Q[<<"reconcile", t>>].st = "none" /\ Q[<<"metrics", t>>].st = "none"

(* Mutant: a promoted publication counts as reconciled. *)
ReconciledIfPromoted(Q, t) == IF Q[<<"promote", t>>].st = "succeeded" THEN "yes" ELSE "no"

(* _reconciled: its answer, or an error *)
Reconciled(Q, t) ==
    CASE Q[<<"promote", t>>].st = "running" /\ Q[<<"reconcile", t>>].st = "queued" -> "no"
      [] Q[<<"promote", t>>].st # "succeeded" \/ Q[<<"reconcile", t>>].st = "none" -> "error"
      [] OTHER -> IF Q[<<"reconcile", t>>].st = "succeeded" THEN "yes" ELSE "no"

(* _metrics_ready and the day's distance between uploads *)
Settling(t) ==
    CASE met[t] \in {"none", "late", "expired"} -> "error"
      [] ~cool[t] -> "cooldown"
      [] met[t] = "due" -> "metrics"
      [] OTHER -> "clean"

(* _normal_history *)
HistoryIn(Q, t) ==
    LET j == BoundJob(t)
        whenReserved(ok) == IF item[t] = "reserved" /\ ok THEN "outstanding" ELSE "error"
    IN CASE Broken(t) -> "error"
         [] op[j].st # "succeeded" -> whenReserved(op[j].st \in {"none", "reserved", "submitted"})
         [] job[j].st # "succeeded" -> whenReserved(job[j].st = "running")
         [] pub[t] = "none" -> whenReserved(TRUE)
         [] pub[t] = "uploaded" -> whenReserved(PendingPromotion(Q, t))
         [] pub[t] # "scheduled" -> "error"
         [] Reconciled(Q, t) = "error" -> "error"
         [] Reconciled(Q, t) = "no" -> "outstanding"
         [] OTHER -> Settling(t)

History(t) == HistoryIn(q, t)

FailsIn(Q) == \E t \in Used : HistoryIn(Q, t) = "error"
HistoryFails == FailsIn(q)

FinishedIn(Q) == {t \in Used : item[t] = "reserved" /\ HistoryIn(Q, t) \in {"metrics", "cooldown", "clean"}}
FinishedItems == FinishedIn(q)
Settle(S) == [t \in Tasks |-> IF t \in S THEN "completed" ELSE item[t]]

-----------------------------------------------------------------------------
(* Who may still produce. *)

Running == ~chan.halted /\ chan.cfg # "dry"

(* The digests of channel, account, lane and format, of the seeds and the  *)
(* assets are the ones of the approved manifest.                           *)
SameConfiguration == chan.cfg = "same" /\ chan.lane = "same"

(* producer_identity: the inventory, the channel and the task are as       *)
(* approved.                                                               *)
ProducerIdentity(t) ==
    /\ Live /\ ~over /\ item[t] = "reserved"
    /\ ~chan.halted /\ SameConfiguration /\ (chan.paused => inv.st = "exhausted")
    /\ task[t].st \in {"selected", "planning", "producing", "uploaded_private", "scheduled"}

(* assess_producer: every other used item is settled. *)
OthersSettled(t) == \A u \in Used \ {t} : History(u) = "clean"

Authority(t) == ProducerIdentity(t) /\ OthersSettled(t)

(* The same authority as the database functions compute it for the upload  *)
(* worker, which does not run the Python checks.                           *)

(* vp_owned_producer_normal: the upload of an earlier item and its         *)
(* publication, its promotion and reconciliation, its metrics and its day. *)
UploadedRow(t) ==
    /\ task[t].st \in {"selected", "planning", "producing", "scheduled", "uploaded_private", "measured"}
    /\ op[BoundJob(t)].st = "succeeded" /\ job[BoundJob(t)].st = "succeeded"
    /\ node[BoundJob(t)] = "succeeded" /\ pub[t] = "scheduled"
PromotedRow(t) ==
    /\ q[<<"reconcile", t>>].st = "succeeded" /\ q[<<"promote", t>>].st = "succeeded"
    /\ ~dirty[t]
MeasuredRow(t) == met[t] \in {"pending", "succeeded"} /\ cool[t]

(* vp_owned_producer_history *)
UploadHistory(t) == \A u \in Used \ {t} : UploadedRow(u) /\ PromotedRow(u) /\ MeasuredRow(u)

(* vp_owned_producer_upload: the inventory, the channel, the task bound to *)
(* this job and the plan approved at the revision the task carries; then   *)
(* the job and the node themselves, which was never retried.               *)
UploadProducer(j) ==
    LET t == j[1] IN
    /\ Live /\ ~over /\ item[t] = "reserved"
    /\ ~chan.halted /\ SameConfiguration /\ (chan.paused => inv.st = "exhausted")
    /\ task[t].st = "producing" /\ task[t].job = j[2] /\ task[t].pol
    /\ ExpectedAuthority(plan[t], task[t].exp)
UploadLineage(j) == job[j].st = "running" /\ node[j] = "running" /\ ~retried[j]

UploadAuthority(j) == Owned => UploadHistory(j[1]) /\ UploadProducer(j) /\ UploadLineage(j)

(* owned_inventory.assess: what makes a tick hold the inventory... *)
TickFails == over \/ ~SameConfiguration \/ HistoryFails

QueuesSafe == \A x \in Kinds \X Tasks : q[x].st \in {"queued", "running"} => x[1] = "metrics"
Busy == \/ \E j \in Jobs : job[j].st \in {"waiting", "running"}
        \/ \E t \in Tasks : task[t].st \in {"selected", "planning", "producing"}
        \/ ~QueuesSafe

(* Mutant: the history of the items already used is not asked. *)
ReadyWhenIdle ==
    /\ Unused # {} /\ sched = "OPEN" /\ ~Busy /\ ~chan.paused /\ ~chan.halted

(* ... and what makes it admit the next unused item *)
Ready ==
    /\ Unused # {} /\ \A t \in Used : History(t) = "clean"
    /\ sched = "OPEN" /\ ~Busy /\ ~chan.paused /\ ~chan.halted

-----------------------------------------------------------------------------
(* Changes of the inventory. *)

Paused == [chan EXCEPT !.paused = TRUE]
HeldInventory(st) == IF Live THEN [inv EXCEPT !.st = st] ELSE inv

(* create_inventory: a draft, on a channel whose intake is paused *)
CreateInventory ==
    /\ Owned /\ inv.st = "none" /\ Free /\ Running /\ chan.paused /\ ~over
    /\ inv' = [inv EXCEPT !.st = "draft"]
    /\ UNCHANGED <<chan, item>>

(* approve_inventory and _activate_inventory *)
ApproveInventory ==
    /\ inv.st = "draft" /\ Free /\ Running /\ SameConfiguration /\ chan.paused /\ ~over
    /\ inv' = [inv EXCEPT !.st = "approved"]
    /\ UNCHANGED <<chan, item>>

(* revoke_inventory, in any state *)
RevokeInventory ==
    /\ inv.st \notin {"none", "revoked"} /\ Free
    /\ inv' = [inv EXCEPT !.st = "revoked"]
    /\ chan' = IF inv.st = "draft" THEN chan ELSE Paused
    /\ UNCHANGED item

(* The intake of an approved inventory is opened by hand. *)
OpenIntake ==
    /\ chan.paused /\ Free /\ (Owned => inv.st = "approved")
    /\ chan' = [chan EXCEPT !.paused = FALSE]
    /\ UNCHANGED <<inv, item>>

(* require_recoverable_state: only a hold for a worker identity *)
RecoverableState == inv.st = "held" /\ inv.redis /\ ~over

(* _check_scope: before anything was used, with the schedule closed *)
RecoveryScope ==
    /\ RecoverableState
    /\ chan.paused /\ Running /\ SameConfiguration
    /\ sched = "CLOSED" /\ Used = {}

(* vp_recover_owned_inventory: the hold and the pause go together. *)
ReleaseHold ==
    /\ RecoveryScope
    /\ inv' = [st |-> "approved", redis |-> FALSE]
    /\ chan' = [chan EXCEPT !.paused = FALSE]

(* recover_inventory, with the checks of prepare_recovery *)
RecoverInventory ==
    /\ Free /\ QueuesSafe
    /\ ReleaseHold
    /\ UNCHANGED item

(* check_owned_inventory_feedback with apply: what the soak guard runs     *)
(* periodically.  It completes what the history shows finished, ends an    *)
(* inventory whose window is over and holds one that cannot go on.         *)
FeedbackReason ==
    CASE Running /\ ~SameConfiguration -> "held"
      [] HistoryFails \/ ~Running -> "held"
      [] Live /\ over -> "expired"
      [] Closed -> "held"
      [] OTHER -> "none"

FeedbackCompletes == IF Running /\ SameConfiguration /\ ~HistoryFails THEN FinishedItems ELSE {}

Feedback ==
    LET reason == FeedbackReason
        done == Settle(FeedbackCompletes)
        after == IF reason # "none" THEN HeldInventory(reason)
                 ELSE IF inv.st = "approved" /\ Unused = {} THEN [inv EXCEPT !.st = "exhausted"]
                 ELSE inv
    IN /\ inv.st \notin {"none", "draft"} /\ Free
       /\ item' = done
       /\ inv' = after
       /\ chan' = IF reason # "none" \/ after.st # "approved" THEN Paused ELSE chan

(* finalize_owned_inventory_items, called with the queue as it will be: it *)
(* completes the item of the publication, or holds the inventory when the  *)
(* history does not add up.                                                *)
FinalizeItems(t, Q) ==
    /\ item' = IF FailsIn(Q) THEN item ELSE Settle(FinishedIn(Q) \cap {t})
    /\ inv' = IF FailsIn(Q) THEN HeldInventory("held") ELSE inv
    /\ chan' = IF FailsIn(Q) THEN Paused ELSE chan

=============================================================================
