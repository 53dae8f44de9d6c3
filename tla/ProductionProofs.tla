--------------------------- MODULE ProductionProofs ---------------------------
(***************************************************************************)
(* Proofs about Production, for any number of items, revisions, jobs,      *)
(* workers, attempts and faults: what leaves the system leaves it at most  *)
(* once, and only with the authority of the moment it leaves.              *)
(*                                                                         *)
(* The argument has three parts.  An attempt is committed before it is     *)
(* made and never forgotten (UploadInv, PromotionInv).  What entitles to   *)
(* it is checked under the fence, and nobody changes any of it while the   *)
(* fence is held (FenceInv).  The revision the upload's check compares is  *)
(* the one the job was created from (BoundInv).                            *)
(***************************************************************************)
EXTENDS Production, WellFoundedInduction, TLAPS

-----------------------------------------------------------------------------
(* The upload: its attempt is committed before the request is made. *)

UploadShape ==
    /\ DOMAIN op = Jobs /\ \A j \in Jobs : DOMAIN op[j] = {"st", "att"}
    /\ DOMAIN wk = Workers /\ \A w \in Workers : DOMAIN wk[w] = {"pc", "j", "ack"} /\ wk[w].j \in Jobs
    /\ posts \in [Jobs -> Nat]

\* A worker between the commit of its attempt and its request.
Posting(w) == wk[w].pc \in {"attempted", "post"}

OnePost ==
    /\ \A j \in Jobs : posts[j] > 0 => (posts[j] = 1 /\ op[j].att)
    /\ \A w \in Workers : Posting(w) => (posts[wk[w].j] = 0 /\ op[wk[w].j].att)
    /\ \A v, w \in Workers : (Posting(v) /\ Posting(w) /\ wk[v].j = wk[w].j) => v = w

UploadInv == UploadShape /\ OnePost

LEMMA IdleShape == DOMAIN Idle = {"pc", "j", "ack"} /\ Idle.pc = "idle" /\ Idle.j \in Jobs
  BY ItemsAssumption, RevAssumption, SMTT(30) DEF Idle, BoundJob, Jobs, Tasks

\* How a step of worker w leaves handlers and rows.
Moved(w) ==
    /\ DOMAIN wk' = Workers
    /\ \A v \in Workers : DOMAIN wk'[v] = {"pc", "j", "ack"} /\ wk'[v].j \in Jobs
    /\ \A v \in Workers \ {w} : wk'[v] = wk[v]

Remembered ==
    /\ DOMAIN op' = Jobs
    /\ \A j \in Jobs : DOMAIN op'[j] = {"st", "att"} /\ (op[j].att => op'[j].att)

\* A step that brings no worker nearer to its request and forgets no
\* attempt keeps the invariant.
LEMMA NoPost ==
    ASSUME UploadInv, NEW w \in Workers, Moved(w), Remembered,
           wk'[w].pc \notin {"attempted", "post"}, posts' = posts
    PROVE  UploadInv'
<1>1. UploadShape'
  BY ZenonT(30) DEF UploadInv, UploadShape, Moved, Remembered
<1>2. \A v \in Workers : Posting(v)' => (v # w /\ Posting(v) /\ wk'[v] = wk[v])
  BY ZenonT(30) DEF Posting, Moved
<1>3. \A j \in Jobs : posts'[j] > 0 => (posts'[j] = 1 /\ op'[j].att)
  BY ZenonT(30) DEF UploadInv, OnePost, Remembered
<1>4. \A v \in Workers : Posting(v)' => (posts'[wk'[v].j] = 0 /\ op'[wk'[v].j].att)
  BY <1>2, SMTT(30) DEF UploadInv, UploadShape, OnePost, Remembered
<1>5. \A u, v \in Workers : (Posting(u)' /\ Posting(v)' /\ wk'[u].j = wk'[v].j) => u = v
  BY <1>2, SMTT(30) DEF UploadInv, OnePost
<1> QED
  BY <1>1, <1>3, <1>4, <1>5, ZenonT(30) DEF UploadInv, OnePost

\* What the transitions do to the row, and the moves to the handler.
LEMMA RowKept == ASSUME UploadInv, NEW w \in Workers, NEW st, SetOp(w, st)  PROVE Remembered
  BY ZenonT(30) DEF UploadInv, UploadShape, SetOp, SetRow, Remembered

LEMMA RowUnchanged == ASSUME UploadInv, UNCHANGED op  PROVE Remembered
  BY ZenonT(30) DEF UploadInv, UploadShape, Remembered

LEMMA LeaveMoves ==
    ASSUME UploadInv, NEW w \in Workers, Leave(w)
    PROVE  Moved(w) /\ wk'[w].pc = "idle"
  BY IdleShape, ZenonT(30) DEF UploadInv, UploadShape, Leave, Moved

LEMMA GotoMoves ==
    ASSUME UploadInv, NEW w \in Workers, NEW place, Goto(w, place)
    PROVE  Moved(w) /\ wk'[w].pc = place /\ wk'[w].j = wk[w].j
  BY ZenonT(30) DEF UploadInv, UploadShape, Goto, Moved

\* A raised handler forgets nothing the row knows.
LEMMA RaiseKeeps ==
    ASSUME UploadInv, NEW w \in Workers, Raise(w), posts' = posts,
           UNCHANGED op \/ SetOp(w, "failed") \/ SetOp(w, "uncertain")
    PROVE  UploadInv'
<1>1. Remembered
  BY RowKept, RowUnchanged, ZenonT(30)
<1>2. Moved(w) /\ wk'[w].pc = "idle"
  BY LeaveMoves, ZenonT(30) DEF Raise
<1> QED
  BY <1>1, <1>2, NoPost, ZenonT(30)

\* Only MarkAttempting, AcquireFence and PostUpload touch the promise; each
\* finds what it needs in the row.
LEMMA Actions == \A o : ActionFor(o) \in {"submit", "poll", "finish", "block"}
  BY ZenonT(30) DEF ActionFor

LEMMA WorkerUploadInv ==
    ASSUME UploadInv, NEW w \in Workers, WorkerStep(w) \/ WorkerFault(w)
    PROVE  UploadInv'
<1> DEFINE j == wk[w].j
<1>0. j \in Jobs
  BY ZenonT(30) DEF UploadInv, UploadShape
<1>1. ASSUME NEW i \in Jobs, ClaimNode(w, i)  PROVE UploadInv'
  <2>1. Moved(w) /\ wk'[w].pc = "claimed"
    BY <1>1, IdleShape, ZenonT(30) DEF ClaimNode, UploadInv, UploadShape, Moved
  <2>2. UNCHANGED <<op, posts>>
    BY <1>1, ZenonT(30) DEF ClaimNode
  <2> QED
    BY <2>1, <2>2, RowUnchanged, NoPost, ZenonT(30)
<1>2. ASSUME NEW ok, ReserveOperation(w, ok)  PROVE UploadInv'
  <2>0. posts' = posts
    BY <1>2, ZenonT(30) DEF ReserveOperation
  <2>1. CASE Raise(w) /\ UNCHANGED op
    BY <2>0, <2>1, RaiseKeeps, ZenonT(30)
  <2>2. CASE ~(Raise(w) /\ UNCHANGED op)
    <3>1. ActionFor(op[j]) \in {"submit", "poll", "finish"} /\ Goto(w, ActionFor(op[j]))
      BY <1>2, <2>2, Actions, ZenonT(30) DEF ReserveOperation
    <3>2. UNCHANGED op \/ SetOp(w, "reserved")
      BY <1>2, <2>2, ZenonT(30) DEF ReserveOperation, ReserveRow
    <3>3. Remembered
      BY <3>2, RowKept, RowUnchanged, ZenonT(30)
    <3>4. Moved(w) /\ wk'[w].pc \notin {"attempted", "post"}
      BY <3>1, GotoMoves, ZenonT(30)
    <3> QED
      BY <2>0, <3>3, <3>4, NoPost, ZenonT(30)
  <2> QED
    BY <2>1, <2>2, ZenonT(30)
<1>3. ASSUME NEW ok, NEW preflight, MarkAttempting(w, ok, preflight)  PROVE UploadInv'
  <2>0. posts' = posts
    BY <1>3, ZenonT(30) DEF MarkAttempting
  <2>1. CASE Raise(w) /\ (UNCHANGED op \/ SetOp(w, "failed"))
    BY <2>0, <2>1, RaiseKeeps, ZenonT(30)
  <2>2. CASE ~(Raise(w) /\ (UNCHANGED op \/ SetOp(w, "failed")))
    <3>1. /\ op[j] = [st |-> "reserved", att |-> FALSE]
          /\ SetRow(w, [op[j] EXCEPT !.att = TRUE])
          /\ Goto(w, "attempted")
      BY <1>3, <2>2, ZenonT(30) DEF MarkAttempting, PreflightFails, MarkTerminal
    <3>2. Remembered /\ op'[j].att
      BY <1>0, <3>1, ZenonT(30) DEF SetRow, UploadInv, UploadShape, Remembered
    <3>3. ~op[j].att
      BY <3>1, SMTT(30)
    <3>4. posts[j] = 0 /\ \A v \in Workers : Posting(v) => wk[v].j # j
      BY <1>0, <3>3, SMTT(30) DEF UploadInv, UploadShape, OnePost
    <3>5. Moved(w) /\ wk'[w].j = j
      BY <3>1, GotoMoves, ZenonT(30)
    <3>6. \A v \in Workers \ {w} : Posting(v)' => (Posting(v) /\ wk'[v].j = wk[v].j)
      BY <3>5, ZenonT(30) DEF Posting, Moved
    <3>7. UploadShape'
      BY <2>0, <3>2, <3>5, ZenonT(30) DEF UploadInv, UploadShape, Moved, Remembered
    <3>8. \A i \in Jobs : posts'[i] > 0 => (posts'[i] = 1 /\ op'[i].att)
      BY <2>0, <3>2, ZenonT(30) DEF UploadInv, OnePost, Remembered
    <3>9. \A v \in Workers : Posting(v)' => (posts'[wk'[v].j] = 0 /\ op'[wk'[v].j].att)
      BY <2>0, <3>2, <3>4, <3>5, <3>6, SMTT(30) DEF UploadInv, UploadShape, OnePost, Remembered
    <3>10. \A u, v \in Workers : (Posting(u)' /\ Posting(v)' /\ wk'[u].j = wk'[v].j) => u = v
      BY <3>4, <3>5, <3>6, SMTT(30) DEF UploadInv, OnePost
    <3> QED
      BY <3>7, <3>8, <3>9, <3>10, ZenonT(30) DEF UploadInv, OnePost
  <2> QED
    BY <2>1, <2>2, ZenonT(30)
<1>4. ASSUME NEW ok, AcquireFence(w, ok)  PROVE UploadInv'
  <2>0. UNCHANGED <<op, posts>>
    BY <1>4, ZenonT(30) DEF AcquireFence
  <2>1. CASE Raise(w)
    BY <2>0, <2>1, RaiseKeeps, ZenonT(30)
  <2>2. CASE ~Raise(w)
    <3>1. Posting(w) /\ Goto(w, "post")
      BY <1>4, <2>2, ZenonT(30) DEF AcquireFence, Posting
    <3>2. Moved(w) /\ \A v \in Workers : wk'[v].j = wk[v].j /\ (Posting(v)' => Posting(v))
      BY <3>1, GotoMoves, ZenonT(30) DEF Posting, Moved
    <3>3. UploadShape'
      BY <2>0, <3>2, ZenonT(30) DEF UploadInv, UploadShape, Moved
    <3>4. OnePost'
      BY <2>0, <3>2, ZenonT(30) DEF UploadInv, OnePost
    <3> QED
      BY <3>3, <3>4, ZenonT(30) DEF UploadInv
  <2> QED
    BY <2>1, <2>2, ZenonT(30)
<1>5. ASSUME NEW ack, PostUpload(w, ack)  PROVE UploadInv'
  <2>1. Posting(w) /\ posts[j] = 0 /\ op[j].att
    BY <1>5, ZenonT(30) DEF PostUpload, Posting, UploadInv, OnePost
  <2>2. /\ posts' \in [Jobs -> Nat] /\ posts'[j] = 1
        /\ \A i \in Jobs \ {j} : posts'[i] = posts[i]
    BY <1>0, <1>5, <2>1, SMTT(30) DEF PostUpload, UploadInv, UploadShape
  <2>3. Moved(w) /\ wk'[w].pc = "posted"
    BY <1>5, ZenonT(30) DEF PostUpload, UploadInv, UploadShape, Moved
  <2>4. op' = op
    BY <1>5, ZenonT(30) DEF PostUpload
  <2>5. \A v \in Workers : Posting(v)' => (v # w /\ Posting(v) /\ wk'[v] = wk[v] /\ wk[v].j # j)
    BY <2>1, <2>3, ZenonT(30) DEF Posting, UploadInv, OnePost, Moved
  <2>6. UploadShape'
    BY <2>2, <2>3, <2>4, ZenonT(30) DEF UploadInv, UploadShape, Moved
  <2>7. \A i \in Jobs : posts'[i] > 0 => (posts'[i] = 1 /\ op'[i].att)
    BY <2>1, <2>2, <2>4, ZenonT(30) DEF UploadInv, OnePost
  <2>8. \A v \in Workers : Posting(v)' => (posts'[wk'[v].j] = 0 /\ op'[wk'[v].j].att)
    BY <2>2, <2>4, <2>5, SMTT(30) DEF UploadInv, UploadShape, OnePost
  <2>9. \A u, v \in Workers : (Posting(u)' /\ Posting(v)' /\ wk'[u].j = wk'[v].j) => u = v
    BY <2>5, SMTT(30) DEF UploadInv, OnePost
  <2> QED
    BY <2>6, <2>7, <2>8, <2>9, ZenonT(30) DEF UploadInv, OnePost
<1>6. CASE RecordAnswer(w)
  <2>0. posts' = posts
    BY <1>6, ZenonT(30) DEF RecordAnswer
  <2>1. CASE wk[w].ack = "ok"
    <3>1. SetOp(w, "submitted") /\ Goto(w, "poll")
      BY <1>6, <2>1, ZenonT(30) DEF RecordAnswer, MarkSubmitted
    <3>2. Remembered /\ Moved(w) /\ wk'[w].pc = "poll"
      BY <3>1, RowKept, GotoMoves, ZenonT(30)
    <3> QED
      BY <2>0, <3>2, NoPost, ZenonT(30)
  <2>2. CASE wk[w].ack # "ok"
    <3>1. Raise(w) /\ (SetOp(w, "failed") \/ SetOp(w, "uncertain"))
      BY <1>6, <2>2, ZenonT(30) DEF RecordAnswer, MarkTerminal
    <3> QED
      BY <2>0, <3>1, RaiseKeeps, ZenonT(30)
  <2> QED
    BY <2>1, <2>2, ZenonT(30)
<1>7. CASE PollManager(w)
  <2>0. posts' = posts
    BY <1>7, ZenonT(30) DEF PollManager
  <2>1. CASE Raise(w) /\ (UNCHANGED op \/ SetOp(w, "failed"))
    BY <2>0, <2>1, RaiseKeeps, ZenonT(30)
  <2>2. CASE ~(Raise(w) /\ (UNCHANGED op \/ SetOp(w, "failed")))
    <3>1. SetOp(w, "succeeded") /\ Goto(w, "finish")
      BY <1>7, <2>2, ZenonT(30) DEF PollManager, MarkSucceededOp, MarkTerminal
    <3>2. Remembered /\ Moved(w) /\ wk'[w].pc = "finish"
      BY <3>1, RowKept, GotoMoves, ZenonT(30)
    <3> QED
      BY <2>0, <3>2, NoPost, ZenonT(30)
  <2> QED
    BY <2>1, <2>2, ZenonT(30)
<1>8. ASSUME NEW uncertain, PollGivesUp(w, uncertain)  PROVE UploadInv'
  <2>1. posts' = posts /\ Raise(w) /\ (UNCHANGED op \/ SetOp(w, "uncertain"))
    BY <1>8, ZenonT(30) DEF PollGivesUp, MarkTerminal
  <2> QED
    BY <2>1, RaiseKeeps, ZenonT(30)
<1>9. CASE FinishNode(w) \/ WorkerCrash(w)
  <2>1. Leave(w) /\ UNCHANGED <<op, posts>>
    BY <1>9, ZenonT(30) DEF FinishNode, WorkerCrash
  <2>2. Remembered /\ Moved(w) /\ wk'[w].pc = "idle"
    BY <2>1, RowUnchanged, LeaveMoves, ZenonT(30)
  <2> QED
    BY <2>1, <2>2, NoPost, ZenonT(30)
<1>10. CASE LeaseEnds(w)
  <2>1. UNCHANGED <<op, wk, posts>>
    BY <1>10, ZenonT(30) DEF LeaseEnds
  <2> QED
    BY <2>1, ZenonT(30) DEF UploadInv, UploadShape, OnePost, Posting
<1> QED
  BY <1>1, <1>2, <1>3, <1>4, <1>5, <1>6, <1>7, <1>8, <1>9, <1>10, ZenonT(30) DEF WorkerStep, WorkerFault

\* What runner and operators leave alone.
LEMMA RunnerFrame == ASSUME RunnerStep \/ HandlerFails \/ RunnerCrash  PROVE UNCHANGED runnerFrame
<1>1. CASE QueueStep \/ TickStep \/ HandlerFails \/ RunnerCrash
  BY <1>1, ZenonT(30) DEF QueueStep, ClaimItem, TickStep, OwnedTick, OwnedTickFinish, PlainTick, HandlerFails,
    RunnerCrash
<1>2. CASE OwnedStep
  BY <1>2, ZenonT(30) DEF OwnedStep, PlanOwned, StorePlanPolicy, ApproveOwnedPlan, FinishPlan, ExecuteOwned,
    FinishExecute, ObserveOwned, PublishOwned, PreparePromotion, ReservePromotion, PromotionFence,
    PostPromotion, SettlePromotion, ReconcileOwned, CollectOwned
<1>3. CASE PlainStep
  BY <1>3, ZenonT(30) DEF PlainStep, PlanPlain, ApprovePlainPlan, CommitPlan, ExecutePlain, BindJob,
    ObservePlain, PublishPlain, CheckPromotion, PostPlain, CommitPromotion, QueueReconcile, ReconcilePlain,
    CollectPlain, MarkSucceeded
<1> QED
  BY <1>1, <1>2, <1>3, ZenonT(30) DEF RunnerStep

LEMMA OperatorFrame == ASSUME OperatorStep  PROVE UNCHANGED operatorFrame
  BY ZenonT(30) DEF OperatorStep, SetHalted, PatchChannel, EditLane, InventoryApi, PlanApi, RejectPublication,
    PromotePublication, ReleaseReview, SetSchedule

\* Nobody but the workers touches an upload.
LEMMA UploadFrame ==
    ASSUME RunnerStep \/ HandlerFails \/ RunnerCrash \/ OperatorStep \/ TimeStep \/ \E j \in Jobs : JobStep(j)
    PROVE  UNCHANGED <<op, wk, posts>>
<1>1. CASE RunnerStep \/ HandlerFails \/ RunnerCrash
  BY <1>1, RunnerFrame, ZenonT(30) DEF runnerFrame
<1>2. CASE OperatorStep
  BY <1>2, OperatorFrame, ZenonT(30) DEF operatorFrame
<1>3. CASE TimeStep \/ \E j \in Jobs : JobStep(j)
  BY <1>3, ZenonT(30) DEF TimeStep, WindowEnds, DayPasses, MetricsDue, MetricsLate, timeFrame, uploadVars,
    JobStep, StartWaiting, CancelJob, ManagerSettles
<1> QED
  BY <1>1, <1>2, <1>3, ZenonT(30)

-----------------------------------------------------------------------------
(* The kind of the channel never changes. *)

KindShape == DOMAIN chan = {"kind", "halted", "paused", "cfg", "lane"}
SameKind == KindShape' /\ chan'.kind = chan.kind

LEMMA PausedKind == ASSUME KindShape  PROVE DOMAIN Paused = DOMAIN chan /\ Paused.kind = chan.kind
  BY ZenonT(30) DEF KindShape, Paused

LEMMA PlainKeepsInventory == ASSUME QueueStep \/ PlainStep  PROVE UNCHANGED inventoryVars
<1>1. CASE QueueStep \/ MarkSucceeded
  BY <1>1, ZenonT(30) DEF QueueStep, ClaimItem, MarkSucceeded
<1>2. CASE PlanPlain \/ (\E allow \in BOOLEAN : ApprovePlainPlan(allow)) \/ CommitPlan
  BY <1>2, ZenonT(30) DEF PlanPlain, ApprovePlainPlan, CommitPlan
<1>3. CASE ExecutePlain \/ BindJob \/ ObservePlain
  BY <1>3, ZenonT(30) DEF ExecutePlain, BindJob, ObservePlain
<1>4. CASE \/ \E quota, usable \in BOOLEAN : PublishPlain(quota, usable)
           \/ \E allow \in BOOLEAN : CheckPromotion(allow)
           \/ \E ok \in BOOLEAN : PostPlain(ok)
  BY <1>4, ZenonT(30) DEF PublishPlain, CheckPromotion, PostPlain
<1>5. CASE \/ CommitPromotion \/ QueueReconcile
           \/ \E removed \in BOOLEAN : ReconcilePlain(removed)
           \/ \E ok \in BOOLEAN : CollectPlain(ok)
  BY <1>5, ZenonT(30) DEF CommitPromotion, QueueReconcile, ReconcilePlain, CollectPlain
<1> QED
  BY <1>1, <1>2, <1>3, <1>4, <1>5, ZenonT(30) DEF PlainStep

LEMMA OwnedChannel == ASSUME OwnedStep  PROVE UNCHANGED chan \/ chan' = Paused
<1>0. (Hold => chan' = Paused) /\ (UNCHANGED inventoryVars => UNCHANGED chan)
  BY ZenonT(30) DEF Hold, inventoryVars
<1>1. CASE PlanOwned \/ (\E allow \in BOOLEAN : StorePlanPolicy(allow)) \/ ApproveOwnedPlan \/ FinishPlan
  BY <1>0, <1>1, ZenonT(30) DEF PlanOwned, StorePlanPolicy, ApproveOwnedPlan, FinishPlan
<1>2. CASE ExecuteOwned \/ FinishExecute \/ ObserveOwned \/ PublishOwned
  BY <1>0, <1>2, ZenonT(30) DEF ExecuteOwned, FinishExecute, ObserveOwned, PublishOwned
<1>3. CASE PreparePromotion \/ (\E allow \in BOOLEAN : ReservePromotion(allow)) \/ PromotionFence
  BY <1>0, <1>3, ZenonT(30) DEF PreparePromotion, ReservePromotion, PromotionFence
<1>4. CASE \E ok \in BOOLEAN : PostPromotion(ok) \/ SettlePromotion(ok)
  BY <1>0, <1>4, ZenonT(30) DEF PostPromotion, SettlePromotion
<1>5. CASE \E ok \in BOOLEAN : ReconcileOwned(ok) \/ CollectOwned(ok)
  BY <1>0, <1>5, ZenonT(30) DEF ReconcileOwned, CollectOwned, FinalizeItems
<1> QED
  BY <1>1, <1>2, <1>3, <1>4, <1>5, ZenonT(30) DEF OwnedStep

LEMMA TickChannel == ASSUME TickStep  PROVE UNCHANGED chan \/ chan' = Paused
  BY ZenonT(30) DEF TickStep, OwnedTick, OwnedTickFinish, PlainTick, TickHolds, TickCompletes, Admit,
    inventoryVars

LEMMA KindKept == ASSUME KindShape, Next  PROVE SameKind
<1>0. (UNCHANGED chan \/ chan' = Paused) => SameKind
  BY PausedKind, ZenonT(30) DEF SameKind, KindShape
<1>1. CASE RunnerStep
  BY <1>0, <1>1, PlainKeepsInventory, OwnedChannel, TickChannel, ZenonT(30) DEF RunnerStep, inventoryVars
<1>2. CASE HandlerFails \/ RunnerCrash \/ TimeStep
  <2>1. UNCHANGED chan
    BY <1>2, ZenonT(30) DEF HandlerFails, RunnerCrash, TimeStep, WindowEnds, DayPasses, MetricsDue,
      MetricsLate, timeFrame, inventoryVars
  <2> QED
    BY <1>0, <2>1, ZenonT(30)
<1>3. CASE \/ \E w \in Workers : WorkerStep(w) \/ WorkerFault(w)
           \/ \E j \in Jobs : JobStep(j)
  <2>1. UNCHANGED chan
    BY <1>3, ZenonT(30) DEF WorkerStep, WorkerFault, JobStep, StartWaiting, agentVars, inventoryVars
  <2> QED
    BY <1>0, <2>1, ZenonT(30)
<1>4. CASE OperatorStep
  <2>1. CASE \/ \E halted \in BOOLEAN : SetHalted(halted)
             \/ \E cfg \in {"changed", "dry"} : PatchChannel(cfg)
             \/ \E lane \in {"same", "changed"} : EditLane(lane)
    BY <2>1, ZenonT(30) DEF SetHalted, PatchChannel, EditLane, SameKind, KindShape
  <2>2. CASE InventoryApi
    <3>1. \/ UNCHANGED chan \/ chan' = Paused
          \/ chan' = [chan EXCEPT !.paused = FALSE]
      BY <2>2, ZenonT(30) DEF InventoryApi, CreateInventory, ApproveInventory, OpenIntake, RecoverInventory,
        ReleaseHold, RevokeInventory, Feedback
    <3> QED
      BY <1>0, <3>1, ZenonT(30) DEF SameKind, KindShape
  <2>3. CASE \/ \E t \in Tasks : PlanApi(t) \/ RejectPublication(t) \/ PromotePublication(t) \/ ReleaseReview(t)
             \/ \E st \in {"OPEN", "DRAINING", "CLOSED"} : SetSchedule(st)
    <3>1. UNCHANGED chan
      BY <2>3, ZenonT(30) DEF PlanApi, RejectPublication, PromotePublication, ReleaseReview, SetSchedule,
        inventoryVars
    <3> QED
      BY <1>0, <3>1, ZenonT(30)
  <2> QED
    BY <1>4, <2>1, <2>2, <2>3, ZenonT(30) DEF OperatorStep
<1> QED
  BY <1>1, <1>2, <1>3, <1>4, ZenonT(30) DEF Next

-----------------------------------------------------------------------------
(* What holds of a channel that produces from an inventory. *)

OwnedShape ==
    /\ DOMAIN task = Tasks
    /\ \A t \in Tasks : DOMAIN task[t] = {"st", "why", "job", "exp", "pol", "prm"}
    /\ DOMAIN job = Jobs /\ \A j \in Jobs : DOMAIN job[j] = {"st", "rev"}
    /\ DOMAIN item = Tasks
    /\ DOMAIN rn = {"pc", "k", "t", "ans"} /\ rn.t \in Tasks
    /\ DOMAIN promo = Tasks /\ pposts \in [Tasks -> Nat]

\* An operation is committed before its request, and only a runner that
\* found none gets that far.
PromotionInv ==
    /\ \A t \in Tasks : pposts[t] > 0 => (pposts[t] = 1 /\ promo[t] # "none")
    /\ At("promote", "prepared") => promo[rn.t] = "none"
    /\ (At("promote", "fence") \/ At("promote", "post")) => (promo[rn.t] = "submitting" /\ pposts[rn.t] = 0)

\* A task's job was created from the revision the task expects.
BoundInv ==
    /\ \A t \in Tasks : task[t].job # 0 => (task[t].job = 1 /\ job[BoundJob(t)].rev = task[t].exp)
    /\ \A t \in Tasks : (item[t] = "unused" \/ task[t].st = "selected") => task[t].job = 0
    /\ rn.pc = "tick" => item[rn.t] = "unused"

\* What the request of an owned task needs when it is sent.
Entitled(t, rev) ==
    /\ Live /\ item[t] = "reserved" /\ ~chan.halted /\ chan.cfg = "same"
    /\ ExpectedAuthority(plan[t], rev)

\* Whoever is about to send a request holds the fence and is entitled to it.
FenceInv ==
    /\ \A w \in Workers : wk[w].pc = "post" => (fence = w /\ Entitled(wk[w].j[1], job[wk[w].j].rev))
    /\ At("promote", "post") => /\ fence = Runner /\ chan.lane = "same"
                                /\ Entitled(rn.t, plan[rn.t].rev) /\ pub[rn.t] = "uploaded"

OwnedInv == OwnedShape /\ PromotionInv /\ BoundInv /\ FenceInv

\* The effects most steps have on each of these.
TaskQuiet ==
    /\ DOMAIN task' = Tasks
    /\ \A t \in Tasks : /\ DOMAIN task'[t] = {"st", "why", "job", "exp", "pol", "prm"}
                        /\ task'[t].job = task[t].job /\ task'[t].exp = task[t].exp
                        /\ task'[t].st = "selected" => task[t].st = "selected"
JobsQuiet ==
    /\ DOMAIN job' = Jobs
    /\ \A j \in Jobs : DOMAIN job'[j] = {"st", "rev"} /\ job'[j].rev = job[j].rev
ItemQuiet ==
    /\ DOMAIN item' = Tasks
    /\ \A t \in Tasks : /\ item'[t] = "unused" <=> item[t] = "unused"
                        /\ item'[t] \in {item[t], "completed"}
PromoQuiet ==
    \/ promo' = promo
    \/ /\ rn' = Resting /\ DOMAIN promo' = Tasks
       /\ \A t \in Tasks : promo[t] # "none" => promo'[t] # "none"
RunnerQuiet ==
    \/ rn' = rn
    \/ /\ DOMAIN rn' = {"pc", "k", "t", "ans"} /\ rn'.t \in Tasks
       /\ rn'.pc \notin {"prepared", "fence", "post"}
       /\ rn'.pc = "tick" => item'[rn'.t] = "unused"
Quiet == TaskQuiet /\ JobsQuiet /\ ItemQuiet /\ PromoQuiet /\ RunnerQuiet /\ UNCHANGED pposts

LEMMA RestingShape ==
    DOMAIN Resting = {"pc", "k", "t", "ans"} /\ Resting.t \in Tasks /\ Resting.pc = "idle"
  BY ItemsAssumption, SMTT(30) DEF Resting, Tasks

LEMMA ClaimedShape ==
    ASSUME NEW k, NEW t, rn' = [Resting EXCEPT !.pc = "claimed", !.k = k, !.t = t]
    PROVE  DOMAIN rn' = {"pc", "k", "t", "ans"} /\ rn'.t = t /\ rn'.pc = "claimed"
<1>1. DOMAIN rn' = {"pc", "k", "t", "ans"}
  BY RestingShape, ZenonT(30)
<1>2. rn'.t = t
  BY RestingShape, ZenonT(30)
<1>3. rn'.pc = "claimed"
  BY RestingShape, ZenonT(30)
<1> QED
  BY <1>1, <1>2, <1>3, ZenonT(30)

LEMMA TickShape ==
    ASSUME NEW t, rn' = [Resting EXCEPT !.pc = "tick", !.t = t]
    PROVE  DOMAIN rn' = {"pc", "k", "t", "ans"} /\ rn'.t = t /\ rn'.pc = "tick"
  BY RestingShape, ZenonT(30)

LEMMA BoundJobs == \A t \in Tasks : BoundJob(t) \in Jobs /\ BoundJob(t)[1] = t
  BY RevAssumption, SMTT(30) DEF BoundJob, Jobs

LEMMA QuietShape == ASSUME OwnedShape, Quiet  PROVE OwnedShape'
  BY RestingShape, ZenonT(30) DEF OwnedShape, Quiet, TaskQuiet, JobsQuiet, ItemQuiet, PromoQuiet, RunnerQuiet

LEMMA QuietPromotion == ASSUME OwnedShape, PromotionInv, Quiet  PROVE PromotionInv'
  BY RestingShape, ZenonT(30) DEF OwnedShape, PromotionInv, At, Quiet, PromoQuiet, RunnerQuiet

LEMMA QuietBound == ASSUME OwnedShape, BoundInv, Quiet  PROVE BoundInv'
  BY BoundJobs, SMTT(30) DEF OwnedShape, BoundInv, Quiet, TaskQuiet, JobsQuiet, ItemQuiet, RunnerQuiet

\* While nobody holds the fence nobody is about to send a request.
LEMMA NobodyPosts ==
    ASSUME FenceInv, Free  PROVE (\A w \in Workers : wk[w].pc # "post") /\ ~At("promote", "post")
  BY FenceAssumption, ZenonT(30) DEF FenceInv, Free

LEMMA FreeQuiet == ASSUME OwnedInv, Free, Quiet, UNCHANGED wk  PROVE OwnedInv'
<1>1. FenceInv'
  BY NobodyPosts, ZenonT(30) DEF OwnedInv, FenceInv, Quiet, RunnerQuiet, At
<1> QED
  BY <1>1, QuietShape, QuietPromotion, QuietBound, ZenonT(30) DEF OwnedInv

-----------------------------------------------------------------------------
(* The owned handlers. *)

\* A handler that goes on, or ends.
Passes == Rest \/ \E place \in {"planned", "approve", "approved", "executed"} : Move(place)

LEMMA PassesQuiet == ASSUME OwnedShape, Passes  PROVE RunnerQuiet
  BY RestingShape, ZenonT(30) DEF OwnedShape, Passes, Rest, Move, RunnerQuiet

LEMMA HoldQuiet ==
    ASSUME OwnedShape, Hold  PROVE TaskQuiet /\ ItemQuiet /\ RunnerQuiet /\ rn' = Resting
<1>1. rn' = Resting /\ UNCHANGED item
  BY ZenonT(30) DEF Hold, Rest
<1>2. TaskQuiet
  BY ZenonT(30) DEF OwnedShape, Hold, TaskQuiet
<1> QED
  BY <1>1, <1>2, PassesQuiet, ZenonT(30) DEF OwnedShape, ItemQuiet, Passes, Rest

\* Only the status of the runner's task changes, and not to "selected".
LEMMA StatusQuiet ==
    ASSUME OwnedShape, NEW st, st # "selected",
           UNCHANGED task \/ task' = [task EXCEPT ![rn.t].st = st] \/ task' = [task EXCEPT ![rn.t].pol = TRUE]
    PROVE  TaskQuiet
  BY SMTT(30) DEF OwnedShape, TaskQuiet

LEMMA SettleQuiet == ASSUME NEW S \in SUBSET Used, item' = Settle(S)  PROVE ItemQuiet
  BY ZenonT(30) DEF ItemQuiet, Settle, Used

LEMMA SameQuiet ==
    ASSUME OwnedShape
    PROVE  (UNCHANGED task => TaskQuiet) /\ (UNCHANGED job => JobsQuiet) /\ (UNCHANGED item => ItemQuiet)
  BY ZenonT(30) DEF OwnedShape, TaskQuiet, JobsQuiet, ItemQuiet

\* How most phases end: in a hold, or with the task moved on.
LEMMA PhaseEnds ==
    ASSUME OwnedInv, Free, UNCHANGED <<job, wk, promo, pposts>>,
           Hold \/ (Passes /\ TaskQuiet /\ ItemQuiet)
    PROVE  OwnedInv'
<1>1. TaskQuiet /\ ItemQuiet /\ RunnerQuiet
  BY HoldQuiet, PassesQuiet, ZenonT(30) DEF OwnedInv
<1>2. Quiet
  BY <1>1, SameQuiet, ZenonT(30) DEF OwnedInv, Quiet, PromoQuiet
<1> QED
  BY <1>2, FreeQuiet, ZenonT(30)

LEMMA PlanHandler ==
    ASSUME OwnedInv,
           \/ PlanOwned
           \/ \E allow \in BOOLEAN : StorePlanPolicy(allow)
           \/ ApproveOwnedPlan
           \/ FinishPlan
    PROVE  OwnedInv'
<1> USE DEF OwnedAt, runnerFrame, recordVars, inventoryVars
<1>0. OwnedShape
  BY ZenonT(30) DEF OwnedInv
<1>1. CASE PlanOwned
  <2>1. Free /\ UNCHANGED <<job, wk, promo, pposts>> /\ (Hold \/ (Move("planned") /\ UNCHANGED <<task, item>>))
    BY <1>1, ZenonT(30) DEF PlanOwned
  <2> QED
    BY <1>0, <2>1, PhaseEnds, SameQuiet, ZenonT(30) DEF Passes
<1>2. ASSUME NEW allow \in BOOLEAN, StorePlanPolicy(allow)  PROVE OwnedInv'
  <2>1. /\ Free /\ UNCHANGED <<job, wk, promo, pposts>>
        /\ Hold \/ (Move("approve") /\ task' = [task EXCEPT ![rn.t].pol = TRUE] /\ UNCHANGED item)
    BY <1>2, ZenonT(30) DEF StorePlanPolicy
  <2>2. task' = [task EXCEPT ![rn.t].pol = TRUE] => TaskQuiet
    BY <1>0, StatusQuiet, ZenonT(30)
  <2> QED
    BY <1>0, <2>1, <2>2, PhaseEnds, SameQuiet, ZenonT(30) DEF Passes
<1>3. CASE ApproveOwnedPlan
  <2>1. /\ Free /\ UNCHANGED <<job, wk, promo, pposts>>
        /\ Hold \/ ((Move("approved") \/ Rest) /\ UNCHANGED <<task, item>>)
    BY <1>3, ZenonT(30) DEF ApproveOwnedPlan, Retry
  <2> QED
    BY <1>0, <2>1, PhaseEnds, SameQuiet, ZenonT(30) DEF Passes
<1>4. CASE FinishPlan
  <2> DEFINE t == rn.t
  <2>1. Free /\ UNCHANGED <<job, wk, promo, pposts>>
    BY <1>4, ZenonT(30) DEF FinishPlan
  <2>2. CASE Hold
    BY <2>1, <2>2, PhaseEnds, ZenonT(30)
  <2>3. CASE ~Hold
    <3>1. /\ task[t].st = "selected" /\ UNCHANGED item /\ rn' = Resting
          /\ task' = [task EXCEPT ![t].st = "planning", ![t].exp = plan[t].appr]
      BY <1>4, <2>3, ZenonT(30) DEF FinishPlan, Rest
    <3>2. task[t].job = 0
      BY <1>0, <3>1, ZenonT(30) DEF OwnedInv, BoundInv, OwnedShape
    <3>3. /\ DOMAIN task' = Tasks
          /\ \A u \in Tasks : /\ DOMAIN task'[u] = {"st", "why", "job", "exp", "pol", "prm"}
                              /\ task'[u].job = task[u].job
                              /\ u # t => task'[u] = task[u]
      BY <1>0, <3>1, ZenonT(30) DEF OwnedShape
    <3>4. OwnedShape'
      BY <1>0, <2>1, <3>1, <3>3, RestingShape, ZenonT(30) DEF OwnedShape
    <3>5. BoundInv'
      BY <1>0, <2>1, <3>1, <3>2, <3>3, RestingShape, ZenonT(30) DEF OwnedInv, OwnedShape, BoundInv
    <3>6. PromotionInv'
      BY <2>1, <3>1, RestingShape, ZenonT(30) DEF OwnedInv, PromotionInv, At
    <3>7. FenceInv'
      BY <2>1, <3>1, NobodyPosts, RestingShape, ZenonT(30) DEF OwnedInv, FenceInv, At
    <3> QED
      BY <3>4, <3>5, <3>6, <3>7, ZenonT(30) DEF OwnedInv
  <2> QED
    BY <2>2, <2>3, ZenonT(30)
<1> QED
  BY <1>1, <1>2, <1>3, <1>4, ZenonT(30)

LEMMA ExecuteHandler == ASSUME OwnedInv, ExecuteOwned \/ FinishExecute  PROVE OwnedInv'
<1> USE DEF OwnedAt, runnerFrame, recordVars, inventoryVars
<1>0. OwnedShape
  BY ZenonT(30) DEF OwnedInv
<1>1. CASE FinishExecute
  <2>1. Free /\ UNCHANGED <<job, wk, promo, pposts>> /\ (Hold \/ (Rest /\ UNCHANGED <<task, item>>))
    BY <1>1, ZenonT(30) DEF FinishExecute
  <2> QED
    BY <1>0, <2>1, PhaseEnds, SameQuiet, ZenonT(30) DEF Passes
<1>2. CASE ExecuteOwned
  <2> DEFINE t == rn.t
  <2>1. Free /\ UNCHANGED <<wk, promo, pposts>>
    BY <1>2, ZenonT(30) DEF ExecuteOwned
  <2>2. CASE UNCHANGED job /\ (Hold \/ (Move("executed") /\ UNCHANGED <<task, item>>))
    BY <1>0, <2>1, <2>2, PhaseEnds, SameQuiet, ZenonT(30) DEF Passes
  <2>3. CASE ~(UNCHANGED job /\ (Hold \/ (Move("executed") /\ UNCHANGED <<task, item>>)))
    <3>1. /\ Authority(t) /\ BoundExecutionAllowed(plan[t], TRUE, task[t].exp)
          /\ CreateJob(BoundJob(t)) /\ BindExecution(BoundJob(t)) /\ Move("executed") /\ UNCHANGED item
      BY <1>2, <2>3, ZenonT(30) DEF ExecuteOwned
    <3>2. t \in Tasks /\ BoundJob(t) \in Jobs /\ BoundJob(t)[1] = t /\ BoundJob(t)[2] = 1
      BY <1>0, BoundJobs, ZenonT(30) DEF OwnedShape, BoundJob
    <3>3. item[t] = "reserved" /\ task[t].exp = plan[t].rev
      BY <3>1, ZenonT(30) DEF Authority, ProducerIdentity, BoundExecutionAllowed, ExpectedAuthority
    <3>4. /\ DOMAIN job' = Jobs /\ \A j \in Jobs : DOMAIN job'[j] = {"st", "rev"}
          /\ job'[BoundJob(t)].rev = plan[t].rev
          /\ \A j \in Jobs \ {BoundJob(t)} : job'[j] = job[j]
      BY <1>0, <3>1, <3>2, ZenonT(30) DEF OwnedShape, CreateJob
    <3>5. /\ DOMAIN task' = Tasks
          /\ \A u \in Tasks : /\ DOMAIN task'[u] = {"st", "why", "job", "exp", "pol", "prm"}
                              /\ task'[u].exp = task[u].exp
                              /\ u # t => task'[u] = task[u]
          /\ task'[t].job = 1 /\ task'[t].st = "producing"
      BY <1>0, <3>1, <3>2, ZenonT(30) DEF OwnedShape, BindExecution
    <3>6. DOMAIN rn' = {"pc", "k", "t", "ans"} /\ rn'.t \in Tasks /\ rn'.pc = "executed"
      BY <1>0, <3>1, ZenonT(30) DEF OwnedShape, Move
    <3>7. OwnedShape'
      BY <1>0, <2>1, <3>1, <3>4, <3>5, <3>6, ZenonT(30) DEF OwnedShape
    <3>8. \A u \in Tasks \ {t} : BoundJob(u) \in Jobs \ {BoundJob(t)}
      BY <3>2, BoundJobs, ZenonT(30)
    <3>9. BoundInv'
      BY <1>0, <3>1, <3>2, <3>3, <3>4, <3>5, <3>6, <3>8, SMTT(30) DEF OwnedInv, OwnedShape, BoundInv
    <3>10. PromotionInv'
      BY <2>1, <3>6, ZenonT(30) DEF OwnedInv, PromotionInv, At
    <3>11. FenceInv'
      BY <2>1, <3>6, NobodyPosts, ZenonT(30) DEF OwnedInv, FenceInv, At
    <3> QED
      BY <3>7, <3>9, <3>10, <3>11, ZenonT(30) DEF OwnedInv
  <2> QED
    BY <2>2, <2>3, ZenonT(30)
<1> QED
  BY <1>1, <1>2, ZenonT(30)

LEMMA ObserveAndPublish == ASSUME OwnedInv, ObserveOwned \/ PublishOwned  PROVE OwnedInv'
<1> USE DEF OwnedAt, runnerFrame, recordVars, inventoryVars
<1>0. OwnedShape
  BY ZenonT(30) DEF OwnedInv
<1>1. CASE ObserveOwned
  <2>1. Free /\ UNCHANGED <<job, wk, promo, pposts>> /\ (Hold \/ (Rest /\ UNCHANGED <<task, item>>))
    BY <1>1, ZenonT(30) DEF ObserveOwned
  <2> QED
    BY <1>0, <2>1, PhaseEnds, SameQuiet, ZenonT(30) DEF Passes
<1>2. CASE PublishOwned
  <2>1. /\ Free /\ UNCHANGED <<job, wk, promo, pposts>>
        /\ \/ Hold
           \/ /\ Rest /\ UNCHANGED item
              /\ UNCHANGED task \/ task' = [task EXCEPT ![rn.t].st = "uploaded_private"]
    BY <1>2, ZenonT(30) DEF PublishOwned
  <2>2. (UNCHANGED task \/ task' = [task EXCEPT ![rn.t].st = "uploaded_private"]) => TaskQuiet
    BY <1>0, StatusQuiet, SMTT(30)
  <2> QED
    BY <1>0, <2>1, <2>2, PhaseEnds, SameQuiet, ZenonT(30) DEF Passes
<1> QED
  BY <1>1, <1>2, ZenonT(30)

LEMMA ReconcileAndCollect ==
    ASSUME OwnedInv, \E ok \in BOOLEAN : ReconcileOwned(ok) \/ CollectOwned(ok)  PROVE OwnedInv'
<1> USE DEF OwnedAt, runnerFrame, recordVars, inventoryVars
<1>0. OwnedShape
  BY ZenonT(30) DEF OwnedInv
<1>1. ASSUME NEW ok \in BOOLEAN, ReconcileOwned(ok)  PROVE OwnedInv'
  <2> DEFINE after == Complete(q, "reconcile", rn.t)
  <2>1. /\ Free /\ UNCHANGED <<job, wk, promo, pposts>>
        /\ Hold \/ (Rest /\ UNCHANGED task /\ FinalizeItems(rn.t, after))
    BY <1>1, ZenonT(30) DEF ReconcileOwned
  <2>2. FinishedIn(after) \cap {rn.t} \in SUBSET Used
    BY ZenonT(30) DEF FinishedIn
  <2>3. FinalizeItems(rn.t, after) => ItemQuiet
    BY <1>0, <2>2, SettleQuiet, SameQuiet, ZenonT(30) DEF FinalizeItems
  <2> QED
    BY <1>0, <2>1, <2>3, PhaseEnds, SameQuiet, ZenonT(30) DEF Passes
<1>2. ASSUME NEW ok \in BOOLEAN, CollectOwned(ok)  PROVE OwnedInv'
  <2>1. /\ Free /\ UNCHANGED <<job, wk, promo, pposts>>
        /\ \/ Hold
           \/ /\ Rest /\ UNCHANGED item
              /\ UNCHANGED task \/ task' = [task EXCEPT ![rn.t].st = "measured"]
    BY <1>2, ZenonT(30) DEF CollectOwned
  <2>2. (UNCHANGED task \/ task' = [task EXCEPT ![rn.t].st = "measured"]) => TaskQuiet
    BY <1>0, StatusQuiet, SMTT(30)
  <2> QED
    BY <1>0, <2>1, <2>2, PhaseEnds, SameQuiet, ZenonT(30) DEF Passes
<1> QED
  BY <1>1, <1>2, ZenonT(30)

\* What MayPromote establishes for the request.
LEMMA MayPromoteEntitles ==
    \A t : MayPromote(t) => (Entitled(t, plan[t].rev) /\ pub[t] = "uploaded" /\ chan.lane = "same")
  BY ZenonT(30) DEF MayPromote, Authority, ProducerIdentity, ApprovedNow, SameConfiguration, Entitled

LEMMA PromoteHandler ==
    ASSUME OwnedInv,
           \/ PreparePromotion
           \/ \E allow \in BOOLEAN : ReservePromotion(allow)
           \/ PromotionFence
           \/ \E ok \in BOOLEAN : PostPromotion(ok)
           \/ \E ok \in BOOLEAN : SettlePromotion(ok)
    PROVE  OwnedInv'
<1> USE DEF OwnedAt, runnerFrame, recordVars, inventoryVars
<1> DEFINE t == rn.t
<1>0. OwnedShape /\ t \in Tasks
  BY ZenonT(30) DEF OwnedInv, OwnedShape
<1>1. CASE PreparePromotion
  <2>1. Free /\ promo[t] = "none" /\ rn.k = "promote" /\ UNCHANGED <<job, wk, promo, pposts>>
    BY <1>1, ZenonT(30) DEF PreparePromotion, At
  <2>2. CASE Hold
    BY <2>1, <2>2, PhaseEnds, ZenonT(30)
  <2>3. CASE ~Hold
    <3>1. rn' = [rn EXCEPT !.pc = "prepared", !.ans = plan[t].appr] /\ UNCHANGED <<item, task>>
      BY <1>1, <2>3, ZenonT(30) DEF PreparePromotion
    <3>2. DOMAIN rn' = {"pc", "k", "t", "ans"} /\ rn'.t = t /\ rn'.pc = "prepared"
      BY <1>0, <3>1, ZenonT(30) DEF OwnedShape
    <3>3. OwnedShape'
      BY <1>0, <2>1, <3>1, <3>2, ZenonT(30) DEF OwnedShape
    <3>4. PromotionInv'
      BY <2>1, <3>2, ZenonT(30) DEF OwnedInv, PromotionInv, At
    <3>5. BoundInv'
      BY <2>1, <3>1, <3>2, ZenonT(30) DEF OwnedInv, BoundInv
    <3>6. FenceInv'
      BY <2>1, <3>2, NobodyPosts, ZenonT(30) DEF OwnedInv, FenceInv, At
    <3> QED
      BY <3>3, <3>4, <3>5, <3>6, ZenonT(30) DEF OwnedInv
  <2> QED
    BY <2>2, <2>3, ZenonT(30)
<1>2. ASSUME NEW allow \in BOOLEAN, ReservePromotion(allow)  PROVE OwnedInv'
  <2>1. Free /\ At("promote", "prepared") /\ UNCHANGED <<job, wk, pposts>>
    BY <1>2, ZenonT(30) DEF ReservePromotion
  <2>2. CASE Hold /\ UNCHANGED promo
    BY <2>1, <2>2, PhaseEnds, ZenonT(30)
  <2>3. CASE ~(Hold /\ UNCHANGED promo)
    <3>1. promo' = [promo EXCEPT ![t] = "submitting"] /\ Move("fence") /\ UNCHANGED <<item, task>>
      BY <1>2, <2>3, ZenonT(30) DEF ReservePromotion
    <3>2. DOMAIN rn' = {"pc", "k", "t", "ans"} /\ rn'.t = t /\ rn'.pc = "fence"
      BY <1>0, <3>1, ZenonT(30) DEF OwnedShape, Move
    <3>3. OwnedShape'
      BY <1>0, <2>1, <3>1, <3>2, ZenonT(30) DEF OwnedShape
    <3>4. pposts[t] = 0
      BY <1>0, <2>1, SMTT(30) DEF OwnedInv, OwnedShape, PromotionInv
    <3>5. PromotionInv'
      BY <1>0, <2>1, <3>1, <3>2, <3>4, ZenonT(30) DEF OwnedInv, OwnedShape, PromotionInv, At
    <3>6. BoundInv'
      BY <2>1, <3>1, <3>2, ZenonT(30) DEF OwnedInv, BoundInv
    <3>7. FenceInv'
      BY <2>1, <3>2, NobodyPosts, ZenonT(30) DEF OwnedInv, FenceInv, At
    <3> QED
      BY <3>3, <3>5, <3>6, <3>7, ZenonT(30) DEF OwnedInv
  <2> QED
    BY <2>2, <2>3, ZenonT(30)
<1>3. CASE PromotionFence
  <2>1. Free /\ At("promote", "fence") /\ UNCHANGED <<job, wk, promo, pposts>>
    BY <1>3, ZenonT(30) DEF PromotionFence
  <2>2. CASE Hold
    BY <2>1, <2>2, PhaseEnds, ZenonT(30)
  <2>3. CASE ~Hold
    <3>1. /\ MayPromote(t) /\ fence' = Runner /\ Move("post")
          /\ UNCHANGED <<inv, chan, plan, pub, item, task>>
      BY <1>3, <2>3, ZenonT(30) DEF PromotionFence
    <3>2. DOMAIN rn' = {"pc", "k", "t", "ans"} /\ rn'.t = t /\ rn'.pc = "post" /\ rn'.k = rn.k
      BY <1>0, <3>1, ZenonT(30) DEF OwnedShape, Move
    <3>3. OwnedShape'
      BY <1>0, <2>1, <3>1, <3>2, ZenonT(30) DEF OwnedShape
    <3>4. PromotionInv'
      BY <2>1, <3>2, ZenonT(30) DEF OwnedInv, PromotionInv, At
    <3>5. BoundInv'
      BY <2>1, <3>1, <3>2, ZenonT(30) DEF OwnedInv, BoundInv
    <3>6. Entitled(t, plan[t].rev)' /\ (pub[t])' = "uploaded" /\ chan'.lane = "same"
      BY <3>1, <3>2, MayPromoteEntitles, ZenonT(30) DEF Entitled, Live, ExpectedAuthority
    <3>7. FenceInv'
      BY <2>1, <3>1, <3>2, <3>6, NobodyPosts, ZenonT(30) DEF OwnedInv, FenceInv, At
    <3> QED
      BY <3>3, <3>4, <3>5, <3>7, ZenonT(30) DEF OwnedInv
  <2> QED
    BY <2>2, <2>3, ZenonT(30)
<1>4. ASSUME NEW ok \in BOOLEAN, PostPromotion(ok)  PROVE OwnedInv'
  <2>1. /\ At("promote", "post") /\ UNCHANGED <<job, wk, promo, item, task>>
        /\ pposts' = [pposts EXCEPT ![t] = @ + 1]
        /\ rn' = [rn EXCEPT !.pc = "settle", !.ans = IF ok THEN 1 ELSE 0]
    BY <1>4, ZenonT(30) DEF PostPromotion
  <2>2. DOMAIN rn' = {"pc", "k", "t", "ans"} /\ rn'.t = t /\ rn'.pc = "settle"
    BY <1>0, <2>1, ZenonT(30) DEF OwnedShape
  <2>3. pposts[t] = 0 /\ promo[t] = "submitting"
    BY <2>1, ZenonT(30) DEF OwnedInv, PromotionInv
  <2>4. pposts' \in [Tasks -> Nat] /\ pposts'[t] = 1 /\ \A u \in Tasks \ {t} : pposts'[u] = pposts[u]
    BY <1>0, <2>1, <2>3, SMTT(30) DEF OwnedShape
  <2>5. OwnedShape'
    BY <1>0, <2>1, <2>2, <2>4, ZenonT(30) DEF OwnedShape
  <2>6. PromotionInv'
    BY <1>0, <2>1, <2>2, <2>3, <2>4, ZenonT(30) DEF OwnedInv, PromotionInv, At
  <2>7. BoundInv'
    BY <2>1, <2>2, ZenonT(30) DEF OwnedInv, BoundInv
  <2>8. \A w \in Workers : wk'[w].pc # "post"
    BY <2>1, FenceAssumption, ZenonT(30) DEF OwnedInv, FenceInv
  <2>9. FenceInv'
    BY <2>2, <2>8, ZenonT(30) DEF FenceInv, At
  <2> QED
    BY <2>5, <2>6, <2>7, <2>9, ZenonT(30) DEF OwnedInv
<1>5. ASSUME NEW ok \in BOOLEAN, SettlePromotion(ok)  PROVE OwnedInv'
  <2>1. Free /\ UNCHANGED <<job, wk, pposts>>
    BY <1>5, ZenonT(30) DEF SettlePromotion
  <2>2. \/ Hold
        \/ /\ Rest /\ UNCHANGED item
           /\ UNCHANGED task \/ task' = [task EXCEPT ![t].st = "scheduled"]
    BY <1>5, ZenonT(30) DEF SettlePromotion
  <2>3. \/ UNCHANGED promo \/ promo' = [promo EXCEPT ![t] = "finalized"]
        \/ promo' = [promo EXCEPT ![t] = "uncertain"]
    BY <1>5, ZenonT(30) DEF SettlePromotion
  <2>4. rn' = Resting /\ RunnerQuiet
    BY <1>0, <2>2, PassesQuiet, HoldQuiet, ZenonT(30) DEF Passes, Rest
  <2>5. TaskQuiet /\ ItemQuiet
    BY <1>0, <2>2, StatusQuiet, HoldQuiet, SameQuiet, ZenonT(30)
  <2>6. PromoQuiet
    BY <1>0, <2>3, <2>4, ZenonT(30) DEF OwnedShape, PromoQuiet
  <2>7. Quiet
    BY <1>0, <2>1, <2>4, <2>5, <2>6, SameQuiet, ZenonT(30) DEF Quiet
  <2> QED
    BY <2>1, <2>7, FreeQuiet, ZenonT(30)
<1> QED
  BY <1>1, <1>2, <1>3, <1>4, <1>5, ZenonT(30)

-----------------------------------------------------------------------------
(* The tick, the queue and the runner's failures. *)

LEMMA NextIsUnused ==
    ASSUME Unused # {}
    PROVE  Next1(Unused) \in Unused /\ \A u \in Unused : Next1(Unused) <= u
<1> DEFINE R == {ss \in Nat \X Nat : ss[1] < ss[2]}
<1>1. IsWellFoundedOn(R, Nat)
  BY NatLessThanWellFounded, ZenonT(30) DEF OpToRel
<1>2. Unused \subseteq Nat
  BY ItemsAssumption, SMTT(30) DEF Unused, Tasks
<1> HIDE DEF R
<1>3. PICK x \in Unused : \A y \in Unused : ~ (<<y, x>> \in R)
  BY <1>1, <1>2, WFMin, ZenonT(30)
<1>4. ASSUME NEW y \in Unused  PROVE x <= y
  <2>1. x \in Nat /\ y \in Nat /\ ~ (<<y, x>> \in R)
    BY <1>2, <1>3, ZenonT(30)
  <2>2. ~ (y < x)
    BY <2>1, ZenonT(30) DEF R
  <2> QED
    BY <2>1, <2>2, SMTT(30)
<1> QED
  BY <1>4, ZenonT(30) DEF Next1

LEMMA FinishedAreUsed == FinishedItems \in SUBSET Used
  BY ZenonT(30) DEF FinishedItems, FinishedIn

LEMMA FirstReading == ASSUME OwnedInv, \E ok \in BOOLEAN : OwnedTick(ok)  PROVE OwnedInv'
<1> USE DEF runnerFrame, recordVars, inventoryVars
<1>0. OwnedShape
  BY ZenonT(30) DEF OwnedInv
<1>1. /\ Free /\ UNCHANGED <<job, wk, promo, pposts, task>>
      /\ \/ UNCHANGED rn /\ (UNCHANGED item \/ item' = Settle(FinishedItems))
         \/ /\ UNCHANGED item /\ Unused # {}
            /\ rn' = [Resting EXCEPT !.pc = "tick", !.t = Next1(Unused)]
  BY ZenonT(30) DEF OwnedTick, TickScheduled, TickHolds, TickCompletes, Ready
<1>2. ItemQuiet
  BY <1>0, <1>1, SettleQuiet, FinishedAreUsed, SameQuiet, ZenonT(30)
<1>3. RunnerQuiet
  <2>1. Unused # {} => (Next1(Unused) \in Tasks /\ item[Next1(Unused)] = "unused")
    BY NextIsUnused, ZenonT(30) DEF Unused, Used
  <2> QED
    <3>1. CASE UNCHANGED rn
      BY <3>1, ZenonT(30) DEF RunnerQuiet
    <3>2. CASE ~UNCHANGED rn
      <4>1. UNCHANGED item /\ Unused # {} /\ rn' = [Resting EXCEPT !.pc = "tick", !.t = Next1(Unused)]
        BY <1>1, <3>2, ZenonT(30)
      <4>2. DOMAIN rn' = {"pc", "k", "t", "ans"} /\ rn'.t = Next1(Unused) /\ rn'.pc = "tick"
        BY <4>1, TickShape, ZenonT(30)
      <4> QED
        BY <2>1, <4>1, <4>2, ZenonT(30) DEF RunnerQuiet
    <3> QED
      BY <3>1, <3>2, ZenonT(30)
<1>4. Quiet
  BY <1>0, <1>1, <1>2, <1>3, SameQuiet, ZenonT(30) DEF Quiet, PromoQuiet
<1> QED
  BY <1>1, <1>4, FreeQuiet, ZenonT(30)

LEMMA SecondReading == ASSUME OwnedInv, \E allow \in BOOLEAN : OwnedTickFinish(allow)  PROVE OwnedInv'
<1> USE DEF runnerFrame, recordVars, inventoryVars
<1> DEFINE t == rn.t
<1>0. OwnedShape /\ t \in Tasks
  BY ZenonT(30) DEF OwnedInv, OwnedShape
<1>1. /\ Free /\ rn.pc = "tick" /\ rn' = Resting /\ UNCHANGED <<job, wk, promo, pposts>>
      /\ \/ UNCHANGED task /\ (UNCHANGED item \/ item' = Settle(FinishedItems))
         \/ Admit(t)
  BY ZenonT(30) DEF OwnedTickFinish, TickHolds, TickCompletes, Rest
<1>2. CASE ~Admit(t)
  <2>1. ItemQuiet
    BY <1>0, <1>1, <1>2, SettleQuiet, FinishedAreUsed, SameQuiet, ZenonT(30)
  <2> QED
    BY <1>0, <1>1, <1>2, <2>1, PhaseEnds, SameQuiet, ZenonT(30) DEF Passes, Rest
<1>3. CASE Admit(t)
  <2>1. task' = [task EXCEPT ![t].st = "selected"] /\ item' = [Settle(FinishedItems) EXCEPT ![t] = "reserved"]
    BY <1>3, ZenonT(30) DEF Admit, SelectTask
  <2>2. task[t].job = 0
    BY <1>0, <1>1, ZenonT(30) DEF OwnedInv, BoundInv
  <2>3. /\ DOMAIN task' = Tasks
        /\ \A u \in Tasks : /\ DOMAIN task'[u] = {"st", "why", "job", "exp", "pol", "prm"}
                            /\ task'[u].job = task[u].job /\ task'[u].exp = task[u].exp
                            /\ u # t => task'[u] = task[u]
    BY <1>0, <2>1, ZenonT(30) DEF OwnedShape
  <2>4. DOMAIN item' = Tasks /\ \A u \in Tasks : item'[u] = "unused" => item[u] = "unused"
    BY <1>0, <2>1, FinishedAreUsed, ZenonT(30) DEF Settle
  <2>5. OwnedShape'
    BY <1>0, <1>1, <2>3, <2>4, RestingShape, ZenonT(30) DEF OwnedShape
  <2>6. BoundInv'
    BY <1>0, <1>1, <2>2, <2>3, <2>4, RestingShape, SMTT(30) DEF OwnedInv, BoundInv
  <2>7. PromotionInv'
    BY <1>1, RestingShape, ZenonT(30) DEF OwnedInv, PromotionInv, At
  <2>8. FenceInv'
    BY <1>1, NobodyPosts, RestingShape, ZenonT(30) DEF OwnedInv, FenceInv, At
  <2> QED
    BY <2>5, <2>6, <2>7, <2>8, ZenonT(30) DEF OwnedInv
<1> QED
  BY <1>2, <1>3, ZenonT(30)

\* Nothing an entitlement rests on changes.
Frozen ==
    /\ UNCHANGED <<plan, inv, item, pub>> /\ JobsQuiet
    /\ chan'.halted = chan.halted /\ chan'.cfg = chan.cfg
    /\ fence = Runner => chan'.lane = chan.lane

LEMMA StillEntitled ==
    ASSUME NEW t, NEW r, Entitled(t, r), Frozen  PROVE Live' /\ item'[t] = "reserved" /\ ~chan'.halted
                                                        /\ chan'.cfg = "same" /\ ExpectedAuthority(plan'[t], r)
  BY ZenonT(30) DEF Entitled, Frozen, Live, ExpectedAuthority

\* A step while others hold the fence: they keep it and what it protects.
LEMMA FrozenFence ==
    ASSUME UploadShape, OwnedInv, Frozen,
           \A w \in Workers : wk'[w].pc = "post" => (wk'[w] = wk[w] /\ fence' = fence),
           At("promote", "post")' => (rn' = rn /\ fence' = fence)
    PROVE  FenceInv'
<1>1. ASSUME NEW w \in Workers, wk'[w].pc = "post"
      PROVE  fence' = w /\ Entitled(wk[w].j[1], job[wk[w].j].rev)'
  <2>1. wk'[w] = wk[w] /\ fence' = w /\ Entitled(wk[w].j[1], job[wk[w].j].rev) /\ wk[w].j \in Jobs
    BY <1>1, ZenonT(30) DEF OwnedInv, FenceInv, UploadShape
  <2>2. job'[wk[w].j].rev = job[wk[w].j].rev
    BY <2>1, ZenonT(30) DEF Frozen, JobsQuiet
  <2> QED
    BY <2>1, <2>2, StillEntitled, ZenonT(30) DEF Entitled
<1>2. ASSUME At("promote", "post")'
      PROVE  /\ fence' = Runner /\ chan'.lane = "same"
             /\ Entitled(rn.t, plan[rn.t].rev)' /\ (pub[rn.t])' = "uploaded"
  <2>1. /\ rn' = rn /\ fence' = Runner /\ fence = Runner /\ chan.lane = "same"
        /\ Entitled(rn.t, plan[rn.t].rev) /\ pub[rn.t] = "uploaded"
    BY <1>2, ZenonT(30) DEF OwnedInv, FenceInv, At
  <2> QED
    BY <2>1, StillEntitled, ZenonT(30) DEF Entitled, Frozen
<1> QED
  BY <1>1, <1>2, ZenonT(30) DEF FenceInv

LEMMA RunnerMoves ==
    ASSUME QueueStep \/ MarkSucceeded \/ HandlerFails \/ RunnerCrash
    PROVE  /\ UNCHANGED <<job, wk, promo, pposts, task, plan, inv, item, chan, pub>>
           /\ fence' = fence \/ (fence = Runner /\ fence' = NoOne)
           /\ DOMAIN rn' = {"pc", "k", "t", "ans"} /\ rn'.t \in Tasks /\ rn'.pc \in {"idle", "claimed"}
<1> USE DEF runnerFrame, recordVars, inventoryVars
<1>1. UNCHANGED <<job, wk, promo, pposts, task, plan, inv, item, chan, pub>>
  BY ZenonT(30) DEF QueueStep, ClaimItem, MarkSucceeded, HandlerFails, RunnerCrash
<1>2. fence' = fence \/ (fence = Runner /\ fence' = NoOne)
  BY ZenonT(30) DEF QueueStep, ClaimItem, MarkSucceeded, HandlerFails, RunnerCrash, Unlock
<1>3. \/ rn' = Resting
      \/ \E k \in Kinds, t \in Tasks : rn' = [Resting EXCEPT !.pc = "claimed", !.k = k, !.t = t]
  BY ZenonT(30) DEF QueueStep, ClaimItem, MarkSucceeded, HandlerFails, RunnerCrash, Retry, Rest
<1>4. DOMAIN rn' = {"pc", "k", "t", "ans"} /\ rn'.t \in Tasks /\ rn'.pc \in {"idle", "claimed"}
  <2>1. CASE rn' = Resting
    BY <2>1, RestingShape, ZenonT(30)
  <2>2. CASE rn' # Resting
    <3>1. PICK k \in Kinds, t \in Tasks : rn' = [Resting EXCEPT !.pc = "claimed", !.k = k, !.t = t]
      BY <1>3, <2>2, ZenonT(30)
    <3>2. DOMAIN rn' = {"pc", "k", "t", "ans"} /\ rn'.t = t /\ rn'.pc = "claimed"
      BY <3>1, ClaimedShape, ZenonT(30)
    <3> QED
      BY <3>2, ZenonT(30)
  <2> QED
    BY <2>1, <2>2, ZenonT(30)
<1> QED
  BY <1>1, <1>2, <1>4, ZenonT(30)

LEMMA RunnerAnytime ==
    ASSUME UploadShape, OwnedInv, QueueStep \/ MarkSucceeded \/ HandlerFails \/ RunnerCrash
    PROVE  OwnedInv'
<1>0. OwnedShape
  BY ZenonT(30) DEF OwnedInv
<1>1. UNCHANGED <<job, wk, promo, pposts, task, plan, inv, item, chan, pub>>
  BY RunnerMoves, ZenonT(30)
<1>2. fence' = fence \/ (fence = Runner /\ fence' = NoOne)
  BY RunnerMoves, ZenonT(30)
<1>3. DOMAIN rn' = {"pc", "k", "t", "ans"} /\ rn'.t \in Tasks /\ rn'.pc \in {"idle", "claimed"}
  BY RunnerMoves, ZenonT(30)
<1>4. Quiet
  BY <1>0, <1>1, <1>3, SameQuiet, ZenonT(30) DEF Quiet, PromoQuiet, RunnerQuiet
<1>5. FenceInv'
  <2>1. ~At("promote", "post")'
    BY <1>3, ZenonT(30) DEF At
  <2>2. \A w \in Workers : wk'[w].pc = "post" => (wk'[w] = wk[w] /\ fence' = fence)
    BY <1>1, <1>2, FenceAssumption, ZenonT(30) DEF OwnedInv, FenceInv
  <2>3. Frozen
    BY <1>0, <1>1, SameQuiet, ZenonT(30) DEF Frozen
  <2> QED
    BY <2>1, <2>2, <2>3, FrozenFence, ZenonT(30)
<1> QED
  BY <1>4, <1>5, QuietShape, QuietPromotion, QuietBound, ZenonT(30) DEF OwnedInv

-----------------------------------------------------------------------------
(* Operators, time, jobs and workers. *)

LEMMA OperatorKeeps == ASSUME UploadShape, KindShape, Owned, OwnedInv, OperatorStep  PROVE OwnedInv'
<1> USE DEF operatorFrame, inventoryVars
<1>0. OwnedShape
  BY ZenonT(30) DEF OwnedInv
<1>1. CASE \/ \E halted \in BOOLEAN : SetHalted(halted)
           \/ \E cfg \in {"changed", "dry"} : PatchChannel(cfg)
           \/ \E st \in {"OPEN", "DRAINING", "CLOSED"} : SetSchedule(st)
           \/ \E t \in Tasks : PlanApi(t)
  <2>1. Free /\ UNCHANGED <<job, wk, promo, pposts, rn, task, item>>
    BY <1>1, ZenonT(30) DEF SetHalted, PatchChannel, SetSchedule, PlanApi, PatchPlan, ApprovePlan, RejectPlan,
      PlanLocked
  <2>2. Quiet
    BY <1>0, <2>1, SameQuiet, ZenonT(30) DEF Quiet, PromoQuiet, RunnerQuiet
  <2> QED
    BY <2>1, <2>2, FreeQuiet, ZenonT(30)
<1>2. CASE InventoryApi
  <2>1. /\ Free /\ UNCHANGED <<job, wk, promo, pposts, rn, task>>
        /\ UNCHANGED item \/ item' = Settle(FeedbackCompletes)
    BY <1>2, ZenonT(30) DEF InventoryApi, CreateInventory, ApproveInventory, OpenIntake, RecoverInventory,
      RevokeInventory, Feedback
  <2>2. FeedbackCompletes \in SUBSET Used
    BY FinishedAreUsed, ZenonT(30) DEF FeedbackCompletes
  <2>3. ItemQuiet
    BY <1>0, <2>1, <2>2, SettleQuiet, SameQuiet, ZenonT(30)
  <2>4. Quiet
    BY <1>0, <2>1, <2>3, SameQuiet, ZenonT(30) DEF Quiet, PromoQuiet, RunnerQuiet
  <2> QED
    BY <2>1, <2>4, FreeQuiet, ZenonT(30)
<1>3. ASSUME NEW t \in Tasks, RejectPublication(t)  PROVE OwnedInv'
  <2>1. Free /\ UNCHANGED <<job, wk, promo, pposts, rn, item>> /\ task' = [task EXCEPT ![t].st = "rejected"]
    BY <1>3, ZenonT(30) DEF RejectPublication
  <2>2. TaskQuiet
    BY <1>0, <2>1, ZenonT(30) DEF OwnedShape, TaskQuiet
  <2>3. Quiet
    BY <1>0, <2>1, <2>2, SameQuiet, ZenonT(30) DEF Quiet, PromoQuiet, RunnerQuiet
  <2> QED
    BY <2>1, <2>3, FreeQuiet, ZenonT(30)
<1>4. ASSUME NEW t \in Tasks, PromotePublication(t) \/ ReleaseReview(t)  PROVE OwnedInv'
  BY <1>4, ZenonT(30) DEF PromotePublication, ReleaseReview, External, Owned
<1>5. ASSUME NEW lane, EditLane(lane)  PROVE OwnedInv'
  <2>1. /\ UNCHANGED <<job, wk, fence, promo, pposts, rn, task, plan, inv, item, pub>> /\ fence # Runner
        /\ chan' = [chan EXCEPT !.lane = lane]
    BY <1>5, ZenonT(30) DEF EditLane
  <2>2. chan'.halted = chan.halted /\ chan'.cfg = chan.cfg
    BY <2>1, ZenonT(30) DEF KindShape
  <2>3. Quiet /\ Frozen
    BY <1>0, <2>1, <2>2, SameQuiet, ZenonT(30) DEF Quiet, PromoQuiet, RunnerQuiet, Frozen
  <2>4. FenceInv'
    BY <2>1, <2>3, FrozenFence, ZenonT(30)
  <2> QED
    BY <2>3, <2>4, QuietShape, QuietPromotion, QuietBound, ZenonT(30) DEF OwnedInv
<1> QED
  BY <1>1, <1>2, <1>3, <1>4, <1>5, ZenonT(30) DEF OperatorStep

LEMMA TimeKeeps == ASSUME UploadShape, OwnedInv, TimeStep  PROVE OwnedInv'
<1>0. OwnedShape
  BY ZenonT(30) DEF OwnedInv
<1>1. UNCHANGED <<job, wk, fence, promo, pposts, rn, task, plan, inv, item, chan, pub>>
  BY ZenonT(30) DEF TimeStep, WindowEnds, DayPasses, MetricsDue, MetricsLate, timeFrame, autoflowVars,
    uploadVars, inventoryVars
<1>2. Quiet /\ Frozen
  BY <1>0, <1>1, SameQuiet, ZenonT(30) DEF Quiet, PromoQuiet, RunnerQuiet, Frozen
<1>3. FenceInv'
  BY <1>1, <1>2, FrozenFence, ZenonT(30)
<1> QED
  BY <1>2, <1>3, QuietShape, QuietPromotion, QuietBound, ZenonT(30) DEF OwnedInv

LEMMA JobKeeps == ASSUME UploadShape, OwnedInv, NEW j \in Jobs, JobStep(j)  PROVE OwnedInv'
<1>0. OwnedShape
  BY ZenonT(30) DEF OwnedInv
<1>1. UNCHANGED <<wk, fence, promo, pposts, rn, task, plan, inv, item, chan, pub>>
  BY ZenonT(30) DEF JobStep, StartWaiting, CancelJob, ManagerSettles, autoflowVars, uploadVars, agentVars,
    recordVars, inventoryVars
<1>2. UNCHANGED job \/ \E st \in {"running", "failed"} : job' = [job EXCEPT ![j].st = st]
  BY ZenonT(30) DEF JobStep, StartWaiting, CancelJob, ManagerSettles
<1>3. JobsQuiet
  BY <1>0, <1>2, SMTT(30) DEF OwnedShape, JobsQuiet
<1>4. Quiet /\ Frozen
  BY <1>0, <1>1, <1>3, SameQuiet, ZenonT(30) DEF Quiet, PromoQuiet, RunnerQuiet, Frozen
<1>5. FenceInv'
  BY <1>1, <1>4, FrozenFence, ZenonT(30)
<1> QED
  BY <1>4, <1>5, QuietShape, QuietPromotion, QuietBound, ZenonT(30) DEF OwnedInv

\* What a step of a worker does to the other rows.
LEMMA WorkerJobs ==
    ASSUME UploadShape, OwnedShape, NEW w \in Workers, WorkerStep(w) \/ WorkerFault(w)
    PROVE  JobsQuiet /\ UNCHANGED <<promo, pposts, rn, task, plan, inv, item, chan, pub>>
<1>1. UNCHANGED <<promo, pposts, rn, task, inv, item, chan, pub>>
  BY ZenonT(30) DEF WorkerStep, WorkerFault, agentVars, recordVars, inventoryVars
<1>2. UNCHANGED plan
  BY ZenonT(30) DEF WorkerStep, WorkerFault, ClaimNode, ReserveOperation, MarkAttempting, AcquireFence,
    PostUpload, RecordAnswer, PollManager, FinishNode, WorkerCrash, LeaseEnds, PollGivesUp
<1>3. UNCHANGED job \/ \E st : job' = [job EXCEPT ![wk[w].j].st = st]
  <2>0. Raise(w) => (UNCHANGED job \/ \E st : job' = [job EXCEPT ![wk[w].j].st = st])
    BY ZenonT(30) DEF Raise, FailNode
  <2>1. CASE \/ ReserveOperation(w, UploadAuthority(wk[w].j))
             \/ \E preflight \in BOOLEAN : MarkAttempting(w, UploadAuthority(wk[w].j), preflight)
             \/ AcquireFence(w, UploadAuthority(wk[w].j))
    BY <2>0, <2>1, ZenonT(30) DEF ReserveOperation, MarkAttempting, PreflightFails, AcquireFence
  <2>2. CASE \/ RecordAnswer(w) \/ PollManager(w) \/ FinishNode(w)
             \/ \E uncertain \in BOOLEAN : PollGivesUp(w, uncertain)
    BY <2>0, <2>2, ZenonT(30) DEF RecordAnswer, PollManager, FinishNode, PollGivesUp
  <2>3. CASE \/ \E j \in Jobs : ClaimNode(w, j)
             \/ \E ack \in {"ok", "lost", "refused"} : PostUpload(w, ack)
             \/ WorkerCrash(w) \/ LeaseEnds(w)
    BY <2>3, ZenonT(30) DEF ClaimNode, PostUpload, WorkerCrash, LeaseEnds
  <2> QED
    BY <2>1, <2>2, <2>3, ZenonT(30) DEF WorkerStep, WorkerFault
<1>4. JobsQuiet
  <2>1. CASE UNCHANGED job
    BY <2>1, SameQuiet, ZenonT(30)
  <2>2. CASE ~UNCHANGED job
    <3>1. PICK st : job' = [job EXCEPT ![wk[w].j].st = st]
      BY <1>3, <2>2, ZenonT(30)
    <3> QED
      BY <3>1, ZenonT(30) DEF OwnedShape, JobsQuiet
  <2> QED
    BY <2>1, <2>2, ZenonT(30)
<1> QED
  BY <1>1, <1>2, <1>4, ZenonT(30)

\* Only AcquireFence brings a worker to its request, and a worker lets go
\* of no fence but its own.
LEMMA WorkerFences ==
    ASSUME UploadInv, NEW w \in Workers, WorkerStep(w) \/ WorkerFault(w),
           ~AcquireFence(w, UploadAuthority(wk[w].j))
    PROVE  /\ \A v \in Workers : wk'[v].pc = "post" => wk'[v] = wk[v] /\ (v = w => fence' = fence)
           /\ fence # w => fence' = fence
<1>0. ASSUME Moved(w), wk'[w].pc # "post", fence' = fence \/ Unlocked(w)
      PROVE  /\ \A v \in Workers : wk'[v].pc = "post" => wk'[v] = wk[v] /\ (v = w => fence' = fence)
             /\ fence # w => fence' = fence
  BY <1>0, ZenonT(30) DEF Moved, Unlocked
<1>1. Raise(w) => (Moved(w) /\ wk'[w].pc = "idle" /\ Unlocked(w))
  BY LeaveMoves, ZenonT(30) DEF Raise
<1>2. CASE \E j \in Jobs : ClaimNode(w, j)
  <2>1. Moved(w) /\ wk'[w].pc = "claimed" /\ fence' = fence
    BY <1>2, IdleShape, SMTT(30) DEF ClaimNode, UploadInv, UploadShape, Moved
  <2> QED
    BY <1>0, <2>1, ZenonT(30)
<1>3. CASE ReserveOperation(w, UploadAuthority(wk[w].j))
  <2>1. \/ Raise(w)
        \/ fence' = fence /\ \E place \in {"submit", "poll", "finish"} : Goto(w, place)
    BY <1>3, Actions, ZenonT(30) DEF ReserveOperation
  <2>2. Moved(w) /\ wk'[w].pc # "post" /\ (fence' = fence \/ Unlocked(w))
    BY <1>1, <2>1, GotoMoves, ZenonT(30)
  <2> QED
    BY <1>0, <2>2, ZenonT(30)
<1>4. CASE \E preflight \in BOOLEAN : MarkAttempting(w, UploadAuthority(wk[w].j), preflight)
  <2>1. Raise(w) \/ (fence' = fence /\ Goto(w, "attempted"))
    BY <1>4, ZenonT(30) DEF MarkAttempting, PreflightFails
  <2>2. Moved(w) /\ wk'[w].pc # "post" /\ (fence' = fence \/ Unlocked(w))
    BY <1>1, <2>1, GotoMoves, SMTT(30)
  <2> QED
    BY <1>0, <2>2, ZenonT(30)
<1>5. CASE \E ack \in {"ok", "lost", "refused"} : PostUpload(w, ack)
  <2>1. Moved(w) /\ wk'[w].pc = "posted" /\ fence' = fence
    BY <1>5, SMTT(30) DEF PostUpload, UploadInv, UploadShape, Moved
  <2> QED
    BY <1>0, <2>1, ZenonT(30)
<1>6. CASE RecordAnswer(w) \/ PollManager(w) \/ \E uncertain \in BOOLEAN : PollGivesUp(w, uncertain)
  <2>1. Raise(w) \/ (Unlocked(w) /\ Goto(w, "poll")) \/ (fence' = fence /\ Goto(w, "finish"))
    BY <1>6, ZenonT(30) DEF RecordAnswer, PollManager, PollGivesUp
  <2>2. Moved(w) /\ wk'[w].pc # "post" /\ (fence' = fence \/ Unlocked(w))
    BY <1>1, <2>1, GotoMoves, SMTT(30)
  <2> QED
    BY <1>0, <2>2, ZenonT(30)
<1>7. CASE FinishNode(w) \/ WorkerCrash(w)
  <2>1. Leave(w) /\ (fence' = fence \/ Unlocked(w))
    BY <1>7, ZenonT(30) DEF FinishNode, WorkerCrash
  <2>2. Moved(w) /\ wk'[w].pc # "post"
    BY <2>1, LeaveMoves, ZenonT(30)
  <2> QED
    BY <1>0, <2>1, <2>2, ZenonT(30)
<1>8. CASE LeaseEnds(w)
  BY <1>8, ZenonT(30) DEF LeaseEnds
<1> QED
  BY <1>2, <1>3, <1>4, <1>5, <1>6, <1>7, <1>8, ZenonT(30) DEF WorkerStep, WorkerFault

LEMMA WorkerKeeps ==
    ASSUME Owned, UploadInv, OwnedInv, NEW w \in Workers, WorkerStep(w) \/ WorkerFault(w)
    PROVE  OwnedInv'
<1> DEFINE j == wk[w].j
<1>0. UploadShape /\ OwnedShape /\ j \in Jobs
  BY ZenonT(30) DEF UploadInv, UploadShape, OwnedInv
<1>1. JobsQuiet /\ UNCHANGED <<promo, pposts, rn, task, plan, inv, item, chan, pub>>
  BY <1>0, WorkerJobs, ZenonT(30)
<1>2. Quiet /\ Frozen
  BY <1>0, <1>1, SameQuiet, ZenonT(30) DEF Quiet, PromoQuiet, RunnerQuiet, Frozen
<1>3. FenceInv'
  <2>1. CASE ~AcquireFence(w, UploadAuthority(j)) \/ Raise(w)
    <3>0. /\ \A v \in Workers : wk'[v].pc = "post" => wk'[v] = wk[v] /\ (v = w => fence' = fence)
          /\ fence # w => fence' = fence
      <4>1. CASE Raise(w)
        <5>1. Moved(w) /\ wk'[w].pc = "idle" /\ Unlocked(w)
          BY <4>1, LeaveMoves, ZenonT(30) DEF Raise
        <5> QED
          BY <5>1, ZenonT(30) DEF Moved, Unlocked
      <4>2. CASE ~Raise(w)
        BY <2>1, <4>2, WorkerFences, ZenonT(30)
      <4> QED
        BY <4>1, <4>2, ZenonT(30)
    <3>1. \A v \in Workers : wk'[v].pc = "post" => (wk'[v] = wk[v] /\ fence' = fence)
      BY <3>0, ZenonT(30) DEF OwnedInv, FenceInv
    <3>2. At("promote", "post")' => (rn' = rn /\ fence' = fence)
      BY <1>1, <3>0, FenceAssumption, ZenonT(30) DEF OwnedInv, FenceInv, At
    <3> QED
      BY <1>0, <1>2, <3>1, <3>2, FrozenFence, ZenonT(30)
  <2>2. CASE AcquireFence(w, UploadAuthority(j)) /\ ~Raise(w)
    <3>1. Free /\ UploadAuthority(j) /\ fence' = w /\ Goto(w, "post") /\ UNCHANGED job
      BY <2>2, ZenonT(30) DEF AcquireFence
    <3>2. \A v \in Workers \ {w} : wk'[v].pc # "post"
      BY <3>1, NobodyPosts, GotoMoves, ZenonT(30) DEF OwnedInv, Moved
    <3>3. wk'[w].j = j
      BY <3>1, GotoMoves, ZenonT(30)
    <3>4. UploadProducer(j)
      BY <3>1, ZenonT(30) DEF UploadAuthority
    <3>5. j[1] \in Tasks /\ j[2] # 0 /\ j = <<j[1], j[2]>>
      BY <1>0, SMTT(30) DEF Jobs
    <3>6. Live /\ item[j[1]] = "reserved" /\ ~chan.halted /\ chan.cfg = "same" /\ task[j[1]].job = j[2]
          /\ ExpectedAuthority(plan[j[1]], task[j[1]].exp)
      BY <3>4, ZenonT(30) DEF UploadProducer, SameConfiguration
    <3>7. j[2] = 1 /\ job[BoundJob(j[1])].rev = task[j[1]].exp
      BY <3>5, <3>6, ZenonT(30) DEF OwnedInv, BoundInv
    <3>8. j = BoundJob(j[1])
      BY <3>5, <3>7, ZenonT(30) DEF BoundJob
    <3>9. Entitled(j[1], job[j].rev)
      BY <3>6, <3>7, <3>8, ZenonT(30) DEF Entitled
    <3>10. Entitled(wk[w].j[1], job[wk[w].j].rev)'
      BY <1>1, <3>1, <3>3, <3>9, StillEntitled, <1>2, ZenonT(30) DEF Entitled
    <3>11. ~At("promote", "post")'
      BY <1>1, <3>1, NobodyPosts, ZenonT(30) DEF OwnedInv, At
    <3> QED
      BY <3>1, <3>2, <3>10, <3>11, ZenonT(30) DEF FenceInv
  <2> QED
    BY <2>1, <2>2, ZenonT(30)
<1> QED
  BY <1>2, <1>3, QuietShape, QuietPromotion, QuietBound, ZenonT(30) DEF OwnedInv

-----------------------------------------------------------------------------
(* The theorems. *)

\* Under an inventory only PostPromotion sends a promotion.
LEMMA PromotionFrame ==
    ASSUME Owned, Next, ~\E ok \in BOOLEAN : PostPromotion(ok)
    PROVE  UNCHANGED pposts
<1> USE DEF recordVars
<1>1. CASE QueueStep \/ TickStep \/ HandlerFails \/ RunnerCrash
  BY <1>1, ZenonT(30) DEF QueueStep, ClaimItem, TickStep, OwnedTick, OwnedTickFinish, PlainTick, HandlerFails,
    RunnerCrash
<1>2. CASE OwnedStep
  BY <1>2, ZenonT(30) DEF OwnedStep, PlanOwned, StorePlanPolicy, ApproveOwnedPlan, FinishPlan, ExecuteOwned,
    FinishExecute, ObserveOwned, PublishOwned, PreparePromotion, ReservePromotion, PromotionFence,
    SettlePromotion, ReconcileOwned, CollectOwned
<1>3. CASE PlainStep
  BY <1>3, ZenonT(30) DEF PlainStep, PlanPlain, ApprovePlainPlan, CommitPlan, ExecutePlain, BindJob,
    ObservePlain, PublishPlain, CheckPromotion, PostPlain, CommitPromotion, QueueReconcile, ReconcilePlain,
    CollectPlain, MarkSucceeded, PlainAt
<1>4. CASE OperatorStep
  BY <1>4, OperatorFrame, ZenonT(30) DEF operatorFrame
<1>5. CASE TimeStep
  BY <1>5, ZenonT(30) DEF TimeStep, WindowEnds, DayPasses, MetricsDue, MetricsLate, timeFrame
<1>6. CASE \/ \E j \in Jobs : JobStep(j)
           \/ \E w \in Workers : WorkerStep(w) \/ WorkerFault(w)
  BY <1>6, ZenonT(30) DEF JobStep, StartWaiting, WorkerStep, WorkerFault, agentVars
<1> QED
  BY <1>1, <1>2, <1>3, <1>4, <1>5, <1>6, ZenonT(30) DEF Next, RunnerStep

\* A worker takes the fence in AcquireFence only.
LEMMA FenceTaken ==
    ASSUME Next, NEW w \in Workers, fence # w, fence' = w
    PROVE  \E v \in Workers : UploadAuthority(wk[v].j)
<1>1. fence' # fence /\ fence' # NoOne /\ fence' # Runner
  BY FenceAssumption, ZenonT(30)
<1>2. ~(QueueStep \/ TickStep \/ HandlerFails \/ RunnerCrash)
  BY <1>1, ZenonT(30) DEF QueueStep, ClaimItem, TickStep, OwnedTick, OwnedTickFinish, PlainTick, HandlerFails,
    RunnerCrash, Unlock
<1>3. ~OwnedStep
  BY <1>1, ZenonT(30) DEF OwnedStep, PlanOwned, StorePlanPolicy, ApproveOwnedPlan, FinishPlan, ExecuteOwned,
    FinishExecute, ObserveOwned, PublishOwned, PreparePromotion, ReservePromotion, PromotionFence,
    PostPromotion, SettlePromotion, ReconcileOwned, CollectOwned, Unlock
<1>4. ~PlainStep
  BY <1>1, ZenonT(30) DEF PlainStep, PlanPlain, ApprovePlainPlan, CommitPlan, ExecutePlain, BindJob,
    ObservePlain, PublishPlain, CheckPromotion, PostPlain, CommitPromotion, QueueReconcile, ReconcilePlain,
    CollectPlain, MarkSucceeded
<1>5. ~OperatorStep
  BY <1>1, OperatorFrame, ZenonT(30) DEF operatorFrame
<1>6. ~TimeStep /\ ~\E j \in Jobs : JobStep(j)
  BY <1>1, ZenonT(30) DEF TimeStep, WindowEnds, DayPasses, MetricsDue, MetricsLate, timeFrame, uploadVars,
    JobStep, StartWaiting, CancelJob, ManagerSettles
<1>7. PICK v \in Workers : WorkerStep(v) \/ WorkerFault(v)
  BY <1>2, <1>3, <1>4, <1>5, <1>6, ZenonT(30) DEF Next, RunnerStep
<1>8. AcquireFence(v, UploadAuthority(wk[v].j))
  BY <1>1, <1>7, ZenonT(30) DEF WorkerStep, WorkerFault, ClaimNode, ReserveOperation, MarkAttempting,
    PreflightFails, PostUpload, RecordAnswer, PollManager, FinishNode, WorkerCrash, LeaseEnds, PollGivesUp,
    Raise, Unlocked
<1> QED
  BY <1>1, <1>8, ZenonT(30) DEF AcquireFence, Raise, Unlocked

Inv == UploadInv /\ KindShape /\ (Owned => OwnedInv)

LEMMA Initially == Init => Inv
<1> SUFFICES ASSUME Init  PROVE Inv
  BY ZenonT(30)
<1>1. UploadShape
  BY IdleShape, ZenonT(30) DEF Init, UploadInit, UploadShape
<1>2. UploadInv
  BY <1>1, IdleShape, SMTT(30) DEF Init, UploadInit, UploadInv, OnePost, Posting
<1>3. KindShape
  BY ZenonT(30) DEF Init, AgentInit, KindShape
<1>4. OwnedShape
  BY RestingShape, ZenonT(30) DEF Init, AutoFlowInit, AgentInit, OwnedShape, NoTask
<1>5. PromotionInv
  BY RestingShape, SMTT(30) DEF Init, AgentInit, PromotionInv, At
<1>6. BoundInv
  BY RestingShape, ZenonT(30) DEF Init, AgentInit, BoundInv, NoTask
<1>7. FenceInv
  BY RestingShape, IdleShape, ZenonT(30) DEF Init, UploadInit, FenceInv, At
<1> QED
  BY <1>2, <1>3, <1>4, <1>5, <1>6, <1>7, ZenonT(30) DEF Inv, OwnedInv

LEMMA OwnedKeeps == ASSUME UploadInv, KindShape, Owned, OwnedInv, Next  PROVE OwnedInv'
<1>0. UploadShape
  BY ZenonT(30) DEF UploadInv
<1>1. CASE QueueStep \/ MarkSucceeded \/ HandlerFails \/ RunnerCrash
  BY <1>0, <1>1, RunnerAnytime, ZenonT(30)
<1>2. CASE OwnedStep
  BY <1>2, PlanHandler, ExecuteHandler, ObserveAndPublish, PromoteHandler, ReconcileAndCollect, ZenonT(30) DEF
    OwnedStep
<1>3. CASE PlainStep /\ ~MarkSucceeded
  BY <1>3, ZenonT(30) DEF PlainStep, PlanPlain, ApprovePlainPlan, CommitPlan, ExecutePlain, BindJob,
    ObservePlain, PublishPlain, CheckPromotion, PostPlain, CommitPromotion, QueueReconcile, ReconcilePlain,
    CollectPlain, PlainAt
<1>4. CASE TickStep
  BY <1>4, FirstReading, SecondReading, ZenonT(30) DEF TickStep, PlainTick
<1>5. CASE \E w \in Workers : WorkerStep(w) \/ WorkerFault(w)
  BY <1>5, WorkerKeeps, ZenonT(30)
<1>6. CASE \E j \in Jobs : JobStep(j)
  BY <1>0, <1>6, JobKeeps, ZenonT(30)
<1>7. CASE OperatorStep \/ TimeStep
  BY <1>0, <1>7, OperatorKeeps, TimeKeeps, ZenonT(30)
<1> QED
  BY <1>1, <1>2, <1>3, <1>4, <1>5, <1>6, <1>7, ZenonT(30) DEF Next, RunnerStep

LEMMA Inductive == Inv /\ [Next]_vars => Inv'
<1> SUFFICES ASSUME Inv, [Next]_vars  PROVE Inv'
  BY ZenonT(30)
<1>1. CASE Next
  <2>1. UploadInv'
    <3>1. CASE \E w \in Workers : WorkerStep(w) \/ WorkerFault(w)
      BY <3>1, WorkerUploadInv, ZenonT(30) DEF Inv
    <3>2. CASE ~\E w \in Workers : WorkerStep(w) \/ WorkerFault(w)
      <4>1. UNCHANGED <<op, wk, posts>>
        BY <1>1, <3>2, UploadFrame, ZenonT(30) DEF Next
      <4> QED
        BY <4>1, ZenonT(30) DEF Inv, UploadInv, UploadShape, OnePost, Posting
    <3> QED
      BY <3>1, <3>2, ZenonT(30)
  <2>2. KindShape' /\ (Owned' => Owned)
    BY <1>1, KindKept, ZenonT(30) DEF Inv, SameKind, Owned
  <2> QED
    BY <1>1, <2>1, <2>2, OwnedKeeps, ZenonT(30) DEF Inv
<1>2. CASE UNCHANGED vars
  <2>1. UNCHANGED <<op, wk, posts, fence, plan, job, chan, inv, item, task, pub, promo, pposts, rn>>
    BY <1>2, ZenonT(30) DEF vars, autoflowVars, uploadVars, agentVars, inventoryVars, recordVars
  <2>2. UploadInv' /\ KindShape' /\ (Owned' => Owned)
    BY <2>1, ZenonT(30) DEF Inv, UploadInv, UploadShape, OnePost, Posting, KindShape, Owned
  <2>3. OwnedInv => OwnedInv'
    BY <2>1, ZenonT(30) DEF OwnedInv, OwnedShape, PromotionInv, BoundInv, FenceInv, At, Entitled, Live,
      ExpectedAuthority
  <2> QED
    BY <2>2, <2>3, ZenonT(30) DEF Inv
<1> QED
  BY <1>1, <1>2, ZenonT(30)

\* No job's video is posted twice, and no owned publication is promoted by
\* two requests (claim and _action_for, _promote_owned): for any number of
\* workers, retries, crashes and lost answers.
THEOREM OneEffectEach == Spec => []EffectsAtMostOnce
<1>1. Inv => EffectsAtMostOnce
  <2> SUFFICES ASSUME Inv  PROVE EffectsAtMostOnce
    BY ZenonT(30)
  <2>1. \A j \in Jobs : posts[j] <= 1
    BY SMTT(30) DEF Inv, UploadInv, UploadShape, OnePost
  <2>2. Owned => \A t \in Tasks : pposts[t] <= 1
    BY SMTT(30) DEF Inv, OwnedInv, OwnedShape, PromotionInv
  <2> QED
    BY <2>1, <2>2, ZenonT(30) DEF EffectsAtMostOnce
<1> QED
  BY <1>1, Initially, Inductive, PTL DEF Spec

\* Every upload and every promotion of an owned task is sent while the
\* inventory, the channel and the plan still allow it (mark_attempting and
\* its fence, _promote_owned): whatever operators, ticks and feedback do in
\* between the transactions.  Lane and format are as approved when a
\* promotion is sent, and when the fence of an upload is taken.
THEOREM EffectsHaveAuthority == Spec => EffectsAreAuthorized
<1> DEFINE Sent ==
      Owned => /\ \A t \in Tasks : pposts'[t] > pposts[t] =>
                      /\ Live /\ item[t] = "reserved" /\ ~chan.halted /\ SameConfiguration
                      /\ ExpectedAuthority(plan[t], plan[t].rev) /\ pub[t] = "uploaded"
               /\ \A j \in Jobs : posts'[j] > posts[j] =>
                      /\ Live /\ item[j[1]] = "reserved" /\ ~chan.halted /\ chan.cfg = "same"
                      /\ ExpectedAuthority(plan[j[1]], job[j].rev)
               /\ \A w \in Workers : (fence # w /\ fence' = w) => SameConfiguration
<1>1. Inv /\ Next => Sent
  <2> SUFFICES ASSUME Inv, Next, Owned  PROVE Sent
    BY ZenonT(30)
  <2>0. OwnedInv /\ OwnedShape /\ UploadInv /\ UploadShape
    BY ZenonT(30) DEF Inv, OwnedInv, UploadInv
  <2>1. ASSUME NEW t \in Tasks, pposts'[t] > pposts[t]
        PROVE  Entitled(t, plan[t].rev) /\ pub[t] = "uploaded" /\ chan.lane = "same"
    <3>1. pposts' # pposts
      BY <2>0, <2>1, SMTT(30) DEF OwnedShape
    <3>2. PICK ok \in BOOLEAN : PostPromotion(ok)
      BY <3>1, PromotionFrame, ZenonT(30)
    <3>3. At("promote", "post") /\ pposts' = [pposts EXCEPT ![rn.t] = @ + 1]
      BY <3>2, ZenonT(30) DEF PostPromotion
    <3>4. t = rn.t
      BY <2>0, <2>1, <3>3, SMTT(30) DEF OwnedShape
    <3> QED
      BY <2>0, <3>3, <3>4, ZenonT(30) DEF OwnedInv, FenceInv
  <2>2. ASSUME NEW j \in Jobs, posts'[j] > posts[j]
        PROVE  Entitled(j[1], job[j].rev)
    <3>1. posts' # posts
      BY <2>0, <2>2, SMTT(30) DEF UploadShape
    <3>2. PICK w \in Workers : WorkerStep(w) \/ WorkerFault(w)
      BY <3>1, UploadFrame, ZenonT(30) DEF Next
    <3>3. PICK ack : PostUpload(w, ack)
      BY <3>1, <3>2, ZenonT(30) DEF WorkerStep, WorkerFault, ClaimNode, ReserveOperation, MarkAttempting,
        AcquireFence, RecordAnswer, PollManager, FinishNode, WorkerCrash, LeaseEnds, PollGivesUp
    <3>4. wk[w].pc = "post" /\ posts' = [posts EXCEPT ![wk[w].j] = @ + 1]
      BY <3>3, ZenonT(30) DEF PostUpload
    <3>5. j = wk[w].j
      BY <2>0, <2>2, <3>4, SMTT(30) DEF UploadShape
    <3> QED
      BY <2>0, <3>4, <3>5, ZenonT(30) DEF OwnedInv, FenceInv
  <2>3. ASSUME NEW w \in Workers, fence # w, fence' = w  PROVE SameConfiguration
    BY <2>3, FenceTaken, ZenonT(30) DEF UploadAuthority, UploadProducer
  <2> QED
    BY <2>1, <2>2, <2>3, ZenonT(30) DEF Entitled, SameConfiguration
<1>2. Inv /\ [Next]_vars => [Sent]_vars
  BY <1>1, ZenonT(30)
<1> HIDE DEF Sent
<1>3. Spec => [][Sent]_vars
  BY <1>2, Initially, Inductive, PTL DEF Spec
<1> QED
  BY <1>3, ZenonT(30) DEF Sent, EffectsAreAuthorized

-----------------------------------------------------------------------------
(* Items are used in order. *)

\* The item a tick is about to admit comes after every used one.
OrderInv == OneItemAtATime /\ (rn.pc = "tick" => \A u \in Tasks : u < rn.t => item[u] # "unused")

ItemStates == DOMAIN item = Tasks /\ \A t \in Tasks : item[t] \in {"unused", "reserved", "completed"}

\* Items of another channel are never used.
ItemInv ==
    /\ ItemStates /\ DOMAIN cool = Tasks
    /\ Owned => OrderInv
    /\ ~Owned => Used = {}

CoolGrows == DOMAIN cool' = Tasks /\ \A t \in Tasks : cool[t] => cool'[t]

LEMMA DaysPass == ASSUME DOMAIN cool = Tasks, Next  PROVE CoolGrows
<1>0. UNCHANGED cool => CoolGrows
  BY ZenonT(30) DEF CoolGrows
<1>1. ASSUME RunnerStep \/ HandlerFails \/ RunnerCrash  PROVE UNCHANGED cool
  BY <1>1, RunnerFrame, ZenonT(30) DEF runnerFrame
<1>2. ASSUME OperatorStep  PROVE UNCHANGED cool
  BY <1>2, OperatorFrame, ZenonT(30) DEF operatorFrame, clockVars
<1>3. ASSUME \/ \E w \in Workers : WorkerStep(w) \/ WorkerFault(w)
             \/ \E j \in Jobs : JobStep(j)
      PROVE  UNCHANGED cool
  BY <1>3, ZenonT(30) DEF WorkerStep, WorkerFault, JobStep, StartWaiting, agentVars, clockVars
<1>4. CASE TimeStep
  <2>1. ASSUME NEW t \in Tasks, DayPasses(t)  PROVE CoolGrows
    BY <2>1, ZenonT(30) DEF DayPasses, CoolGrows
  <2>2. CASE WindowEnds \/ \E t \in Tasks : MetricsDue(t) \/ MetricsLate(t)
    BY <1>0, <2>2, ZenonT(30) DEF WindowEnds, MetricsDue, MetricsLate, clockVars
  <2> QED
    BY <1>4, <2>1, <2>2, ZenonT(30) DEF TimeStep
<1> QED
  BY <1>0, <1>1, <1>2, <1>3, <1>4, ZenonT(30) DEF Next

\* Outside a tick an item is only completed.
LEMMA OtherSteps ==
    ASSUME DOMAIN item = Tasks, Next, ~TickStep  PROVE ItemQuiet
<1>0. (UNCHANGED item => ItemQuiet) /\ (UNCHANGED inventoryVars => UNCHANGED item)
  BY ZenonT(30) DEF ItemQuiet, inventoryVars
<1>1. CASE PlainStep \/ QueueStep
  BY <1>0, <1>1, PlainKeepsInventory, ZenonT(30)
<1>2. CASE HandlerFails \/ RunnerCrash
  BY <1>0, <1>2, ZenonT(30) DEF HandlerFails, RunnerCrash
<1>3. CASE OwnedStep /\ ~\E ok \in BOOLEAN : ReconcileOwned(ok)
  <2>1. Hold => UNCHANGED item
    BY ZenonT(30) DEF Hold
  <2> QED
    BY <1>0, <1>3, <2>1, ZenonT(30) DEF OwnedStep, PlanOwned, StorePlanPolicy, ApproveOwnedPlan, FinishPlan,
      ExecuteOwned, FinishExecute, ObserveOwned, PublishOwned, PreparePromotion, ReservePromotion,
      PromotionFence, PostPromotion, SettlePromotion, CollectOwned
<1>4. ASSUME NEW ok \in BOOLEAN, ReconcileOwned(ok)  PROVE ItemQuiet
  <2> DEFINE after == Complete(q, "reconcile", rn.t)
  <2>1. UNCHANGED item \/ item' = Settle(FinishedIn(after) \cap {rn.t})
    BY <1>4, ZenonT(30) DEF ReconcileOwned, FinalizeItems, Hold
  <2>2. FinishedIn(after) \cap {rn.t} \in SUBSET Used
    BY ZenonT(30) DEF FinishedIn
  <2> QED
    BY <1>0, <2>1, <2>2, SettleQuiet, ZenonT(30)
<1>5. CASE OperatorStep
  <2>1. UNCHANGED item \/ item' = Settle(FeedbackCompletes)
    BY <1>5, ZenonT(30) DEF OperatorStep, SetHalted, PatchChannel, EditLane, InventoryApi, CreateInventory,
      ApproveInventory, OpenIntake, RecoverInventory, RevokeInventory, Feedback, PlanApi, RejectPublication,
      PromotePublication, ReleaseReview, SetSchedule, inventoryVars
  <2>2. FeedbackCompletes \in SUBSET Used
    BY FinishedAreUsed, ZenonT(30) DEF FeedbackCompletes
  <2> QED
    BY <1>0, <2>1, <2>2, SettleQuiet, ZenonT(30)
<1>6. CASE \/ \E w \in Workers : WorkerStep(w) \/ WorkerFault(w)
           \/ \E j \in Jobs : JobStep(j)
           \/ TimeStep
  BY <1>0, <1>6, ZenonT(30) DEF WorkerStep, WorkerFault, JobStep, StartWaiting, agentVars, TimeStep,
    WindowEnds, DayPasses, MetricsDue, MetricsLate, timeFrame
<1> QED
  BY <1>1, <1>2, <1>3, <1>4, <1>5, <1>6, ZenonT(30) DEF Next, RunnerStep

\* Under an inventory only a tick brings the runner into a tick.
LEMMA OtherPlaces ==
    ASSUME Owned, OwnedShape, Next, ~TickStep  PROVE rn'.pc = "tick" => rn' = rn
<1>1. CASE QueueStep \/ MarkSucceeded \/ HandlerFails \/ RunnerCrash
  BY <1>1, RunnerMoves, ZenonT(30)
<1>2. CASE PlainStep /\ ~MarkSucceeded
  BY <1>2, ZenonT(30) DEF PlainStep, PlanPlain, ApprovePlainPlan, CommitPlan, ExecutePlain, BindJob,
    ObservePlain, PublishPlain, CheckPromotion, PostPlain, CommitPromotion, QueueReconcile, ReconcilePlain,
    CollectPlain, PlainAt
<1>3. CASE OwnedStep
  <2>1. \/ rn' = Resting
        \/ \E place \in {"planned", "approve", "approved", "executed", "fence", "post"} :
              rn' = [rn EXCEPT !.pc = place]
        \/ \E place \in {"prepared", "settle"} : \E a : rn' = [rn EXCEPT !.pc = place, !.ans = a]
    <3>1. CASE PlanOwned \/ (\E allow \in BOOLEAN : StorePlanPolicy(allow)) \/ ApproveOwnedPlan \/ FinishPlan
      BY <3>1, ZenonT(30) DEF PlanOwned, StorePlanPolicy, ApproveOwnedPlan, FinishPlan, Hold, Rest, Move,
        Retry
    <3>2. CASE ExecuteOwned \/ FinishExecute \/ ObserveOwned \/ PublishOwned
      BY <3>2, ZenonT(30) DEF ExecuteOwned, FinishExecute, ObserveOwned, PublishOwned, Hold, Rest, Move
    <3>3. CASE PreparePromotion \/ (\E allow \in BOOLEAN : ReservePromotion(allow)) \/ PromotionFence
      BY <3>3, ZenonT(30) DEF PreparePromotion, ReservePromotion, PromotionFence, Hold, Rest, Move
    <3>4. CASE \E ok \in BOOLEAN : PostPromotion(ok) \/ SettlePromotion(ok) \/ ReconcileOwned(ok) \/ CollectOwned(ok)
      BY <3>4, ZenonT(30) DEF PostPromotion, SettlePromotion, ReconcileOwned, CollectOwned, Hold, Rest
    <3> QED
      BY <1>3, <3>1, <3>2, <3>3, <3>4, ZenonT(30) DEF OwnedStep
  <2>2. CASE rn' = Resting
    BY <2>2, RestingShape, ZenonT(30)
  <2>3. ASSUME NEW place \in {"planned", "approve", "approved", "executed", "fence", "post"},
               rn' = [rn EXCEPT !.pc = place]
        PROVE  rn'.pc # "tick"
    BY <2>3, ZenonT(30) DEF OwnedShape
  <2>4. ASSUME NEW place \in {"prepared", "settle"}, NEW a, rn' = [rn EXCEPT !.pc = place, !.ans = a]
        PROVE  rn'.pc # "tick"
    BY <2>4, ZenonT(30) DEF OwnedShape
  <2> QED
    BY <2>1, <2>2, <2>3, <2>4, ZenonT(30)
<1>4. CASE \/ \E w \in Workers : WorkerStep(w) \/ WorkerFault(w)
           \/ \E j \in Jobs : JobStep(j)
           \/ TimeStep \/ OperatorStep
  <2>1. UNCHANGED rn
    BY <1>4, OperatorFrame, ZenonT(30) DEF WorkerStep, WorkerFault, JobStep, StartWaiting, TimeStep,
      WindowEnds, DayPasses, MetricsDue, MetricsLate, timeFrame, operatorFrame
  <2> QED
    BY <2>1, ZenonT(30)
<1> QED
  BY <1>1, <1>2, <1>3, <1>4, ZenonT(30) DEF Next, RunnerStep

\* A clean history of a used item: it is or will be completed, and its day
\* is over.
LEMMA CleanIsFinished ==
    ASSUME NEW u \in Used, History(u) = "clean"
    PROVE  cool[u] /\ (item[u] = "reserved" => u \in FinishedItems)
<1>1. Settling(u) = "clean"
  BY ZenonT(30) DEF History, HistoryIn
<1>2. cool[u]
  BY <1>1, ZenonT(30) DEF Settling
<1> QED
  BY <1>2, ZenonT(30) DEF FinishedItems, FinishedIn, History


LEMMA StatesQuiet == ASSUME ItemStates, ItemQuiet  PROVE ItemStates'
  BY ZenonT(30) DEF ItemStates, ItemQuiet

LEMMA OrderQuiet ==
    ASSUME OrderInv, ItemQuiet, CoolGrows, rn'.pc = "tick" => rn' = rn  PROVE OrderInv'
<1>1. OneItemAtATime'
  BY ZenonT(30) DEF OrderInv, OneItemAtATime, ItemQuiet, CoolGrows
<1>2. rn'.pc = "tick" => \A u \in Tasks : u < rn'.t => item'[u] # "unused"
  BY ZenonT(30) DEF OrderInv, ItemQuiet
<1> QED
  BY <1>1, <1>2, ZenonT(30) DEF OrderInv

LEMMA TickOrder ==
    ASSUME OwnedInv, ItemInv, Owned, TickStep, CoolGrows
    PROVE  OrderInv' /\ ItemStates'
<1> DEFINE t == rn.t
<1>0. OwnedShape /\ OrderInv /\ t \in Tasks /\ ItemStates
  BY ZenonT(30) DEF OwnedInv, OwnedShape, ItemInv
<1>1. CASE \E ok \in BOOLEAN : OwnedTick(ok)
  <2>1. \/ UNCHANGED rn /\ (UNCHANGED item \/ item' = Settle(FinishedItems))
        \/ /\ UNCHANGED item /\ Unused # {}
           /\ rn' = [Resting EXCEPT !.pc = "tick", !.t = Next1(Unused)]
    BY <1>1, ZenonT(30) DEF OwnedTick, TickHolds, TickCompletes, Ready
  <2>2. ItemQuiet
    BY <1>0, <2>1, SettleQuiet, FinishedAreUsed, SameQuiet, ZenonT(30)
  <2>3. CASE UNCHANGED rn
    BY <1>0, <2>2, <2>3, OrderQuiet, StatesQuiet, ZenonT(30)
  <2>4. CASE ~UNCHANGED rn
    <3>1. UNCHANGED item /\ Unused # {} /\ rn' = [Resting EXCEPT !.pc = "tick", !.t = Next1(Unused)]
      BY <2>1, <2>4, ZenonT(30)
    <3>2. rn'.t = Next1(Unused)
      BY <3>1, TickShape, ZenonT(30)
    <3>3. Next1(Unused) \in Tasks /\ Next1(Unused) \in Nat /\ \A u \in Unused : Next1(Unused) <= u
      BY <3>1, NextIsUnused, ItemsAssumption, SMTT(30) DEF Unused, Tasks
    <3>4. ASSUME NEW u \in Tasks, u < rn'.t  PROVE item'[u] # "unused"
      <4>1. u \in Nat /\ ~(Next1(Unused) <= u)
        BY <3>2, <3>3, <3>4, ItemsAssumption, SMTT(30) DEF Tasks
      <4>2. u \notin Unused
        BY <3>3, <4>1, ZenonT(30)
      <4> QED
        BY <3>1, <4>2, ZenonT(30) DEF Unused, Used
    <3>5. OneItemAtATime'
      BY <1>0, <3>1, ZenonT(30) DEF OrderInv, OneItemAtATime, CoolGrows
    <3> QED
      BY <1>0, <3>1, <3>4, <3>5, ZenonT(30) DEF OrderInv, ItemStates
  <2> QED
    BY <2>3, <2>4, ZenonT(30)
<1>2. CASE \E allow \in BOOLEAN : OwnedTickFinish(allow)
  <2>1. /\ rn.pc = "tick" /\ rn' = Resting
        /\ UNCHANGED item \/ item' = Settle(FinishedItems) \/ (Ready /\ Admit(t))
    BY <1>2, ZenonT(30) DEF OwnedTickFinish, TickHolds, TickCompletes, Rest
  <2>2. rn'.pc # "tick"
    BY <2>1, RestingShape, ZenonT(30)
  <2>3. CASE UNCHANGED item \/ item' = Settle(FinishedItems)
    <3>1. ItemQuiet
      BY <1>0, <2>3, SettleQuiet, FinishedAreUsed, SameQuiet, ZenonT(30)
    <3> QED
      BY <1>0, <2>2, <3>1, OrderQuiet, StatesQuiet, ZenonT(30)
  <2>4. CASE Ready /\ Admit(t)
    <3>1. item' = [Settle(FinishedItems) EXCEPT ![t] = "reserved"]
      BY <2>4, ZenonT(30) DEF Admit
    <3>2. \A v \in Used : History(v) = "clean"
      BY <2>4, ZenonT(30) DEF Ready
    <3>3. \A v \in Used : cool[v] /\ (item[v] = "reserved" => v \in FinishedItems)
      BY <3>2, CleanIsFinished, ZenonT(30)
    <3>4. item[t] = "unused" /\ t \notin Used
      BY <2>1, ZenonT(30) DEF OwnedInv, BoundInv, Used
    <3>5. DOMAIN Settle(FinishedItems) = Tasks
      BY ZenonT(30) DEF Settle
    <3>6. item'[t] = "reserved"
      BY <1>0, <3>1, <3>5, ZenonT(30)
    <3>7. ASSUME NEW v \in Tasks, v # t  PROVE item'[v] = IF v \in FinishedItems THEN "completed" ELSE item[v]
      BY <1>0, <3>1, <3>7, ZenonT(30) DEF Settle
    <3>8. ASSUME NEW x \in Tasks, NEW u \in Tasks, u < x, item'[x] # "unused"
          PROVE  item'[u] = "completed" /\ cool'[u]
      <4>1. x \in Nat /\ u \in Nat /\ t \in Nat
        BY <1>0, ItemsAssumption, SMTT(30) DEF Tasks
      <4>2. CASE x = t
        <5>1. u \in Used /\ u # t
          BY <1>0, <2>1, <3>8, <4>1, <4>2, SMTT(30) DEF OrderInv, Used
        <5>2. cool[u] /\ (item[u] = "reserved" => u \in FinishedItems)
          BY <3>3, <5>1, ZenonT(30)
        <5> QED
          BY <1>0, <3>7, <5>1, <5>2, ZenonT(30) DEF Used, CoolGrows, ItemStates
      <4>3. CASE x # t
        <5>1. item[x] # "unused"
          BY <3>7, <3>8, <4>3, FinishedAreUsed, ZenonT(30) DEF Used
        <5>2. item[u] = "completed" /\ cool[u]
          BY <1>0, <3>8, <5>1, ZenonT(30) DEF OrderInv, OneItemAtATime
        <5> QED
          BY <3>4, <3>7, <5>2, ZenonT(30) DEF CoolGrows
      <4> QED
        BY <4>2, <4>3, ZenonT(30)
    <3>9. ItemStates'
      BY <1>0, <3>1, ZenonT(30) DEF Settle, ItemStates
    <3> QED
      BY <2>2, <3>8, <3>9, ZenonT(30) DEF OrderInv, OneItemAtATime
  <2> QED
    BY <2>1, <2>3, <2>4, ZenonT(30)
<1> QED
  BY <1>1, <1>2, ZenonT(30) DEF TickStep, PlainTick

LEMMA ItemsKept == ASSUME Inv, ItemInv, Next  PROVE ItemInv'
<1>1. CoolGrows /\ (Owned' <=> Owned)
  BY DaysPass, KindKept, ZenonT(30) DEF ItemInv, Inv, SameKind, Owned
<1>2. CASE TickStep /\ Owned
  BY <1>1, <1>2, TickOrder, ZenonT(30) DEF Inv, ItemInv, CoolGrows
<1>3. CASE ~TickStep
  <2>1. ItemQuiet
    BY <1>3, OtherSteps, ZenonT(30) DEF ItemInv, ItemStates
  <2>2. ItemStates'
    BY <2>1, StatesQuiet, ZenonT(30) DEF ItemInv
  <2>3. Owned => OrderInv'
    BY <1>1, <1>3, <2>1, OrderQuiet, OtherPlaces, ZenonT(30) DEF ItemInv, Inv, OwnedInv
  <2>4. ~Owned => Used' = {}
    BY <2>1, ZenonT(30) DEF ItemInv, ItemQuiet, Used
  <2> QED
    BY <1>1, <2>2, <2>3, <2>4, ZenonT(30) DEF ItemInv, CoolGrows
<1>4. CASE TickStep /\ ~Owned
  <2>1. UNCHANGED item
    BY <1>4, ZenonT(30) DEF TickStep, OwnedTick, OwnedTickFinish, PlainTick, inventoryVars
  <2> QED
    BY <1>1, <1>4, <2>1, ZenonT(30) DEF ItemInv, ItemStates, CoolGrows, Used
<1> QED
  BY <1>2, <1>3, <1>4, ZenonT(30)

\* Nothing is used at first.
LEMMA ItemsInitially == Init => ItemInv
<1> SUFFICES ASSUME Init  PROVE ItemInv
  BY ZenonT(30)
<1>1. item = [t \in Tasks |-> "unused"] /\ cool = [t \in Tasks |-> FALSE] /\ rn = Resting
  BY ZenonT(30) DEF Init, AgentInit
<1>2. Used = {} /\ OneItemAtATime /\ ItemStates
  BY <1>1, ZenonT(30) DEF Used, ItemStates, OneItemAtATime
<1>3. rn.pc # "tick"
  BY <1>1, RestingShape, ZenonT(30)
<1>4. DOMAIN cool = Tasks
  BY <1>1, ZenonT(30)
<1> QED
  BY <1>2, <1>3, <1>4, ZenonT(30) DEF ItemInv, OrderInv

\* Every step keeps the items in order.
LEMMA ItemsStep == Inv /\ ItemInv /\ [Next]_vars => ItemInv'
<1>1. ASSUME ItemInv, UNCHANGED vars  PROVE ItemInv'
  <2>1. UNCHANGED <<item, cool, rn, chan>>
    BY <1>1, ZenonT(30) DEF vars, agentVars, inventoryVars, clockVars
  <2> QED
    BY <1>1, <2>1, ZenonT(30) DEF ItemInv, ItemStates, OrderInv, OneItemAtATime, Used, Owned
<1> QED
  BY <1>1, ItemsKept, ZenonT(30)

\* The items of an inventory are used one after the other, each only when
\* the ones before it are completed and their days over, for any number of
\* items and whatever happens between the two readings of a tick
\* (owned_inventory.finish).
THEOREM ItemsInOrder == Spec => []OneItemAtATime
<1>1. ItemInv => OneItemAtATime
  <2>1. ItemInv /\ ~Owned => OneItemAtATime
    BY ZenonT(30) DEF ItemInv, Used, OneItemAtATime
  <2> QED
    BY <2>1, ZenonT(30) DEF ItemInv, OrderInv
<1> QED
  BY <1>1, ItemsInitially, ItemsStep, Initially, Inductive, PTL DEF Spec

=============================================================================
