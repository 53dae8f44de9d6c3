------------------------- MODULE AdmissionJournal --------------------------
(***************************************************************************)
(* The durable document of one worker deployment, active.json, as the      *)
(* transaction helper reads, checks and rewrites it.  The helper's updates *)
(* are operators from a document to the set of documents they may write:   *)
(* the empty set is the helper's TransactionError.  Every write replaces   *)
(* the file atomically under the writer lock, and only by a document the   *)
(* validator accepts (Written).                                            *)
(*                                                                         *)
(* A generation is <<owner, direction>>: the candidate of a deployment is  *)
(* "forward", the fresh identity of an older image is "rollback".          *)
(* Names, images, digests, revisions and operation ids are left out: each  *)
(* is fixed by the generation it belongs to.  The candidate_restore phases *)
(* and the retirement queue are left out: no caller of the helper enters   *)
(* the former or fills the latter.  So is the first deployment of all,     *)
(* whose baseline has no control generation (legacy_no_control).           *)
(***************************************************************************)
EXTENDS Naturals, FiniteSets

CONSTANT Workers   \* the services that run under an admission grant

Owners == Workers \cup {"control", "marker"}
AppServices == Workers \cup {"api", "autoflow", "relay"}
Directions == {"forward", "rollback"}
Modes == {"safety", "final"}
NoGen == <<"none", "none">>

\* What the document journals: authorities (database roles) and the secrets
\* prepared for Docker.  The rollback marker has secrets but no authority.
Authorities == (Owners \X {"forward"}) \cup (Workers \X {"rollback"})
Secrets == Authorities \cup {<<"marker", "rollback">>} \cup ({"vision"} \X Modes)

Phases ==
  {"PREPARING", "ABORTING", "FORWARD_APPLYING", "FORWARD_VERIFIED",
   "WORKERS_PROMOTED", "MARKER_PROMOTED", "CONTROL_PROMOTED",
   "ROLLBACK_PREPARING", "ROLLBACK_APPLYING", "ROLLBACK_VERIFIED",
   "ROLLBACK_WORKERS_PROMOTED", "ROLLBACK_MARKER_PROMOTED",
   "ROLLBACK_CONTROL_PROMOTED", "RETIRING", "DONE"}

PromotionByPhase ==
  [p \in Phases |->
     CASE p \in {"WORKERS_PROMOTED", "ROLLBACK_WORKERS_PROMOTED"} -> {"workers"}
       [] p \in {"MARKER_PROMOTED", "ROLLBACK_MARKER_PROMOTED"} -> {"workers", "marker"}
       [] p \in {"CONTROL_PROMOTED", "ROLLBACK_CONTROL_PROMOTED", "RETIRING", "DONE"}
            -> {"workers", "marker", "control"}
       [] OTHER -> {}]

LegalTransitions ==
  [PREPARING |-> {"ABORTING", "FORWARD_APPLYING", "ROLLBACK_PREPARING"},
   ABORTING |-> {"DONE"},
   FORWARD_APPLYING |-> {"ABORTING", "FORWARD_VERIFIED", "ROLLBACK_PREPARING"},
   FORWARD_VERIFIED |-> {"WORKERS_PROMOTED", "ROLLBACK_PREPARING"},
   WORKERS_PROMOTED |-> {"MARKER_PROMOTED"},
   MARKER_PROMOTED |-> {"CONTROL_PROMOTED"},
   CONTROL_PROMOTED |-> {"RETIRING"},
   ROLLBACK_PREPARING |-> {"ABORTING", "ROLLBACK_APPLYING"},
   ROLLBACK_APPLYING |-> {"ROLLBACK_VERIFIED"},
   ROLLBACK_VERIFIED |-> {"ROLLBACK_WORKERS_PROMOTED"},
   ROLLBACK_WORKERS_PROMOTED |-> {"ROLLBACK_MARKER_PROMOTED"},
   ROLLBACK_MARKER_PROMOTED |-> {"ROLLBACK_CONTROL_PROMOTED"},
   ROLLBACK_CONTROL_PROMOTED |-> {"RETIRING"},
   RETIRING |-> {"DONE"},
   DONE |-> {}]

\* Each promotion is journaled as an operation between two phases.
IntentPhases ==
  [PROMOTE_WORKERS |-> <<"FORWARD_VERIFIED", "WORKERS_PROMOTED">>,
   PROMOTE_MARKER |-> <<"WORKERS_PROMOTED", "MARKER_PROMOTED">>,
   PROMOTE_CONTROL |-> <<"MARKER_PROMOTED", "CONTROL_PROMOTED">>,
   PROMOTE_ROLLBACK_WORKERS |-> <<"ROLLBACK_VERIFIED", "ROLLBACK_WORKERS_PROMOTED">>,
   PROMOTE_ROLLBACK_MARKER |->
     <<"ROLLBACK_WORKERS_PROMOTED", "ROLLBACK_MARKER_PROMOTED">>,
   PROMOTE_ROLLBACK_CONTROL |->
     <<"ROLLBACK_MARKER_PROMOTED", "ROLLBACK_CONTROL_PROMOTED">>,
   REMOVE_PREPARED_SECRET |-> <<"ABORTING", "ABORTING">>]

NoOp == [kind |-> "none", of |-> NoGen]

Preparing == {"PREPARING", "FORWARD_APPLYING"}
RollingBack == {"ROLLBACK_PREPARING", "ROLLBACK_APPLYING"}
StageOrder == [none |-> 0, pending |-> 1, prepared |-> 2, applied |-> 3, verified |-> 4]

AuthorityStates == {"absent", "planned", "provisioning", "provisioned", "revoked"}
WorkerStages == [Workers \X Directions -> DOMAIN StageOrder]
VisionJobs == [Modes -> {"absent", "planned", "created", "terminal", "removed"}]
ServiceSnapshots == SUBSET AppServices
Selections == SUBSET ({"control", "marker"} \X Directions)

Documents ==
  [phase : Phases, outcome : {"none", "succeeded", "rolled_back", "aborted"},
   retiring : {"none", "succeeded", "rolled_back"},
   promotion : SUBSET {"workers", "marker", "control"},
   op : [kind : DOMAIN IntentPhases \cup {"none"}, of : Secrets \cup {NoGen}],
   gate : BOOLEAN, captured : BOOLEAN, failed : BOOLEAN,
   failed_services : ServiceSnapshots, attempt : 0..1, selected : Selections,
   authority : [Authorities -> AuthorityStates], secrets : SUBSET Secrets,
   stage : WorkerStages, janitor : BOOLEAN, vision : VisionJobs,
   abort : SUBSET Authorities]

NewDocument ==
  [phase |-> "PREPARING", outcome |-> "none", retiring |-> "none", promotion |-> {},
   op |-> NoOp, gate |-> FALSE, captured |-> FALSE, failed |-> FALSE,
   failed_services |-> {}, attempt |-> 0, selected |-> {},
   authority |-> [g \in Authorities |-> "absent"], secrets |-> {},
   stage |-> [k \in Workers \X Directions |-> "none"], janitor |-> FALSE,
   vision |-> [m \in Modes |-> "absent"], abort |-> {}]

-----------------------------------------------------------------------------
(* Reading the document *)

Aborted(d) == d.phase = "ABORTING" \/ d.outcome = "aborted"

\* _rollback_control: the baseline's control, once a rollback attempt exists.
RollbackControl(d) ==
  /\ d.phase \notin Preparing /\ ~Aborted(d)
  /\ d.captured /\ d.failed /\ d.attempt = 1
  /\ <<"control", "rollback">> \in d.selected

IsRollbackAuthority(d, g) ==
  /\ RollbackControl(d)
  /\ g[1] \in Workers /\ g[2] = "rollback" /\ g[1] \in d.failed_services

IsRollbackSecret(d, g) ==
  /\ RollbackControl(d) /\ g[2] = "rollback"
  /\ \/ g[1] = "marker"
     \/ /\ g[1] \in Workers
        /\ \/ d.stage[g] # "none"
           \/ IsRollbackAuthority(d, g) /\ d.authority[g] = "provisioned"

RolledBack(d) ==
  \/ d.phase \in {"ROLLBACK_APPLYING", "ROLLBACK_VERIFIED", "ROLLBACK_WORKERS_PROMOTED",
                  "ROLLBACK_MARKER_PROMOTED", "ROLLBACK_CONTROL_PROMOTED"}
  \/ d.retiring = "rolled_back"

-----------------------------------------------------------------------------
(* The validator *)

\* Authorities are live while they are made, of any state while an abort
\* revokes them, and provisioned in every other phase.
AuthoritiesFit(d) ==
  \A g \in {a \in Authorities : d.authority[a] # "absent"} :
    \/ /\ \/ d.phase \in Preparing
          \/ d.phase = "ROLLBACK_PREPARING" /\ IsRollbackAuthority(d, g)
       /\ d.authority[g] # "revoked"
    \/ Aborted(d)
    \/ d.authority[g] = "provisioned"

\* A secret belongs to a rollback identity, to a vision job or to a
\* provisioned authority: an authority is revoked after its secrets.
SecretsFit(d) ==
  \A g \in d.secrets :
    \/ IsRollbackSecret(d, g)
    \/ g[1] = "vision"
    \/ /\ g \in Authorities /\ d.authority[g] = "provisioned"
       /\ ~IsRollbackAuthority(d, g)

OutcomeFits(d) ==
  /\ (d.phase = "DONE") = (d.outcome # "none")
  /\ IF d.phase = "RETIRING" THEN d.retiring # "none"
     ELSE d.retiring = (IF d.phase = "DONE" /\ d.outcome # "aborted"
                        THEN d.outcome ELSE "none")

ProgressFits(d) ==
  /\ d.phase = "PREPARING" \/ Aborted(d) \/ d.captured
  /\ d.phase = "ROLLBACK_PREPARING" \/ RolledBack(d) => d.failed
  /\ ~d.failed => d.failed_services = {}
  /\ RolledBack(d) => d.attempt = 1
  /\ LET verified(dir) == \A w \in Workers : d.stage[w, dir] \in {"none", "verified"}
     IN /\ \/ d.phase \in {"FORWARD_VERIFIED", "WORKERS_PROMOTED", "MARKER_PROMOTED",
                           "CONTROL_PROMOTED"}
           \/ d.retiring = "succeeded"
           => verified("forward")
        /\ RolledBack(d) /\ d.phase # "ROLLBACK_APPLYING" => verified("rollback")

PromotionFits(d) ==
  d.promotion = IF d.outcome = "aborted" THEN {} ELSE PromotionByPhase[d.phase]

AbortFits(d) ==
  d.abort = IF Aborted(d)
            THEN {g \in Authorities : d.authority[g] \notin {"absent", "revoked"}}
            ELSE {}

OperationFits(d) ==
  d.op # NoOp =>
    /\ d.phase = IntentPhases[d.op.kind][1]
    /\ d.op.kind = "REMOVE_PREPARED_SECRET" => d.op.of \in d.secrets

ValidDocument(d) ==
  /\ OutcomeFits(d) /\ AuthoritiesFit(d) /\ SecretsFit(d) /\ ProgressFits(d)
  /\ PromotionFits(d) /\ AbortFits(d) /\ OperationFits(d)

Written(documents) == {d \in documents : ValidDocument(d)}

-----------------------------------------------------------------------------
(* The helper's updates *)

When(guard, d) == IF guard THEN {d} ELSE {}

CaptureBaseline(d) ==
  When(d.phase = "PREPARING" /\ d.op = NoOp, [d EXCEPT !.captured = TRUE])

CaptureFailedForward(d, services) ==
  When(/\ d.phase \in Preparing /\ d.op = NoOp
       /\ d.failed => d.failed_services = services,
       [d EXCEPT !.failed = TRUE, !.failed_services = services])

AllocateRollbackAttempt(d) ==
  When(d.phase = "ROLLBACK_PREPARING" /\ d.op = NoOp, [d EXCEPT !.attempt = 1])

RecordSelection(d, g) ==
  When(/\ d.phase \in IF g[2] = "forward" THEN Preparing ELSE RollingBack
       /\ d.op = NoOp,
       [d EXCEPT !.selected = @ \cup {g}])

RecordJanitorService(d) ==
  When(d.phase \in Preparing \cup {"ROLLBACK_APPLYING"} /\ d.op = NoOp,
       [d EXCEPT !.janitor = TRUE])

ClearJanitorService(d) ==
  When(d.phase = "ROLLBACK_APPLYING" /\ d.op = NoOp, [d EXCEPT !.janitor = FALSE])

AuthorityAllowed(d, g) ==
  \/ d.phase \in Preparing
  \/ d.phase \in RollingBack /\ IsRollbackAuthority(d, g)

RecordAuthorityIntent(d, g) ==
  When(/\ AuthorityAllowed(d, g)
       /\ d.authority[g] # "revoked"
       /\ d.phase = "ROLLBACK_APPLYING" => d.authority[g] = "provisioned",
       [d EXCEPT !.authority[g] = IF @ = "absent" THEN "planned" ELSE @])

\* Idempotent once the authority is at or past the target.
MarkAuthority(d, g, target) ==
  LET before == IF target = "provisioning" THEN "planned" ELSE "provisioning"
      past == IF target = "provisioning" THEN {"provisioning", "provisioned"}
              ELSE {"provisioned"}
  IN When(/\ AuthorityAllowed(d, g)
          /\ d.authority[g] \in past \cup {before}
          /\ d.phase = "ROLLBACK_APPLYING" => d.authority[g] = "provisioned",
          [d EXCEPT !.authority[g] = IF @ = before THEN target ELSE @])

RecordPreparedSecret(d, g) ==
  When(/\ (d.phase \in Preparing) \/ (d.phase \in RollingBack /\ IsRollbackSecret(d, g))
       /\ d.phase = "ROLLBACK_APPLYING" => g \in d.secrets,
       [d EXCEPT !.secrets = @ \cup {g}])

WorkerPlanAllowed(d, dir) ==
  /\ d.op = NoOp
  /\ IF dir = "forward" THEN d.phase \in Preparing
     ELSE d.phase \in RollingBack /\ d.attempt = 1

RecordWorkerPlan(d, g) ==
  When(WorkerPlanAllowed(d, g[2]),
       [d EXCEPT !.stage[g] = IF @ = "none" THEN "pending" ELSE @])

\* A stage follows its predecessor; one that is reached already is left alone.
AdvanceWorkerStage(d, g, target) ==
  When(/\ WorkerPlanAllowed(d, g[2])
       /\ d.stage[g] # "none"
       /\ StageOrder[d.stage[g]] >= StageOrder[target] - 1,
       [d EXCEPT !.stage[g] = IF StageOrder[@] >= StageOrder[target] THEN @ ELSE target])

PrepareVisionJob(d, m) ==
  When(d.phase \in Preparing /\ d.op = NoOp /\ <<"vision", m>> \in d.secrets,
       [d EXCEPT !.vision[m] = IF @ = "absent" THEN "planned" ELSE @])

RecordVisionJobService(d, m) ==
  When(d.vision[m] # "absent",
       [d EXCEPT !.vision[m] = IF @ = "planned" THEN "created" ELSE @])

RecordVisionJobTerminal(d, m) ==
  When(d.vision[m] \in {"created", "terminal", "removed"},
       [d EXCEPT !.vision[m] = IF @ = "created" THEN "terminal" ELSE @])

CompleteVisionJobRemoval(d, m) ==
  When(d.vision[m] = "terminal",
       [d EXCEPT !.vision[m] = "removed", !.secrets = @ \ {<<"vision", m>>}])

AbortVisionJobRemoval(d, m) ==
  When(d.phase \in Preparing \cup {"ABORTING"} /\ d.op = NoOp /\ d.vision[m] # "absent",
       [d EXCEPT !.vision[m] = "removed", !.secrets = @ \ {<<"vision", m>>}])

\* _set_phase.  registered_reconcile's gate is d.gate; its retirement is in
\* module RegisteredReconcile.
PhaseAllowed(d, target, outcome) ==
  /\ target \in LegalTransitions[d.phase] /\ d.op = NoOp
  /\ target = "FORWARD_APPLYING" => d.captured
  /\ target \in {"FORWARD_VERIFIED", "WORKERS_PROMOTED", "MARKER_PROMOTED",
                 "CONTROL_PROMOTED"} => d.gate
  /\ target = "ROLLBACK_PREPARING" => d.failed
  /\ target = "ROLLBACK_APPLYING" => d.attempt = 1
  /\ target = "DONE" =>
       /\ \A m \in Modes : d.vision[m] \in {"absent", "removed"}
       /\ IF outcome = "aborted"
          THEN /\ d.phase = "ABORTING" /\ d.secrets = {} /\ d.abort = {}
               /\ \A g \in Authorities : d.authority[g] \in {"absent", "revoked"}
          ELSE d.promotion = {"workers", "marker", "control"} /\ outcome = d.retiring

SetPhase(d, target, outcome) ==
  When(PhaseAllowed(d, target, outcome),
       [d EXCEPT
          !.phase = target,
          !.promotion =
            CASE target \in {"WORKERS_PROMOTED", "ROLLBACK_WORKERS_PROMOTED"} -> {"workers"}
              [] target \in {"MARKER_PROMOTED", "ROLLBACK_MARKER_PROMOTED"} -> @ \cup {"marker"}
              [] target \in {"CONTROL_PROMOTED", "ROLLBACK_CONTROL_PROMOTED"}
                   -> @ \cup {"control"}
              [] OTHER -> @,
          !.retiring = IF target # "RETIRING" THEN @
                       ELSE IF d.phase = "ROLLBACK_CONTROL_PROMOTED" THEN "rolled_back"
                       ELSE "succeeded",
          !.outcome = IF target = "DONE" THEN outcome ELSE @])

\* Mutant: an abort forgets the authorities it has not seen provisioned.
BeginAbortProvisionedOnly(d) ==
  When(d.phase \in Preparing /\ d.op = NoOp,
       [d EXCEPT !.phase = "ABORTING",
                 !.authority = [g \in Authorities |->
                   IF @[g] = "provisioned" THEN @[g] ELSE "absent"],
                 !.abort = {g \in Authorities : d.authority[g] = "provisioned"}])

\* An abort is refused once a worker may run under the candidate's grants.
BeginAbort(d) ==
  LET queued == [d EXCEPT
        !.abort = {g \in Authorities : d.authority[g] \notin {"absent", "revoked"}}]
  IN IF /\ d.phase \in Preparing /\ d.op = NoOp /\ d.abort = {}
        /\ d.phase = "FORWARD_APPLYING" =>
             /\ ~d.janitor
             /\ \A w \in Workers : d.stage[w, "forward"] \notin {"applied", "verified"}
     THEN SetPhase(queued, "ABORTING", "none")
     ELSE {}

IntentPreparedSecretRemoval(d, g) ==
  When(d.phase = "ABORTING" /\ d.op = NoOp /\ g \in d.secrets,
       [d EXCEPT !.op = [kind |-> "REMOVE_PREPARED_SECRET", of |-> g]])

CompletePreparedSecretRemoval(d) ==
  When(d.phase = "ABORTING" /\ d.op.kind = "REMOVE_PREPARED_SECRET",
       [d EXCEPT !.secrets = @ \ {d.op.of}, !.op = NoOp])

CompleteAbortAuthority(d, g) ==
  When(d.phase = "ABORTING" /\ d.op = NoOp /\ d.secrets = {} /\ g \in d.abort,
       [d EXCEPT !.authority[g] = "revoked", !.abort = @ \ {g}])

Intent(d, kind) ==
  When(/\ d.phase = IntentPhases[kind][1] /\ d.op = NoOp
       /\ kind \in {"PROMOTE_WORKERS", "PROMOTE_MARKER", "PROMOTE_CONTROL"} => d.gate,
       [d EXCEPT !.op = [kind |-> kind, of |-> NoGen]])

CompleteIntent(d) ==
  IF d.op = NoOp \/ d.op.kind = "REMOVE_PREPARED_SECRET" THEN {}
  ELSE SetPhase([d EXCEPT !.op = NoOp], IntentPhases[d.op.kind][2], "none")

\* archive renames active.json to done.json of the transaction.
Archivable(d) == d.phase = "DONE" /\ d.op = NoOp

-----------------------------------------------------------------------------
(* The application progress, a second file of the same transaction *)

NoProgress == [attempted |-> {}, migration |-> "none"]
NewProgress == [attempted |-> {}, migration |-> "pending"]

ProgressAllowed(d, p) == d.phase = "FORWARD_APPLYING" /\ p # NoProgress

RecordAppAttempt(d, p, s) ==
  When(ProgressAllowed(d, p), [p EXCEPT !.attempted = @ \cup {s}])

\* The update of the service was not even tried.
RemoveAppAttempt(d, p, s) ==
  When(ProgressAllowed(d, p), [p EXCEPT !.attempted = @ \ {s}])

AdvanceMigrationState(d, p, expected, target) ==
  When(ProgressAllowed(d, p) /\ p.migration \in {expected, target},
       [p EXCEPT !.migration = target])
=============================================================================
