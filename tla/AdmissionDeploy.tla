-------------------------- MODULE AdmissionDeploy --------------------------
(***************************************************************************)
(* A deployment of the workers and its recovery: the deployment script     *)
(* drives the journal (AdmissionJournal), the role commands                *)
(* (RoleLifecycle), Docker secrets and services and the manifests that     *)
(* name the current generations, one step at a time.  It can be killed     *)
(* between any two steps; the next invocation reads the journal and either *)
(* completes, rolls back or aborts the transaction it finds.               *)
(*                                                                         *)
(* todo is the rest of the script: a step either advances one of these     *)
(* stores or, for the steps named in Planners, continues with the plan     *)
(* that the journal calls for.  A failed step continues with its recovery. *)
(* The registered job is in module RegisteredReconcile: here its success   *)
(* is the journal's gate.                                                  *)
(***************************************************************************)
EXTENDS RoleLifecycle, Faults, SequencesExt

VARIABLES
  doc,       \* active.json
  progress,  \* app-progress.json
  mode,      \* the script: down, deploying, or recovering
  todo,      \* what it will do next
  svc,       \* svc[s]: the generation a Docker service runs under
  cur,       \* cur[o]: the current manifests, and the generation the cron uses
  secret,    \* the Docker secrets of generations and vision jobs
  job,       \* the Docker services of vision jobs
  pend,      \* the retirement journals: generations to retire
  noted,     \* the rollback marker's secret manifest, the promotion receipt,
             \* and in the script's memory: the candidates are not retired
  outcome    \* of the last archived transaction

hostVars == <<svc, cur, secret, job, pend, noted>>
scriptVars == <<mode, todo>>
deployVars == <<roleVars, doc, progress, scriptVars, hostVars, outcome, faults>>

NoDoc == [phase |-> "none"]
Active == doc # NoDoc

Step(do, g, arg) == [do |-> do, g |-> g, arg |-> arg]
Do(do) == Step(do, NoGen, "")
On(do, g) == Step(do, g, "")

DeployTypeOK ==
  /\ RoleTypeOK
  /\ doc \in Documents \cup {NoDoc}
  /\ mode \in {"down", "deploy", "recover"}
  /\ \A i \in DOMAIN todo : DOMAIN todo[i] = {"do", "g", "arg"}
  /\ svc \in [AppServices -> {"prior", "forward", "rollback"}]
  /\ cur \in [Owners -> {"prior", "forward", "rollback"}]
  /\ secret \subseteq Secrets \cup Gens
  /\ job \subseteq Modes
  /\ pend \subseteq Gens
  /\ noted \subseteq {"manifest", "receipt", "preserve"}
  /\ outcome \in {"none", "succeeded", "rolled_back", "aborted"}
  /\ faults \in 0..MaxFaults

DeployInit ==
  /\ RoleInit
  /\ doc = NoDoc /\ progress = NoProgress
  /\ mode = "down" /\ todo = <<>>
  /\ svc = [s \in AppServices |-> "prior"]
  /\ cur = [o \in Owners |-> "prior"]
  /\ secret = Owners \X {"prior"}
  /\ job = {} /\ pend = {} /\ noted = {} /\ outcome = "none" /\ faults = 0

-----------------------------------------------------------------------------
(* The scripts *)

Each(S, script(_)) == FlattenSeq([i \in 1..Cardinality(S) |-> script(SetToSeq(S)[i])])

\* vp_run_vision_cutover_job
Vision(m) ==
  LET g == <<"vision", m>>
  IN <<On("secret", g), On("recordSecret", g), On("planJob", g), On("createJob", g),
       On("recordJob", g), On("terminalJob", g), On("removeJob", g), On("dropSecret", g),
       On("removedJob", g)>>

\* The part that is common to the three kinds of generations.
Provision(g) ==
  <<On("intend", g), Step("mark", g, "provisioning"), Step("cli", g, "provision"),
    Step("mark", g, "provisioned"), On("secret", g), On("recordSecret", g)>>

\* vp_worker_admission_prepare_service
PrepareWorker(g) ==
  Provision(g) \o
  <<On("render", g), On("upsert", g), On("plan", g), Step("stage", g, "prepared")>>

\* vp_prepare_worker_redis_marker_controls
PrepareMarker ==
  LET g == <<"marker", "forward">>
  IN Provision(g) \o <<On("select", g), On("install", g)>>

\* vp_prepare_worker_admission
PrepareAdmission ==
  LET c == <<"control", "forward">>
      prepare(w) == PrepareWorker(<<w, "forward">>)
  IN Provision(c) \o <<On("select", c)>> \o Each(Workers, prepare)

\* The attempt is journaled before the grant of the older generation goes.
ApplyWorker(w) ==
  LET g == <<w, "forward">>
  IN <<On("attempt", g), On("activate", g), On("update", g), Step("stage", g, "applied"),
       Do("ready"), Step("stage", g, "verified")>>

\* vp_update_app_runtime_service
UpdateApp(s) == <<On("attempt", <<s, "forward">>), On("update", <<s, "forward">>)>>

\* _vp_deploy_vp_app_services_locked, vp_apply_app_services.  Do("login") is a
\* task that must log in under the control generation: autoflow, the janitor.
Deploy ==
  Vision("safety") \o
  <<Do("capture"), Step("phase", NoGen, "FORWARD_APPLYING")>> \o UpdateApp("api") \o
  <<Step("migrate", NoGen, "applying"), Step("migrate", NoGen, "applied")>> \o
  PrepareMarker \o PrepareAdmission \o UpdateApp("autoflow") \o
  <<Do("login"), Do("login"), Do("janitor")>> \o
  Each(Workers, ApplyWorker) \o Vision("final") \o UpdateApp("relay") \o
  <<Do("gate"), Step("phase", NoGen, "FORWARD_VERIFIED"), Do("reconcile")>>

\* vp_worker_admission_abort_vision_jobs
AbortJobs(d) ==
  LET abort(m) == <<On("removeJob", <<"vision", m>>), On("dropSecret", <<"vision", m>>),
                    On("abortJob", <<"vision", m>>)>>
  IN Each({m \in Modes : d.vision[m] \notin {"absent", "removed"}}, abort)

\* vp_worker_admission_revoke_generation_authority and the two commands for
\* the control and the marker.
RevokeAuthority(g) ==
  (IF g[1] \in Workers THEN <<On("revokeGrant", g)>> ELSE <<>>) \o <<Step("cli", g, "revoke")>>

\* vp_worker_admission_retire_generation, vp_worker_redis_marker_retire_generation
Retire(g) == RevokeAuthority(g) \o <<On("dropSecret", g)>>

\* vp_worker_admission_process_retirement_journals,
\* vp_worker_control_process_retirements: a journal goes when all it names has.
Journals(P) ==
  LET of(S) == IF S = {} THEN <<>>
               ELSE Each(S, Retire) \o <<On("unpend", CHOOSE g \in S : TRUE)>>
  IN of(P \cap WorkerGens) \o of(P \cap ControlGens)

\* vp_worker_admission_retire_transaction, of a journal in phase RETIRING
RetireTransaction ==
  <<Do("selected"), Step("journals", NoGen, "all"), Step("done", NoGen, "retiring")>>

\* vp_worker_admission_abort_preparing_transaction: one secret, then one
\* authority per turn, the last recorded first.
NextAuthority(S) ==
  IF \E g \in S : g[1] \in Workers THEN CHOOSE g \in S : g[1] \in Workers
  ELSE IF \E g \in S : g[1] = "control" THEN CHOOSE g \in S : g[1] = "control"
  ELSE CHOOSE g \in S : TRUE

AbortPlan(d) ==
  IF d.phase = "DONE" THEN <<Do("archive")>>
  ELSE IF d.phase # "ABORTING" THEN AbortJobs(d) \o <<Do("beginAbort"), Do("abort")>>
  ELSE IF d.op # NoOp THEN <<On("dropSecret", d.op.of), Do("secretGone"), Do("abort")>>
  ELSE IF d.secrets # {} THEN
    LET g == CHOOSE s \in d.secrets : TRUE
    IN <<On("intentSecret", g), On("dropSecret", g), Do("secretGone"), Do("abort")>>
  ELSE IF d.abort # {} THEN
    LET g == NextAuthority(d.abort)
    IN RevokeAuthority(g) \o <<On("authorityGone", g), Do("abort")>>
  ELSE <<Step("done", NoGen, "aborted"), Do("archive")>>

\* The restoration of a worker under the rollback's grants.
RestoreWorker(w) ==
  LET g == <<w, "rollback">>
  IN <<On("activate", g), On("update", g), Step("stage", g, "applied"), Do("ready"),
       Step("stage", g, "verified")>>

\* VP_BACKEND_MIGRATION_APPLIED: from the moment the migration may have run.
Migrated == progress.migration \in {"applying", "applied"}

\* vp_restore_app_snapshots: attempted services go back to their images.  Past
\* the migration an attempted relay stays with the candidate's image, and in a
\* rollback autoflow gets it too, attempted or not, under the control
\* generation that is restored ("rollback").
RestoreApp(attempted, rollback) ==
  LET prior(s) == <<On("update", <<s, "prior">>)>>
      kept == IF Migrated THEN {"autoflow", "relay"} ELSE {}
      fresh == IF rollback THEN Workers ELSE {}
  IN Each(attempted \ (kept \cup fresh), prior) \o
     (IF rollback /\ Migrated THEN <<On("update", <<"autoflow", "rollback">>), Do("login")>>
      ELSE <<>>) \o
     Each(attempted \cap fresh, RestoreWorker)

\* The restoration before any grant of the candidate was activated.
Undo == RestoreApp(progress.attempted, FALSE) \o <<On("restoreCron", <<"marker", "prior">>)>>

\* fully_prepared_forward: selections and workers are recorded, and every
\* authority that was begun is provisioned.
Prepared(d) ==
  /\ {"control", "marker"} \X {"forward"} \subseteq d.selected
  /\ \A w \in Workers : d.stage[w, "forward"] # "none"
  /\ \A g \in Authorities : d.authority[g] \in {"absent", "provisioned"}

\* The tail of _vp_deploy_vp_app_services_locked after a failure.
RestorePlan(d) ==
  IF Prepared(d) THEN <<Step("phase", NoGen, "ROLLBACK_PREPARING"), Do("rollback")>>
  ELSE Undo \o <<Do("abort")>>

\* vp_worker_admission_resume_forward_failure
ResumeForward(d) ==
  IF Prepared(d)
  THEN AbortJobs(d) \o (IF d.failed THEN <<>> ELSE <<Do("captureFailed")>>) \o
       <<Step("phase", NoGen, "ROLLBACK_PREPARING"), Do("rollback")>>
  ELSE Undo \o <<Do("abort")>>

\* vp_worker_admission_prepare_rollback_service: a prepared worker is reused.
PrepareRollbackWorker(d, w) ==
  LET g == <<w, "rollback">>
  IN IF d.stage[g] \in {"none", "pending"} THEN PrepareWorker(g) ELSE <<On("secret", g)>>

\* vp_prepare_worker_redis_marker_rollback_candidate
PrepareRollbackMarker ==
  LET g == <<"marker", "rollback">>
  IN (IF "manifest" \in noted THEN <<>>
      ELSE <<Step("cli", g, "provision"), On("secret", g), On("recordSecret", g),
             On("manifest", g)>>) \o <<On("select", g)>>

Promote(kind) == <<Step("intent", NoGen, kind), Step("effect", NoGen, kind), Do("complete")>>

\* vp_worker_admission_retire_records of the failed candidate's workers
RetireCandidates(d) ==
  LET forward(w) == Retire(<<w, "forward">>)
  IN Each({w \in Workers : d.stage[w, "forward"] # "none"}, forward)

\* vp_restore_worker_admission_transaction.  preserve_incomplete: candidates
\* whose records could not be read after the failure are not retired.
RollbackPlan(d) ==
  LET prepare(w) == PrepareRollbackWorker(d, w)
  IN (IF d.phase = "ROLLBACK_PREPARING" THEN <<Do("allocate")>> ELSE <<>>) \o
     <<On("select", <<"control", "rollback">>)>> \o
     Each(d.failed_services \cap Workers, prepare) \o PrepareRollbackMarker \o
     (IF d.phase = "ROLLBACK_PREPARING"
      THEN <<Step("phase", NoGen, "ROLLBACK_APPLYING")>> ELSE <<>>) \o
     <<Do("clearJanitor"), Do("login"), Do("janitor")>> \o
     RestoreApp(d.failed_services, TRUE) \o
     <<Step("phase", NoGen, "ROLLBACK_VERIFIED")>> \o
     Promote("PROMOTE_ROLLBACK_WORKERS") \o Promote("PROMOTE_ROLLBACK_MARKER") \o
     Promote("PROMOTE_ROLLBACK_CONTROL") \o
     (IF "preserve" \in noted THEN <<>> ELSE RetireCandidates(d)) \o
     <<Step("phase", NoGen, "RETIRING")>> \o RetireTransaction \o <<Do("archive")>>

\* The workers a promotion moves to new manifests.
Moved(d, kind) ==
  IF kind = "PROMOTE_WORKERS" THEN Workers ELSE d.failed_services \cap Workers

\* vp_worker_admission_apply_promotion_effect: what is replaced is journaled
\* for retirement before the manifests change.
Effect(d, kind) ==
  LET to == IF kind = "PROMOTE_WORKERS" THEN "forward" ELSE "rollback"
      schedule(w) == <<On("schedule", <<w, "prior">>)>>
      switch(w) == <<On("switch", <<w, to>>)>>
  IN CASE kind \in {"PROMOTE_WORKERS", "PROMOTE_ROLLBACK_WORKERS"} ->
            Each(Moved(d, kind), schedule) \o Each(Moved(d, kind), switch) \o
            <<Step("journals", NoGen, "workers")>>
       [] kind = "PROMOTE_MARKER" -> Retire(<<"marker", "prior">>) \o <<Do("receipt")>>
       [] kind = "PROMOTE_CONTROL" ->
            <<Do("selected"), On("schedule", <<"control", "prior">>),
              On("switch", <<"control", "forward">>), Step("journals", NoGen, "control")>>
       [] kind = "PROMOTE_ROLLBACK_MARKER" ->
            <<On("install", <<"marker", "rollback">>)>> \o Retire(<<"marker", "forward">>) \o
            Retire(<<"marker", "prior">>) \o <<Do("receipt")>>
       [] kind = "PROMOTE_ROLLBACK_CONTROL" ->
            <<Do("selected"), On("schedule", <<"control", "forward">>),
              On("switch", <<"control", "prior">>), Step("journals", NoGen, "control")>>

\* The control generation whose credentials a step uses.
Operator ==
  IF doc.phase \in RollingBack \cup {"ROLLBACK_VERIFIED", "ROLLBACK_WORKERS_PROMOTED",
                                     "ROLLBACK_MARKER_PROMOTED", "ROLLBACK_CONTROL_PROMOTED"}
     \/ doc.retiring = "rolled_back"
  THEN <<"control", "prior">> ELSE <<"control", "forward">>

\* vp_require_selected_autoflow_control_ready: autoflow runs under the control
\* generation that stays.  Its health endpoint tells that it logged in when it
\* started, not that it still can.
AutoflowSelected ==
  svc["autoflow"] = IF Operator = <<"control", "prior">> THEN "rollback" ELSE "forward"

\* vp_worker_admission_current_promotion_matches: a replay takes the effect as
\* applied when the manifests name the target, or the receipt is there.
Matches(d, kind) ==
  CASE kind \in {"PROMOTE_WORKERS", "PROMOTE_ROLLBACK_WORKERS"} ->
         \A w \in Moved(d, kind) :
           cur[w] = IF kind = "PROMOTE_WORKERS" THEN "forward" ELSE "rollback"
    [] kind = "PROMOTE_CONTROL" -> cur["control"] = "forward" /\ AutoflowSelected
    [] kind = "PROMOTE_ROLLBACK_CONTROL" -> cur["control"] = "prior" /\ AutoflowSelected
    [] OTHER -> "receipt" \in noted

\* vp_reconcile_worker_admission_transaction: one turn of its loop.
ReconcilePlan(d) ==
  LET again == <<Do("reconcile")>>
  IN IF d.op # NoOp /\ d.op.kind # "REMOVE_PREPARED_SECRET"
     THEN (IF Matches(d, d.op.kind) THEN <<>> ELSE Effect(d, d.op.kind)) \o
          <<Do("complete")>> \o again
     ELSE CASE d.phase \in {"PREPARING", "ABORTING"} -> <<Do("abort")>>
            [] d.phase = "FORWARD_APPLYING" -> ResumeForward(d)
            [] d.phase \in RollingBack -> RollbackPlan(d)
            [] d.phase = "FORWARD_VERIFIED" -> Promote("PROMOTE_WORKERS") \o again
            [] d.phase = "WORKERS_PROMOTED" -> Promote("PROMOTE_MARKER") \o again
            [] d.phase = "MARKER_PROMOTED" -> Promote("PROMOTE_CONTROL") \o again
            [] d.phase = "ROLLBACK_VERIFIED" -> Promote("PROMOTE_ROLLBACK_WORKERS") \o again
            [] d.phase = "ROLLBACK_WORKERS_PROMOTED" ->
                 Promote("PROMOTE_ROLLBACK_MARKER") \o again
            [] d.phase = "ROLLBACK_MARKER_PROMOTED" ->
                 Promote("PROMOTE_ROLLBACK_CONTROL") \o again
            [] d.phase \in {"CONTROL_PROMOTED", "ROLLBACK_CONTROL_PROMOTED"} ->
                 <<Step("phase", NoGen, "RETIRING")>> \o again
            [] d.phase = "RETIRING" ->
                 (IF d.retiring = "rolled_back" THEN RetireCandidates(d) ELSE <<>>) \o
                 RetireTransaction \o again
            [] d.phase = "DONE" -> <<Do("archive")>>

Planners == {"reconcile", "abort", "restore", "rollback", "journals", "effect"}

Plan(s) ==
  CASE s.do = "reconcile" -> ReconcilePlan(doc)
    [] s.do = "abort" -> AbortPlan(doc)
    [] s.do = "restore" -> RestorePlan(doc)
    [] s.do = "rollback" -> RollbackPlan(doc)
    [] s.do = "journals" ->
         Journals(CASE s.arg = "workers" -> pend \cap WorkerGens
                    [] s.arg = "control" -> pend \cap ControlGens
                    [] OTHER -> pend)
    [] s.do = "effect" -> Effect(doc, s.arg)

-----------------------------------------------------------------------------
(* Steps *)

Running == mode # "down" /\ todo # <<>>
Next1 == Head(todo)
At1(do) == Running /\ Next1.do = do

Advance == todo' = Tail(todo) /\ UNCHANGED mode
Stop == mode' = "down" /\ todo' = <<>>
Recover(script) == mode' = "recover" /\ todo' = script

\* What follows a failed step.  Functions that clean up after themselves do so
\* first; the rest of the script is abandoned.
Fails ==
  LET s == Next1
      drop(g) == <<Step("cli", g, "revoke"), On("dropSecret", g)>>
  IN CASE s.do = "install" /\ s.g[2] = "forward" ->
            /\ todo' = <<On("restoreCron", <<"marker", "prior">>)>> \o drop(s.g) \o <<Do("fail")>>
            /\ UNCHANGED mode
       [] s.do = "install" /\ s.g[2] = "rollback" -> Recover(drop(s.g) \o <<Do("fail")>>)
       [] s.do \in {"secret", "recordSecret", "manifest"} /\ s.g = <<"marker", "rollback">> ->
            Recover(drop(s.g) \o <<Do("fail")>>)
       [] mode = "deploy" /\ doc.phase = "PREPARING" -> Recover(<<Do("abort")>>)
       [] mode = "deploy" /\ doc.phase # "PREPARING" ->
            Recover(<<Do("captureFailed"), Do("records"), Do("restore")>>)
       [] OTHER -> Stop

Unable == Fails /\ UNCHANGED <<roleVars, doc, progress, hostVars, outcome, faults>>

\* The journal's command for a step.
Update(s, d) ==
  CASE s.do = "capture" -> CaptureBaseline(d)
    [] s.do = "captureFailed" -> CaptureFailedForward(d, progress.attempted)
    [] s.do = "phase" -> SetPhase(d, s.arg, "none")
    [] s.do = "done" -> SetPhase(d, "DONE", IF s.arg = "retiring" THEN d.retiring ELSE s.arg)
    [] s.do = "intend" -> RecordAuthorityIntent(d, s.g)
    [] s.do = "mark" -> MarkAuthority(d, s.g, s.arg)
    [] s.do = "recordSecret" -> RecordPreparedSecret(d, s.g)
    [] s.do = "select" -> RecordSelection(d, s.g)
    [] s.do = "allocate" -> AllocateRollbackAttempt(d)
    [] s.do = "plan" -> RecordWorkerPlan(d, s.g)
    [] s.do = "stage" -> AdvanceWorkerStage(d, s.g, s.arg)
    [] s.do = "janitor" -> RecordJanitorService(d)
    [] s.do = "clearJanitor" -> ClearJanitorService(d)
    [] s.do = "planJob" -> PrepareVisionJob(d, s.g[2])
    [] s.do = "recordJob" -> RecordVisionJobService(d, s.g[2])
    [] s.do = "terminalJob" -> RecordVisionJobTerminal(d, s.g[2])
    [] s.do = "removedJob" -> CompleteVisionJobRemoval(d, s.g[2])
    [] s.do = "abortJob" -> AbortVisionJobRemoval(d, s.g[2])
    [] s.do = "gate" -> {[d EXCEPT !.gate = TRUE]}
    [] s.do = "beginAbort" -> BeginAbort(d)
    [] s.do = "intentSecret" -> IntentPreparedSecretRemoval(d, s.g)
    [] s.do = "secretGone" -> CompletePreparedSecretRemoval(d)
    [] s.do = "authorityGone" -> CompleteAbortAuthority(d, s.g)
    [] s.do = "intent" -> Intent(d, s.arg)
    [] s.do = "complete" -> CompleteIntent(d)

JournalSteps ==
  {"capture", "captureFailed", "phase", "done", "intend", "mark", "recordSecret", "select",
   "allocate", "plan", "stage", "janitor", "clearJanitor", "planJob", "recordJob",
   "terminalJob", "removedJob", "abortJob", "gate", "beginAbort", "intentSecret",
   "secretGone", "authorityGone", "intent", "complete"}

Journal ==
  /\ Running /\ Next1.do \in JournalSteps
  /\ LET written == Written(Update(Next1, doc))
     IN IF written = {} THEN Unable
        ELSE /\ doc' \in written
             /\ Advance
             /\ UNCHANGED <<roleVars, progress, hostVars, outcome, faults>>

\* record_app_attempt and advance_migration_state write the second file.
Progress ==
  /\ Running /\ Next1.do \in {"attempt", "migrate"}
  /\ LET before == IF Next1.arg = "applying" THEN "pending" ELSE "applying"
         written == IF Next1.do = "attempt" THEN RecordAppAttempt(doc, progress, Next1.g[1])
                    ELSE AdvanceMigrationState(doc, progress, before, Next1.arg)
     IN IF written = {} THEN Unable
        ELSE /\ progress' \in written
             /\ Advance
             /\ UNCHANGED <<roleVars, doc, hostVars, outcome, faults>>

PlanNext ==
  /\ Running /\ Next1.do \in Planners
  /\ todo' = Plan(Next1) \o Tail(todo)
  /\ UNCHANGED <<mode, roleVars, doc, progress, hostVars, outcome, faults>>

StartCommand ==
  /\ At1("cli") /\ Start(Next1.arg, Next1.g)
  /\ UNCHANGED <<scriptVars, doc, progress, hostVars, outcome, faults>>

EndCommand ==
  /\ At1("cli") /\ cli.step \in {"ok", "failed"}
  /\ IF cli.step = "ok" THEN Advance ELSE Fails
  /\ cli' = NoCli
  /\ UNCHANGED <<role, member, files, grant, erred, doc, progress, hostVars, outcome, faults>>

Command ==
  /\ Running /\ CliStep
  /\ UNCHANGED <<scriptVars, doc, progress, hostVars, outcome, faults>>

\* vp_worker_admission_create_secret: one that is journaled must be there.
CreateSecret ==
  /\ At1("secret")
  /\ IF Next1.g \in doc.secrets /\ Next1.g \notin secret
     THEN Unable
     ELSE /\ secret' = secret \cup {Next1.g}
          /\ Advance
          /\ UNCHANGED <<roleVars, doc, progress, svc, cur, job, pend, noted, outcome, faults>>

\* Mutant: a secret that is gone already cannot be removed.
RemovablePresent(g) == g \in secret

\* vp_remove_managed_secret_if_absent_exact: absence is as good as removal.
Removable(g) == TRUE

DropSecret ==
  /\ At1("dropSecret")
  /\ IF Removable(Next1.g)
     THEN /\ secret' = secret \ {Next1.g}
          /\ Advance
          /\ UNCHANGED <<roleVars, doc, progress, svc, cur, job, pend, noted, outcome, faults>>
     ELSE Unable

\* worker_deployment_cli render-request reads the generation's state files.
RenderRequest ==
  /\ At1("render")
  /\ IF files[Next1.g] = "all"
     THEN Advance /\ UNCHANGED <<roleVars, doc, progress, hostVars, outcome, faults>>
     ELSE Unable

\* worker_registration_operator_cli: upsert, activate and revoke-grant.
OperatorCommand ==
  /\ Running /\ Next1.do \in {"upsert", "activate", "revokeGrant"}
  /\ LET s == Next1
         allowed == CASE s.do = "upsert" -> MayUpsert(s.g)
                      [] s.do = "activate" -> MayActivate(s.g)
                      [] s.do = "revokeGrant" -> TRUE
         needed == s.do # "revokeGrant" \/ grant[s.g] # "none"
     IN IF ~needed
        THEN Advance /\ UNCHANGED <<roleVars, doc, progress, hostVars, outcome, faults>>
        ELSE IF ~allowed \/ role[Operator] # "login" \/ Operator \notin member THEN Unable
        ELSE /\ CASE s.do = "upsert" -> grant' = Upserted(s.g) /\ UNCHANGED <<role, member>>
                  [] s.do = "activate" -> Regrant(Activated(s.g))
                  [] s.do = "revokeGrant" -> Regrant(Revoked(s.g))
             /\ Advance
             /\ UNCHANGED <<files, cli, erred, doc, progress, hostVars, outcome, faults>>

\* vp_require_autoflow_control_ready after an update of autoflow, and
\* vp_run_staging_object_janitor_once: a new task logs in.
ControlLogin ==
  /\ At1("login")
  /\ IF role[Operator] = "login" /\ Operator \in member
     THEN Advance /\ UNCHANGED <<roleVars, doc, progress, hostVars, outcome, faults>>
     ELSE Unable

RequireSelected ==
  /\ At1("selected")
  /\ IF AutoflowSelected
     THEN Advance /\ UNCHANGED <<roleVars, doc, progress, hostVars, outcome, faults>>
     ELSE Unable

\* vp_install_worker_redis_marker_control and its readiness job, which logs in.
InstallMarker ==
  /\ At1("install")
  /\ IF role[Next1.g] = "login" /\ Next1.g \in secret
     THEN /\ cur' = [cur EXCEPT !["marker"] = Next1.g[2]]
          /\ Advance
          /\ UNCHANGED <<roleVars, doc, progress, svc, secret, job, pend, noted, outcome, faults>>
     ELSE Unable

\* A step on Docker, on the manifests or on the retirement journals.
HostSteps == {"update", "restoreCron", "createJob", "removeJob", "schedule", "switch",
              "unpend", "manifest", "receipt", "ready", "records"}

Host ==
  /\ Running /\ Next1.do \in HostSteps
  /\ LET s == Next1
         same == IF s.g \in WorkerGens THEN WorkerGens ELSE ControlGens
     IN /\ svc' = IF s.do = "update" THEN [svc EXCEPT ![s.g[1]] = s.g[2]] ELSE svc
        /\ cur' = IF s.do \in {"switch", "restoreCron"} THEN [cur EXCEPT ![s.g[1]] = s.g[2]]
                  ELSE cur
        /\ job' = CASE s.do = "createJob" -> job \cup {s.g[2]}
                    [] s.do = "removeJob" -> job \ {s.g[2]}
                    [] OTHER -> job
        /\ pend' = CASE s.do = "schedule" -> pend \cup {s.g}
                     [] s.do = "unpend" -> pend \ same
                     [] OTHER -> pend
        /\ noted' = noted \cup ({s.do} \cap {"manifest", "receipt"})
  /\ Advance
  /\ UNCHANGED <<roleVars, doc, progress, secret, outcome, faults>>

GiveUp == At1("fail") /\ Unable

\* archive, and the end of the invocation.
Archive ==
  /\ At1("archive")
  /\ IF Archivable(doc)
     THEN /\ doc' = NoDoc /\ outcome' = doc.outcome /\ progress' = NoProgress
          /\ Stop
          /\ UNCHANGED <<roleVars, hostVars, faults>>
     ELSE Unable

\* acquire_lock: one invocation at a time.
LockFree == mode = "down"

\* replay_plan: a new candidate only when no transaction is active.
AllowNewCandidate == ~Active

\* begin and init_app_progress.  Fresh names: no grant of an earlier attempt.
Begin ==
  /\ LockFree /\ AllowNewCandidate /\ outcome \in {"none", "aborted"}
  /\ doc' = NewDocument /\ progress' = NewProgress
  /\ mode' = "deploy" /\ todo' = Deploy
  /\ grant' = [g \in WorkerGens |-> IF g[2] = "prior" THEN grant[g] ELSE "none"]
  /\ outcome' = "none"
  /\ noted' = noted \ {"preserve"}
  /\ UNCHANGED <<role, member, files, cli, erred, svc, cur, secret, job, pend, faults>>

\* The next invocation finds a transaction and reconciles it.  Its memory does
\* not matter when there is only the archive left to do.
Resume ==
  /\ LockFree /\ Active
  /\ Recover(<<Do("reconcile")>>)
  /\ noted' = IF doc.phase = "DONE" THEN noted ELSE noted \ {"preserve"}
  /\ UNCHANGED <<roleVars, doc, progress, svc, cur, secret, job, pend, outcome, faults>>

\* The script is killed, and the command it runs with it.
Crash ==
  /\ mode # "down" /\ Fault
  /\ Stop /\ cli' = NoCli
  /\ UNCHANGED <<role, member, files, grant, erred, doc, progress, hostVars, outcome>>

\* Docker, the database or a readiness check refuses a step.
StepFails ==
  /\ Running /\ Next1.do \notin Planners \cup {"cli", "fail", "records"} /\ Fault
  /\ Fails
  /\ UNCHANGED <<roleVars, doc, progress, hostVars, outcome>>

\* vp_update_app_runtime_service takes the attempt back when the update was not
\* even tried.  That of a worker was recorded before its activation, and stays.
NotAttempted ==
  /\ At1("update") /\ mode = "deploy" /\ Next1.g[1] \notin Workers /\ Fault
  /\ progress' \in RemoveAppAttempt(doc, progress, Next1.g[1])
  /\ Fails
  /\ UNCHANGED <<roleVars, doc, hostVars, outcome>>

\* vp_worker_admission_candidate_records fails: the restore goes on without.
RecordsFail ==
  /\ At1("records") /\ (\E w \in Workers : doc.stage[w, "forward"] # "none") /\ Fault
  /\ noted' = noted \cup {"preserve"}
  /\ Advance
  /\ UNCHANGED <<roleVars, doc, progress, svc, cur, secret, job, pend, outcome>>

CommandFails ==
  /\ Running /\ (CliFails \/ CliErrs) /\ Fault
  /\ UNCHANGED <<scriptVars, doc, progress, hostVars, outcome>>

ScriptStep ==
  \/ Journal \/ Progress \/ PlanNext \/ StartCommand \/ EndCommand \/ Command
  \/ CreateSecret \/ DropSecret \/ RenderRequest \/ OperatorCommand \/ ControlLogin
  \/ RequireSelected \/ InstallMarker \/ Host \/ GiveUp \/ Archive \/ Resume

DeployNext ==
  \/ ScriptStep \/ Begin
  \/ Crash \/ StepFails \/ NotAttempted \/ RecordsFail \/ CommandFails

DeploySpec == DeployInit /\ [][DeployNext]_deployVars

\* The script proceeds, and a timer invokes it again as long as it is needed.
FairDeploySpec == DeploySpec /\ WF_deployVars(UNCHANGED faults /\ ScriptStep)

-----------------------------------------------------------------------------
(* Properties *)

LogsIn(g) == role[g] = "login" /\ g \in member /\ files[g] = "all"

\* The promotion of the rollback marker was tried again after an interruption
\* and its readiness failed: the restored crontab names the generation that
\* the same recovery retires, until the promotion is repaired by hand.
MarkerWithdrawn ==
  /\ cur["marker"] = "rollback" /\ "receipt" \notin noted
  /\ Active /\ doc.phase = "ROLLBACK_WORKERS_PROMOTED"

\* The generations that services run under: the workers' with an active grant,
\* and the control generation of autoflow, which is the older one again after a
\* rollback updated it.
Admitted ==
  {g \in WorkerGens : grant[g] = "active"} \cup
  {<<"control", cur["control"]>>,
   <<"control", IF svc["autoflow"] = "forward" THEN "forward" ELSE "prior">>}

\* What runs can log in, whatever a deployment and its recovery are in the
\* middle of: every worker generation whose grant is active, the control
\* generation that control-current.conf names and the one autoflow runs under,
\* and the generation the marker's cron uses, unless its own promotion withdrew
\* it.  No scan, quarantine or retirement of a role command hits them, except
\* a scan that could not reach the generation itself when it validated it.
AdmittedCanLogIn ==
  /\ \A g \in Admitted \ erred : LogsIn(g)
  /\ LogsIn(<<"marker", cur["marker"]>>) \/ MarkerWithdrawn

Gone(g) == role[g] = "none" /\ g \notin member /\ files[g] = "none"
NoGrant(g) == g \in WorkerGens => grant[g] \in {"none", "revoked"}

\* The outcome of an archived transaction is what it says.  Succeeded: the
\* candidates are current and no role, file or grant of the replaced
\* generations is left.  Rolled back: the old control stayed and autoflow runs
\* under it, only the relay may still have the candidate's image, no candidate
\* is admitted, and their worker and marker roles are gone, the workers' unless
\* their records could not be read.  Aborted: nothing of the candidates is left
\* and nothing runs under them.
OutcomeIsTrue ==
  ~Active =>
    /\ outcome = "succeeded" =>
         /\ \A o \in Owners : cur[o] = "forward" /\ Gone(<<o, "prior">>)
         /\ \A w \in Workers : grant[<<w, "forward">>] = "active" /\ NoGrant(<<w, "prior">>)
    /\ outcome = "rolled_back" =>
         /\ cur["control"] = "prior" /\ cur["marker"] = "rollback"
         /\ svc["autoflow"] = "rollback"
         /\ \A s \in AppServices \ {"relay"} : svc[s] # "forward"
         /\ \A w \in Workers : grant[<<w, "forward">>] # "active"
         /\ \A o \in Owners \ {"control"} :
              \/ Gone(<<o, "forward">>) /\ NoGrant(<<o, "forward">>)
              \/ o \in Workers /\ "preserve" \in noted
    /\ outcome = "aborted" =>
         /\ \A s \in AppServices : svc[s] = "prior"
         /\ \A o \in Owners : cur[o] = "prior" /\ Gone(<<o, "forward">>)
         /\ \A w \in Workers : NoGrant(<<w, "forward">>)

\* The interruptions from which no further invocation recovers by itself.
Stuck(g) == ~Fresh(g) /\ ~ValidRuntime(g)
Unretired ==
  {g \in WorkerGens : /\ grant[g] # "none"
                      /\ \/ g \in pend
                         \/ doc.retiring = "rolled_back" /\ g[2] = "forward"}
Wedged ==
  /\ Active /\ mode = "down"
  /\ \/ \* an interrupted provision of a rollback worker is refused for ever,
        \* and so is the activation of one that a scan could not reach
        doc.phase \in RollingBack /\ \E w \in Workers : Stuck(<<w, "rollback">>)
     \/ \* a scan could not reach the control generation that the rollback, or
        \* the retirement of a worker's grant, works with
        /\ Operator \in erred
        /\ doc.phase \in RollingBack \/ (doc.phase = "RETIRING" /\ Unretired # {})
     \/ \* so is the rollback marker's, until its secret manifest is written
        /\ doc.phase = "ROLLBACK_PREPARING" /\ "manifest" \notin noted
        /\ \/ ~Fresh(<<"marker", "rollback">>)
           \/ <<"marker", "rollback">> \in doc.secrets \ secret
     \/ \* the final vision job is not removed on the way back
        /\ doc.phase \notin Preparing \cup {"ABORTING"}
        /\ doc.vision["final"] \in {"planned", "created", "terminal"}
     \/ \* the rollback marker was retired when its readiness failed
        /\ doc.phase \in {"ROLLBACK_WORKERS_PROMOTED"} /\ "receipt" \notin noted
        /\ ~(role[<<"marker", "rollback">>] = "login" /\ <<"marker", "rollback">> \in secret)

\* Whatever step was interrupted or failed, repeated invocations of the script
\* bring the transaction to its archive, except from the states above.
TransactionSettles == []<>(~Active \/ Wedged)
=============================================================================
