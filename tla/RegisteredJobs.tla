--------------------------- MODULE RegisteredJobs ---------------------------
(***************************************************************************)
(* The managed jobs of a deployment's consumer reconciliation, as the      *)
(* admission journal drives them: a capture before the workers are         *)
(* replaced (baseline), a capture after (current), and the run that        *)
(* retires the old Redis consumers.  One helper process at a time holds    *)
(* both locks; it commits an intent to the journal, calls Docker, and      *)
(* commits the answer.  It may die between any two of these steps, and a   *)
(* request it made of Docker may be carried out later, or never.           *)
(***************************************************************************)
EXTENDS Naturals

CONSTANT MaxFaults

ASSUME MaxFaultsIsNat == MaxFaults \in Nat

VARIABLES
    phase,    \* the journal's phase
    workers,  \* stage of the four replacement workers: "prepared" or "verified"
    job,      \* journal: one record per stage
    secret,   \* journal: state of the two secrets
    svc,      \* Docker: the service and the container of each stage
    exitc,    \* Docker: how each stage's container ended
    held,     \* Docker: the two secrets
    host,     \* the step the running helper is at
    faults

jobVars == <<phase, workers, job, secret, svc, exitc, held, host, faults>>

Stage == {"baseline", "current", "run"}
Key == {"capture_read", "pins"}

JobState == {"none", "planned", "launching", "created", "terminal", "removing", "removed"}

NoJob == [state |-> "none", bound |-> FALSE, task |-> FALSE, exit |-> "none", result |-> FALSE]

Op(what, at) == [op |-> what, at |-> at]
Idle == Op("idle", "none")

(* _validate_registered_jobs, as far as states go *)
ValidJob(j) ==
    /\ j.state \in JobState
    /\ j.state = "terminal" => j.exit # "none"
    /\ j.state = "created" => j.bound
    /\ j.state \in {"none", "planned"} => ~j.bound /\ j.exit = "none"

ValidSecret(k) == secret[k] \in {"none", "creating", "present", "removed"}

JobsTypeOK ==
    /\ phase \in {"FORWARD_APPLYING", "FORWARD_VERIFIED", "ROLLBACK_PREPARING"}
    /\ workers \in {"prepared", "verified"}
    /\ \A st \in Stage : ValidJob(job[st])
    /\ \A k \in Key : ValidSecret(k)
    /\ svc \in [Stage -> {"none", "requested", "up", "stopping", "gone"}]
    /\ exitc \in [Stage -> {"none", "ok", "invalid", "failed"}]
    /\ held \in [Key -> {"none", "requested", "up", "gone"}]
    /\ faults \in 0..MaxFaults

JobsInit ==
    /\ phase = "FORWARD_APPLYING"
    /\ workers = "prepared"
    /\ job = [st \in Stage |-> NoJob]
    /\ secret = [k \in Key |-> "none"]
    /\ svc = [st \in Stage |-> "none"]
    /\ exitc = [st \in Stage |-> "none"]
    /\ held = [k \in Key |-> "none"]
    /\ host = Idle
    /\ faults = 0

Applying == phase = "FORWARD_APPLYING"

(* a capture that may be built upon *)
Captured(st) == job[st].state = "removed" /\ job[st].exit = "0" /\ job[st].result

Settled(st) == job[st].state \in {"none", "removed"}

(* _registered_gate *)
Gate(success) ==
    /\ \A st \in Stage : Settled(st)
    /\ \A k \in Key : secret[k] \in {"none", "removed"}
    /\ success => /\ \A st \in Stage : Captured(st)
                  /\ \A k \in Key : secret[k] = "removed"

(***************************************************************************)
(* Secrets: the intent is committed before `docker secret create`.         *)
(***************************************************************************)
CreateRead ==
    /\ host = Idle /\ Applying
    /\ secret["capture_read"] = "none"
    /\ job["baseline"].state = "none"
    /\ workers = "prepared"
    /\ secret' = [secret EXCEPT !["capture_read"] = "creating"]
    /\ host' = Op("secret", "capture_read")
    /\ UNCHANGED <<phase, workers, job, svc, exitc, held, faults>>

CreatePins ==
    /\ host = Idle /\ Applying
    /\ secret["pins"] = "none"
    /\ Captured("current")
    /\ secret' = [secret EXCEPT !["pins"] = "creating"]
    /\ host' = Op("secret", "pins")
    /\ UNCHANGED <<phase, workers, job, svc, exitc, held, faults>>

RequestSecret(k) ==
    /\ host = Op("secret", k)
    /\ held' = [held EXCEPT ![k] = "requested"]
    /\ host' = Op("bind", k)
    /\ UNCHANGED <<phase, workers, job, secret, svc, exitc, faults>>

(* Docker carries a request out, or does not *)
DockerSecret(k) ==
    /\ held[k] = "requested"
    /\ \E r \in {"up", "none"} : held' = [held EXCEPT ![k] = r]
    /\ UNCHANGED <<phase, workers, job, secret, svc, exitc, host, faults>>

(* the same helper goes on to plan the job that mounts the secret *)
BindSecret(k) ==
    /\ host = Op("bind", k)
    /\ held[k] = "up"
    /\ secret[k] = "creating"
    /\ secret' = [secret EXCEPT ![k] = "present"]
    /\ host' = Op("prepare", IF k = "pins" THEN "run" ELSE "baseline")
    /\ UNCHANGED <<phase, workers, job, svc, exitc, held, faults>>

(***************************************************************************)
(* Planning and launching a job                                            *)
(***************************************************************************)
PrepareCapture(st) ==
    /\ st \in {"baseline", "current"}
    /\ host = IF st = "baseline" THEN Op("prepare", st) ELSE Idle
    /\ Applying
    /\ job[st].state = "none"
    /\ secret["capture_read"] = "present"
    /\ workers = IF st = "baseline" THEN "prepared" ELSE "verified"
    /\ st = "current" => Captured("baseline")
    /\ job' = [job EXCEPT ![st].state = "planned"]
    /\ host' = Idle
    /\ UNCHANGED <<phase, workers, secret, svc, exitc, held, faults>>

PrepareRun ==
    /\ host = Op("prepare", "run")
    /\ Applying
    /\ job["run"].state = "none"
    /\ Captured("current") /\ secret["pins"] = "present"
    /\ workers = "verified"
    /\ job' = [job EXCEPT !["run"].state = "planned"]
    /\ host' = Op("record", "run")
    /\ UNCHANGED <<phase, workers, secret, svc, exitc, held, faults>>

Launch(st) ==
    /\ host = Idle /\ Applying
    /\ job[st].state = "planned"
    /\ job' = [job EXCEPT ![st].state = "launching"]
    /\ host' = Op("create", st)
    /\ UNCHANGED <<phase, workers, secret, svc, exitc, held, faults>>

RequestService(st) ==
    /\ host = Op("create", st)
    /\ svc' = [svc EXCEPT ![st] = "requested"]
    /\ host' = Op("await", st)
    /\ UNCHANGED <<phase, workers, job, secret, exitc, held, faults>>

DockerService(st) ==
    /\ svc[st] = "requested"
    /\ \E r \in {"up", "none"} : svc' = [svc EXCEPT ![st] = r]
    /\ UNCHANGED <<phase, workers, job, secret, exitc, held, host, faults>>

BindService(st) ==
    /\ host = Op("await", st)
    /\ svc[st] = "up"
    /\ job[st].state = "launching"
    /\ job' = [job EXCEPT ![st] = [@ EXCEPT !.state = "created", !.bound = TRUE]]
    /\ host' = IF st = "run" THEN Op("attach", "run") ELSE Idle
    /\ UNCHANGED <<phase, workers, secret, svc, exitc, held, faults>>

(***************************************************************************)
(* The capture container writes its answer once and exits.  Its content    *)
(* holds up only if the registrations it read are those of its stage.      *)
(***************************************************************************)
CaptureExits(st, how) ==
    /\ st \in {"baseline", "current"}
    /\ svc[st] \in {"up", "stopping"} /\ exitc[st] = "none"
    /\ how = "ok" => (st = "baseline" <=> workers = "prepared")
    /\ exitc' = [exitc EXCEPT ![st] = how]
    /\ svc' = [svc EXCEPT ![st] = IF @ = "stopping" THEN "gone" ELSE @]
    /\ UNCHANGED <<phase, workers, job, secret, held, host, faults>>

ExitCode(st) == CASE exitc[st] = "none" -> "none"
                  [] exitc[st] = "failed" -> "1"
                  [] OTHER -> "0"

(* observe_registered_job: a terminal task is recorded with its exit code; a
   result that does not validate is recorded as none *)
Observed(st, valid) ==
    [job[st] EXCEPT !.bound = TRUE, !.task = TRUE,
                    !.state = IF exitc[st] = "none" THEN "created" ELSE "terminal",
                    !.exit = ExitCode(st),
                    !.result = exitc[st] \in {"ok", "invalid"} /\ valid]

Observe(st, valid) ==
    /\ host = Idle
    /\ job[st].state \in {"launching", "created"}
    /\ svc[st] = "up"
    /\ job' = [job EXCEPT ![st] = Observed(st, valid)]
    /\ UNCHANGED <<phase, workers, secret, svc, exitc, held, host, faults>>

(***************************************************************************)
(* cleanup_registered_job: every commit is found again by the next call,   *)
(* so each of its steps starts from the journal alone.                     *)
(***************************************************************************)
(* a launch without an answer is looked up by name, never repeated *)
CleanupDiscover(st) ==
    /\ host = Idle
    /\ job[st].state = "launching" /\ ~job[st].bound
    /\ svc[st] = "up"
    /\ job' = [job EXCEPT ![st] = [@ EXCEPT !.state = "created", !.bound = TRUE]]
    /\ UNCHANGED <<phase, workers, secret, svc, exitc, held, host, faults>>

(* _registered_services and _registered_absent: Docker does not show a service
   it has yet to create *)
Listed(st) == svc[st] \in {"up", "stopping"}

(* the service is there as bound, or absent when none was ever requested *)
Accounted(st) == IF job[st].bound THEN svc[st] = "up" ELSE ~Listed(st)

(* Mutant: a launch that cannot be found counts as one that did not happen *)
CleanupMarkLaunching(st) ==
    /\ host = Idle
    /\ job[st].state \in {"planned", "launching", "created", "terminal"}
    /\ Accounted(st)
    /\ job' = [job EXCEPT ![st].state = "removing"]
    /\ UNCHANGED <<phase, workers, secret, svc, exitc, held, host, faults>>

CleanupMark(st) ==
    /\ host = Idle
    /\ job[st].state \in {"planned", "created", "terminal"}
    /\ Accounted(st)
    /\ job' = [job EXCEPT ![st].state = "removing"]
    /\ UNCHANGED <<phase, workers, secret, svc, exitc, held, host, faults>>

CleanupRemove(st) ==
    /\ host = Idle
    /\ job[st].state = "removing"
    /\ svc[st] = "up"
    /\ svc' = [svc EXCEPT ![st] = IF exitc[st] = "none" THEN "stopping" ELSE "gone"]
    /\ UNCHANGED <<phase, workers, job, secret, exitc, held, host, faults>>

(* Mutant: only a service that was there can be gone *)
AbsentAfterRemoval(st) == svc[st] = "gone"

Absent(st) == ~Listed(st)

CleanupDone(st) ==
    /\ host = Idle
    /\ job[st].state = "removing"
    /\ Absent(st)
    /\ job' = [job EXCEPT ![st].state = "removed"]
    /\ UNCHANGED <<phase, workers, secret, svc, exitc, held, host, faults>>

(* a secret goes once every job has; one still "creating" stays *)
Removable(k) == secret[k] = "present" /\ \A st \in Stage : Settled(st)

RemoveSecret(k) ==
    /\ host = Idle
    /\ Removable(k)
    /\ held[k] = "up"
    /\ held' = [held EXCEPT ![k] = "gone"]
    /\ UNCHANGED <<phase, workers, job, secret, svc, exitc, host, faults>>

CleanupSecret(k) ==
    /\ host = Idle
    /\ Removable(k)
    /\ held[k] = "gone"
    /\ secret' = [secret EXCEPT ![k] = "removed"]
    /\ UNCHANGED <<phase, workers, job, svc, exitc, held, host, faults>>

(***************************************************************************)
(* The rest of the deployment, and faults                                  *)
(***************************************************************************)
VerifyWorkers ==
    /\ host = Idle /\ Applying
    /\ workers = "prepared"
    /\ workers' = "verified"
    /\ UNCHANGED <<phase, job, secret, svc, exitc, held, host, faults>>

(* _set_phase out of FORWARD_APPLYING *)
Leave(target) ==
    /\ host = Idle /\ Applying
    /\ Gate(target = "FORWARD_VERIFIED")
    /\ target = "FORWARD_VERIFIED" => workers = "verified"
    /\ phase' = target
    /\ UNCHANGED <<workers, job, secret, svc, exitc, held, host, faults>>

(* a helper raises when Docker refuses what it asked for *)
HelperRaises ==
    /\ \/ host.op = "bind" /\ held[host.at] = "none"
       \/ host.op = "await" /\ svc[host.at] = "none"
    /\ host' = Idle
    /\ UNCHANGED <<phase, workers, job, secret, svc, exitc, held, faults>>

(* it is killed, or gives up on a call whose answer it never gets *)
HelperDies ==
    /\ host # Idle /\ faults < MaxFaults
    /\ host' = Idle
    /\ faults' = faults + 1
    /\ UNCHANGED <<phase, workers, job, secret, svc, exitc, held>>

(* stopping a container ends what it was doing *)
ContainerStops(st) ==
    /\ svc[st] = "stopping"
    /\ svc' = [svc EXCEPT ![st] = "gone"]
    /\ exitc' = [exitc EXCEPT ![st] = "failed"]
    /\ UNCHANGED <<phase, workers, job, secret, held, host, faults>>

JobsStep ==
    \/ CreateRead
    \/ CreatePins
    \/ \E k \in Key : RequestSecret(k)
    \/ \E k \in Key : DockerSecret(k)
    \/ \E k \in Key : BindSecret(k)
    \/ \E st \in Stage : PrepareCapture(st)
    \/ PrepareRun
    \/ \E st \in Stage : Launch(st)
    \/ \E st \in Stage : RequestService(st)
    \/ \E st \in Stage : DockerService(st)
    \/ \E st \in Stage : BindService(st)
    \/ \E st \in Stage : CleanupDiscover(st)
    \/ \E st \in Stage : CleanupMark(st)
    \/ \E st \in Stage : CleanupRemove(st)
    \/ \E st \in Stage : CleanupDone(st)
    \/ \E k \in Key : RemoveSecret(k)
    \/ \E k \in Key : CleanupSecret(k)
    \/ \E t \in {"FORWARD_VERIFIED", "ROLLBACK_PREPARING"} : Leave(t)
    \/ HelperRaises

(* An attempt the journal cannot account for: Docker was asked and the answer
   never bound.  cleanup raises on it every time. *)
Ambiguous ==
    \/ \E k \in Key : secret[k] = "creating"
    \/ \E st \in Stage : job[st].state = "launching" /\ svc[st] # "up"

(* Once the transaction leaves FORWARD_APPLYING, whichever way, nothing of the
   jobs is left in Docker, nor can a late request still bring it back. *)
NothingLeftBehind ==
    ~Applying => /\ \A st \in Stage : svc[st] \in {"none", "gone"}
                 /\ \A k \in Key : held[k] \in {"none", "gone"}

=============================================================================
