--------------------------- MODULE MarkerContinuity ---------------------------
(***************************************************************************)
(* The idempotency markers workers and orchestrator leave in Redis, and    *)
(* the three programs that look after them: the readiness check that       *)
(* certifies every expected marker, the janitor that deletes the markers   *)
(* of deleted jobs, and the operator's repair of a marker Redis lost.      *)
(* Database and Redis are never in one transaction; each step below is one *)
(* call of either.                                                         *)
(*                                                                         *)
(* A source is a row that owns a marker: an event emission, which starts   *)
(* prepared, or a task dispatch, which starts pending and is attempting    *)
(* while its XADD is tried.  It ends known (its message id is recorded),   *)
(* uncertain or gone (its job was deleted).                                *)
(***************************************************************************)
EXTENDS Faults, FiniteSets

CONSTANTS
    Source,
    Checker, Janitor, NoRun

ASSUME MarkerConstants ==
    /\ NoRun \notin Checker \cup Janitor
    /\ MaxFaults \in Nat

VARIABLES
    src,        \* the source rows
    marker,     \* sources whose marker is in Redis
    lost,       \* known sources whose marker Redis lost (history)
    cleanup,    \* worker_redis_marker_cleanup_authorizations
    status,     \* worker_redis_continuity_status
    expect,     \* worker_redis_continuity_expectations of its run
    found,      \* sources the status's run has seen in Redis (history)
    check,      \* each readiness process: what it loaded and still has to do
    janitor,    \* each janitor: what it still has to delete, what it just did
    repair,     \* the operator's restore: source and phase
    audits      \* authorized restores not yet observed

sourceVars == <<src, marker, lost>>
runVars == <<status, expect, found>>
markerVars ==
    <<sourceVars, cleanup, runVars, check, janitor, repair, audits, faults>>

SourceState == {"prepared", "pending", "attempting", "known", "uncertain", "gone"}
CleanupState == {"none", "pending", "claimed", "deleted", "absent"}
RunState == {"none", "running", "ready", "error"}
RepairPhase == {"checked", "authorized"}
Expectation == [state : {"none", "prepared", "cleanup", "other"}, id : BOOLEAN,
                absent : BOOLEAN, observed : BOOLEAN]
Nothing == [state |-> "none", id |-> FALSE, absent |-> TRUE, observed |-> FALSE]
IdleCheck == [pc |-> "idle", todo |-> {}, absent |-> {}, saw |-> {}]
IdleJanitor == [todo |-> {}, did |-> {}]

MarkerTypeOK ==
    /\ src \in [Source -> SourceState]
    /\ marker \subseteq Source /\ lost \subseteq Source /\ audits \subseteq Source
    /\ cleanup \in [Source -> [state : CleanupState, run : Janitor \cup {NoRun},
                               live : BOOLEAN]]
    /\ \A s \in Source : cleanup[s].state # "none" => src[s] = "gone"
    /\ status \in [state : RunState,
                   run : Checker \cup {NoRun}, live : BOOLEAN]
    /\ expect \in [Source -> Expectation]
    /\ found \subseteq Source
    /\ check \in [Checker -> [pc : {"idle", "begun", "checking", "failing"},
                              todo : SUBSET Source, absent : SUBSET Source,
                              saw : SUBSET Source]]
    /\ janitor \in [Janitor -> [todo : SUBSET Source, did : SUBSET (Source \X {"deleted", "absent"})]]
    /\ repair \in {<<>>} \cup (Source \X RepairPhase)
    /\ faults \in 0..MaxFaults

MarkerInit ==
    /\ src \in [Source -> {"prepared", "pending"}]
    /\ marker = {} /\ lost = {} /\ audits = {}
    /\ cleanup = [s \in Source |-> [state |-> "none", run |-> NoRun, live |-> FALSE]]
    /\ status = [state |-> "none", run |-> NoRun, live |-> FALSE]
    /\ expect = [s \in Source |-> Nothing]
    /\ found = {}
    /\ check = [c \in Checker |-> IdleCheck]
    /\ janitor = [j \in Janitor |-> IdleJanitor]
    /\ repair = <<>>
    /\ faults = 0

-----------------------------------------------------------------------------
(* Sources *)

sourceKeeps == <<cleanup, runVars, check, janitor, repair, audits>>

Moves(s, from, to) == src[s] = from /\ src' = [src EXCEPT ![s] = to]

BeginAttempt(s) ==
    /\ Moves(s, "pending", "attempting")
    /\ UNCHANGED <<marker, lost, sourceKeeps, faults>>

\* The Lua scripts of worker and orchestrator add message and marker at once.
\* A slow orchestrator may do so after its attempt was given up.
Xadd(s) ==
    /\ src[s] \in {"prepared", "attempting", "uncertain"}
    /\ marker' = marker \cup {s}
    /\ UNCHANGED <<src, lost, sourceKeeps, faults>>

\* Marked delivered, emitted, or observed by the event listener.
Recorded(s) ==
    /\ s \in marker
    /\ src[s] \in {"prepared", "attempting"} /\ Moves(s, src[s], "known")
    /\ UNCHANGED <<marker, lost, sourceKeeps, faults>>

GivenUp(s) ==
    /\ s \notin marker /\ Moves(s, "attempting", "uncertain")
    /\ UNCHANGED <<marker, lost, sourceKeeps, faults>>

\* A pending dispatch is cancelled and its job deleted: there is no marker.
Dropped(s) ==
    /\ Moves(s, "pending", "gone")
    /\ UNCHANGED <<marker, lost, sourceKeeps, faults>>

\* Mutant: the source outlives the authorization to delete its marker.
DeletedLater(s) == src' = src

\* vp_resolve_worker_event_authority_for_job_deletion deletes the rows in the
\* transaction that authorizes the deletion of their markers.
Deleted(s) == src' = [src EXCEPT ![s] = "gone"]

DeleteJob(s) ==
    /\ src[s] = "known" /\ Deleted(s)
    /\ cleanup' = [cleanup EXCEPT ![s].state = "pending"]
    /\ lost' = lost \ {s}
    /\ UNCHANGED <<marker, runVars, check, janitor, repair, audits, faults>>

LoseMarker(s) ==
    /\ s \in marker /\ Fault
    /\ marker' = marker \ {s}
    /\ lost' = IF src[s] = "known" THEN lost \cup {s} ELSE lost
    /\ UNCHANGED <<src, sourceKeeps>>

-----------------------------------------------------------------------------
(* The readiness check: check_worker_redis_continuity *)

\* Mutant: a marker whose deletion is finished is still demanded.
ExpectedForever(s) ==
    IF cleanup[s].state # "none"
    THEN [Nothing EXCEPT !.state = "cleanup", !.id = TRUE, !.absent = FALSE]
    ELSE IF src[s] = "gone" THEN Nothing
    ELSE [Nothing EXCEPT !.state = IF src[s] = "prepared" THEN "prepared" ELSE "other",
                         !.id = src[s] = "known", !.absent = src[s] \in {"prepared", "pending"}]

\* An authorization to delete takes the place of its source.
Expected(s) ==
    IF cleanup[s].state # "none"
    THEN [Nothing EXCEPT !.state = "cleanup", !.id = TRUE,
                         !.absent = cleanup[s].state \in {"deleted", "absent"}]
    ELSE IF src[s] = "gone" THEN Nothing
    ELSE [Nothing EXCEPT !.state = IF src[s] = "prepared" THEN "prepared" ELSE "other",
                         !.id = src[s] = "known", !.absent = src[s] \in {"prepared", "pending"}]

\* A run that is still within its lease.
Running == status.state = "running" /\ status.live

\* vp_begin_worker_redis_continuity_check; a live run is left alone.
Begin(c) ==
    /\ check[c].pc = "idle" /\ ~Running
    /\ expect' = [s \in Source |-> Expected(s)]
    /\ status' = [state |-> "running", run |-> c, live |-> TRUE]
    /\ found' = {}
    /\ check' = [check EXCEPT ![c] = [IdleCheck EXCEPT !.pc = "begun"]]
    /\ UNCHANGED <<sourceVars, cleanup, janitor, repair, audits, faults>>

checkKeeps == <<sourceVars, janitor, repair>>

Goto(c, pc) == check' = [check EXCEPT ![c].pc = pc]

\* The pages list the expectations of whatever run the status row names.
Load(c) ==
    /\ check[c].pc = "begun"
    /\ IF Running
       THEN check' = [check EXCEPT ![c] = [pc |-> "checking", saw |-> {},
                            todo |-> {s \in Source : expect[s].state # "none"},
                            absent |-> {s \in Source : expect[s].absent}]]
       ELSE Goto(c, "failing")
    /\ UNCHANGED <<checkKeeps, cleanup, runVars, audits, faults>>

\* _verify_expectation: GET and, for a marker that is there, XRANGE.
Verify(c, s) ==
    /\ check[c].pc = "checking" /\ s \in check[c].todo /\ check[c].saw = {}
    /\ IF s \in marker
       THEN check' = [check EXCEPT ![c] = [@ EXCEPT !.todo = check[c].todo \ {s}, !.saw = {s}]]
       ELSE IF s \in check[c].absent THEN check' = [check EXCEPT ![c].todo = @ \ {s}]
       ELSE Goto(c, "failing")
    /\ found' = IF status.run = c /\ s \in marker THEN found \cup {s} ELSE found
    /\ UNCHANGED <<checkKeeps, status, expect, cleanup, audits, faults>>

\* Mutant: whichever run is under way takes the result.
RunOfAny(c) == Running

RunOf(c) == status.run = c /\ Running

\* What vp_record_worker_redis_marker_observation accepts.
Observable(s) ==
    \/ cleanup[s].state # "none" /\ expect[s].id
    \/ /\ cleanup[s].state = "none" /\ src[s] # "gone"
       /\ expect[s].id \/ expect[s].state = "prepared"

\* Mutant: a deletion under way is reopened too.
ReopenedAlways(s) == cleanup[s].state # "none"

\* Mutant: a finished deletion stays finished.
ReopenedNever(s) == FALSE

\* A marker that survived its deletion, or was restored after it.
Reopened(s) == cleanup[s].state \in {"deleted", "absent"}

Record(c, s) ==
    /\ check[c].pc = "checking" /\ s \in check[c].saw
    /\ IF RunOf(c) /\ expect[s].state # "none" /\ Observable(s)
       THEN /\ expect' = [expect EXCEPT ![s].observed = TRUE]
            /\ cleanup' = IF Reopened(s)
                          THEN [cleanup EXCEPT ![s] = [state |-> "pending", run |-> NoRun,
                                                       live |-> FALSE]]
                          ELSE cleanup
            /\ audits' = IF expect[s].id /\ cleanup[s].state = "none"
                         THEN audits \ {s} ELSE audits
            /\ check' = [check EXCEPT ![c].saw = {}]
       ELSE Goto(c, "failing") /\ UNCHANGED <<expect, cleanup, audits>>
    /\ UNCHANGED <<checkKeeps, status, found, faults>>

\* Mutant: markers left over from deleted jobs do not matter.
SweptAlways == TRUE

\* No marker was observed whose deletion is authorized.  Expectation and
\* authorization are joined on the message id, which a prepared event has not.
Swept == \A s \in Source : expect[s].observed /\ expect[s].id => cleanup[s].state = "none"

\* vp_finish_worker_redis_continuity_check with result ready.
FinishReady(c) ==
    /\ check[c].pc = "checking" /\ check[c].todo = {} /\ check[c].saw = {}
    /\ IF RunOf(c) /\ Swept
       THEN /\ status' = [status EXCEPT !.state = "ready"]
            /\ check' = [check EXCEPT ![c] = IdleCheck]
       ELSE Goto(c, "failing") /\ UNCHANGED status
    /\ UNCHANGED <<checkKeeps, expect, found, cleanup, audits, faults>>

\* _finish_continuity_safely: an expired run may still report its error.
FinishError(c) ==
    /\ check[c].pc = "failing"
    /\ status' = IF status.run = c /\ status.state = "running"
                 THEN [status EXCEPT !.state = "error"] ELSE status
    /\ check' = [check EXCEPT ![c] = IdleCheck]
    /\ UNCHANGED <<checkKeeps, expect, found, cleanup, audits, faults>>

\* Redis is unreachable or misconfigured, or the stream entry does not match.
CheckFails(c) ==
    /\ check[c].pc = "checking" /\ Fault
    /\ Goto(c, "failing")
    /\ UNCHANGED <<checkKeeps, runVars, cleanup, audits>>

CheckerDies(c) ==
    /\ check[c].pc # "idle" /\ Fault
    /\ check' = [check EXCEPT ![c] = IdleCheck]
    /\ UNCHANGED <<checkKeeps, runVars, cleanup, audits>>

\* lease_expires_at of the run passes.
RunExpires ==
    /\ Running
    /\ IF check[status.run].pc # "idle" THEN Fault ELSE UNCHANGED faults
    /\ status' = [status EXCEPT !.live = FALSE]
    /\ UNCHANGED <<sourceVars, cleanup, expect, found, check, janitor, repair, audits>>

\* vp_require_worker_redis_continuity, which a worker calls before it consumes;
\* it also bounds the age of the result.
WorkersAdmitted == status.state = "ready"

-----------------------------------------------------------------------------
(* The janitor: run_worker_redis_marker_janitor *)

janitorKeeps == <<src, lost, runVars, check, repair, audits>>

Claimable == {s \in Source : \/ cleanup[s].state = "pending"
                             \/ cleanup[s].state = "claimed" /\ ~cleanup[s].live}

Claim(j) ==
    /\ janitor[j] = IdleJanitor /\ Claimable # {}
    /\ cleanup' = [s \in Source |-> IF s \in Claimable
                       THEN [state |-> "claimed", run |-> j, live |-> TRUE] ELSE cleanup[s]]
    /\ janitor' = [janitor EXCEPT ![j].todo = Claimable]
    /\ UNCHANGED <<marker, janitorKeeps, faults>>

\* COMPARE_DELETE; whether the marker was there is the result.
CompareDelete(j, s) ==
    /\ s \in janitor[j].todo /\ janitor[j].did = {}
    /\ janitor' = [janitor EXCEPT ![j].did = {<<s, IF s \in marker THEN "deleted" ELSE "absent">>}]
    /\ marker' = marker \ {s}
    /\ UNCHANGED <<cleanup, janitorKeeps, faults>>

\* The rows a run has claimed keep its id after it is gone; no later run has it.
Leaves(j) == [s \in Source |-> IF cleanup[s].run = j THEN [cleanup[s] EXCEPT !.run = NoRun]
                               ELSE cleanup[s]]

\* vp_finish_worker_redis_marker_cleanup; a claim that ran out ends the run.
FinishCleanup(j, s, result) ==
    /\ <<s, result>> \in janitor[j].did
    /\ LET c == cleanup[s]
       IN  IF c.state = "claimed" /\ c.run = j /\ c.live
           THEN /\ cleanup' = [cleanup EXCEPT ![s].state = result]
                /\ janitor' = [janitor EXCEPT ![j] = [todo |-> @.todo \ {s}, did |-> {}]]
           ELSE /\ cleanup' = Leaves(j)
                /\ janitor' = [janitor EXCEPT ![j] = IdleJanitor]
    /\ UNCHANGED <<marker, janitorKeeps, faults>>

JanitorDies(j) ==
    /\ janitor[j] # IdleJanitor /\ Fault
    /\ cleanup' = Leaves(j)
    /\ janitor' = [janitor EXCEPT ![j] = IdleJanitor]
    /\ UNCHANGED <<marker, janitorKeeps>>

ClaimExpires(s) ==
    /\ cleanup[s].state = "claimed" /\ cleanup[s].live
    /\ IF cleanup[s].run # NoRun THEN Fault ELSE UNCHANGED faults
    /\ cleanup' = [cleanup EXCEPT ![s].live = FALSE]
    /\ UNCHANGED <<marker, janitor, janitorKeeps>>

\* vp_enforce_worker_redis_marker_cleanup_immutability: the updates it allows.
CleanupTrigger(s) ==
    LET old == cleanup[s] new == cleanup'[s]
    IN  old.state # new.state \/ old.run # new.run =>
          \/ old.state = "none" /\ new.state = "pending"
          \/ old.state = "pending" /\ new.state = "claimed"
          \/ old.state = "claimed" /\ new.state = "claimed" /\ (new.run = NoRun \/ ~old.live)
          \/ old.state = "claimed" /\ new.state \in {"deleted", "absent"} /\ new.run = old.run
          \/ old.state \in {"deleted", "absent"} /\ new.state = "pending"
          \/ old.state = new.state /\ new.run = NoRun

-----------------------------------------------------------------------------
(* The operator: restore_worker_redis_marker, promote_prepared_worker_event *)

repairKeeps == <<src, cleanup, runVars, check, janitor>>

\* vp_load_worker_redis_marker_repair: a row with a message id and no cleanup.
Repairable(s) == src[s] = "known" /\ cleanup[s].state = "none"

RestoreChecks(s) ==
    /\ repair = <<>> /\ Repairable(s) /\ s \notin marker
    /\ repair' = <<s, "checked">>
    /\ UNCHANGED <<repairKeeps, marker, lost, audits, faults>>

RestoreAuthorizes ==
    /\ repair # <<>> /\ repair[2] = "checked"
    /\ IF Repairable(repair[1])
       THEN repair' = <<repair[1], "authorized">> /\ audits' = audits \cup {repair[1]}
       ELSE repair' = <<>> /\ UNCHANGED audits
    /\ UNCHANGED <<repairKeeps, marker, lost, faults>>

\* RESTORE_IF_ABSENT, under no lock of the database.
RestoreSets ==
    /\ repair # <<>> /\ repair[2] = "authorized"
    /\ marker' = marker \cup {repair[1]}
    /\ lost' = lost \ {repair[1]}
    /\ repair' = <<>>
    /\ UNCHANGED <<repairKeeps, audits, faults>>

RestoreGivesUp ==
    /\ repair # <<>> /\ repair' = <<>>
    /\ UNCHANGED <<repairKeeps, marker, lost, audits, faults>>

\* vp_promote_observed_worker_event_emission, on the evidence of the run.
Promote(s) ==
    /\ s \in marker
    /\ expect[s].state = "prepared" /\ expect[s].observed /\ status.live
    /\ Moves(s, "prepared", "known")
    /\ UNCHANGED <<marker, lost, sourceKeeps, faults>>

-----------------------------------------------------------------------------
Sources(s) ==
    \/ BeginAttempt(s) \/ Xadd(s) \/ Recorded(s) \/ GivenUp(s) \/ Dropped(s)
    \/ DeleteJob(s) \/ LoseMarker(s) \/ Promote(s)

Checking(c) == Begin(c) \/ Load(c) \/ FinishReady(c) \/ FinishError(c)
               \/ \E s \in Source : Verify(c, s) \/ Record(c, s)

Sweeping(j) ==
    \/ Claim(j)
    \/ \E s \in Source : CompareDelete(j, s) \/ FinishCleanup(j, s, "deleted")
                         \/ FinishCleanup(j, s, "absent")

MarkerNext ==
    \/ \E s \in Source : Sources(s) \/ ClaimExpires(s) \/ RestoreChecks(s)
    \/ \E c \in Checker : Checking(c) \/ CheckFails(c) \/ CheckerDies(c)
    \/ \E j \in Janitor : Sweeping(j) \/ JanitorDies(j)
    \/ RunExpires \/ RestoreAuthorizes \/ RestoreSets \/ RestoreGivesUp

MarkerSpec == MarkerInit /\ [][MarkerNext]_markerVars

\* The readiness check and the janitor are timers; leases run out.  Attempts
\* end and prepared events are sent or found (WorkerDispatch).
MarkerFairSpec ==
    /\ MarkerSpec
    /\ \A c \in Checker : WF_markerVars(Checking(c))
    /\ \A j \in Janitor : WF_markerVars(Sweeping(j))
    /\ WF_markerVars(RunExpires /\ UNCHANGED faults)
    /\ WF_markerVars(RestoreAuthorizes) /\ WF_markerVars(RestoreSets)
    /\ \A s \in Source : /\ WF_markerVars(ClaimExpires(s) /\ UNCHANGED faults)
                         /\ WF_markerVars(Recorded(s)) /\ WF_markerVars(GivenUp(s))

-----------------------------------------------------------------------------
(* Properties *)

\* The janitor deletes no marker of a row that still stands: whoever retries
\* that row's XADD finds the marker unless Redis itself lost it.
LiveMarkerStays == \A s \in Source : src[s] = "known" => s \in marker \cup lost

\* Workers start on "ready": the run that said so itself saw every marker it
\* had to see, however many runs overlapped or were given up.
ReadyMeansSeen ==
    WorkersAdmitted =>
        \A s \in Source : expect[s].state # "none" /\ ~expect[s].absent => s \in found

\* A run that met a marker of a deleted job does not end ready, even when the
\* job was deleted after the marker was looked at; only the marker of an event
\* that was prepared when the run began passes, and is left to the next run.
ReadyMeansSwept ==
    [][(~WorkersAdmitted /\ WorkersAdmitted'
        => \A s \in found : cleanup[s].state = "none" \/ expect[s].state = "prepared")]_markerVars

\* Checker, janitor and job deletion write the authorization rows only as
\* their trigger allows: a refused update would fail on every retry.
CleanupMovesLegally == [][\A s \in Source : CleanupTrigger(s)]_markerVars

\* What keeps the check failing until an operator acts.
Stuck == \E s \in Source : src[s] = "uncertain" \/ s \in lost

\* The check is ready again and again, once faults stop.
ContinuityReturns == []<>(WorkersAdmitted \/ Stuck)

\* The marker of a deleted job is deleted, also one restored by an operator who
\* raced the deletion.
OrphansAreDeleted ==
    \A s \in Source : src[s] = "gone" /\ s \in marker ~> s \notin marker \/ Stuck
==============================================================================
