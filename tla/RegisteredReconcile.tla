------------------------ MODULE RegisteredReconcile ------------------------
(***************************************************************************)
(* The run itself: a controller in a container retires the Redis consumers *)
(* of replaced workers.  Before and after each irreversible EVAL it asks   *)
(* the deployment host, which answers through files: the container appends *)
(* a frame to `requests`, the host commits it to its record and replaces   *)
(* `reply.json`.  An unanswered call poisons the client for good.          *)
(* Old workers may read their stream until their lease runs out; the       *)
(* worker that replaced them may restart.                                  *)
(***************************************************************************)
EXTENDS RegisteredJobs, Sequences, FiniteSets

CONSTANTS
    Order,        \* the streams, in the order of the service contracts
    Chain,        \* stream -> the consumers before the current one, newest first
    Leased,       \* those of them whose lease has not run out at the start
    Start,        \* what Redis may know of them at the start
    MaxSequence   \* MAX_SEQUENCE of the callback protocol

VARIABLES
    cons,     \* Redis: "absent", "busy" (entries pending), "active" or "idle"
    live,     \* consumers whose lease has not run out
    moved,    \* streams whose current worker registered again
    pinned,   \* consumers the current capture found to retire
    rec,      \* registered-reconcile.json
    tail,     \* the frame of `requests` the host has not consumed
    reply,    \* reply.json: the number of the frame it answers
    ctl,      \* the controller
    evals     \* history: EVALs sent, per stream

redisVars == <<cons, live, moved>>
fileVars == <<rec, tail, reply>>
vars == <<jobVars, redisVars, pinned, fileVars, ctl, evals>>

Range(s) == {s[i] : i \in DOMAIN s}
Stream == Range(Order)
Consumer == UNION {Range(Chain[s]) : s \in Stream}
StreamOf(c) == CHOOSE s \in Stream : c \in Range(Chain[s])

ASSUME ChainsAreApart ==
    /\ MaxSequence \in Nat
    /\ Order \in Seq(Stream) /\ \A s \in Stream : Chain[s] \in Seq(Consumer)
    /\ Leased \subseteq {Chain[s][1] : s \in {t \in Stream : Chain[t] # <<>>}}
    /\ Start \subseteq [Consumer -> {"absent", "active", "idle"}]
    /\ \A f \in Start : \A c \in Consumer \ Leased : f[c] # "active"
    /\ \A s \in Stream : \A i, j \in DOMAIN Chain[s] : i # j => Chain[s][i] # Chain[s][j]
    /\ \A s, t \in Stream : s # t => Range(Chain[s]) \cap Range(Chain[t]) = {}

NoRecord == [exists |-> FALSE, attached |-> FALSE, sequence |-> 0,
             streams |-> [s \in Stream |-> "unused"], last |-> "none"]
NoFrame == [sequence |-> 0, action |-> "none", stream |-> "none", outcome |-> "none"]
Frame(n, a, s, o) == [sequence |-> n, action |-> a, stream |-> s, outcome |-> o]

Started == [pc |-> "begin", next |-> "none", sequence |-> 0, todo |-> {},
            attempted |-> {}, poisoned |-> FALSE, uncertain |-> "none", outcome |-> "none"]

(***************************************************************************)
(* What is pinned                                                          *)
(***************************************************************************)
Present(s) == {c \in Range(Chain[s]) : cons[c] # "absent"}

(* capture_history: the chain back to the oldest name Redis still has, and
   at least the predecessor *)
Retiring(s) ==
    {Chain[s][i] : i \in {i \in DOMAIN Chain[s] :
        i = 1 \/ \E j \in i..Len(Chain[s]) : Chain[s][j] \in Present(s)}}

(* make_binding and EvalCommand: a stream has a command if it has a predecessor *)
Commanded(s) == pinned \cap Range(Chain[s]) # {}

(* the guard function's rows under FOR SHARE, and validate_database over them:
   the pinned workers are the active ones; what it returns are lease waits *)
DatabaseHolds == moved = {}

(* Mutant: a revoked worker's lease is not waited for *)
NoLeaseWaits == {}

LeaseWaits == live \cap pinned

(* _inventory_outcome; a pending entry or an unknown name refuses the run *)
InventoryHolds(s) ==
    /\ Present(s) \subseteq pinned
    /\ \A c \in Present(s) : cons[c] # "busy"
    /\ s \notin moved

InventoryOutcome(s) ==
    CASE Present(s) = {} -> "already_absent"
      [] \A c \in Present(s) : cons[c] = "idle" -> "ready"
      [] OTHER -> "wait"

(* assess *)
Refused == ~DatabaseHolds \/ \E s \in Stream : ~InventoryHolds(s)
MustWait == LeaseWaits # {} \/ \E s \in Stream : InventoryOutcome(s) = "wait"
Commands == {s \in Stream : InventoryOutcome(s) = "ready" /\ Commanded(s)}

(* commands are carried out in the order of the contracts *)
First(S) == Order[CHOOSE i \in DOMAIN Order :
                    Order[i] \in S /\ \A j \in DOMAIN Order : Order[j] \in S => i <= j]

(***************************************************************************)
(* The host's record                                                       *)
(***************************************************************************)
(* prepare_registered_reconcile *)
WriteRecord ==
    /\ host = Op("record", "run")
    /\ Applying /\ ~rec.exists
    /\ rec' = [NoRecord EXCEPT !.exists = TRUE]
    /\ host' = Idle
    /\ UNCHANGED <<phase, workers, job, secret, svc, exitc, held, faults, redisVars, pinned,
                   tail, reply, ctl, evals>>

(* bind_registered_reconcile_job *)
AttachRecord ==
    /\ host = Op("attach", "run")
    /\ Applying /\ rec.exists /\ rec.sequence = 0
    /\ rec' = [rec EXCEPT !.attached = TRUE]
    /\ host' = Idle
    /\ UNCHANGED <<phase, workers, job, secret, svc, exitc, held, faults, redisVars, pinned,
                   tail, reply, ctl, evals>>

(* a launch of a run whose record was never written ends in an error *)
AttachFails ==
    /\ host = Op("attach", "run")
    /\ ~rec.exists
    /\ host' = Idle
    /\ UNCHANGED <<phase, workers, job, secret, svc, exitc, held, faults, redisVars, pinned,
                   fileVars, ctl, evals>>

Undecided == \E s \in Stream : rec.streams[s] \in {"consumed", "unknown"}
Untouched == \A s \in Stream : rec.streams[s] = "unused"

(* advance_record: what may follow what *)
MayAdvance(f) ==
    /\ f.sequence = rec.sequence + 1 /\ f.sequence <= MaxSequence
    /\ rec.last # "finished"
    /\ f.action = "before_eval" => rec.streams[f.stream] = "unused" /\ ~Undecided
    /\ f.action = "after_eval" => rec.streams[f.stream] = "consumed"
    /\ f.action = "finished" => ~Undecided /\ (f.outcome = "already_absent" <=> Untouched)

StreamsAfter(f) ==
    CASE f.action = "before_eval" -> [rec.streams EXCEPT ![f.stream] = "consumed"]
      [] f.action = "after_eval" -> [rec.streams EXCEPT ![f.stream] = f.outcome]
      [] OTHER -> rec.streams

Advanced(f) ==
    [rec EXCEPT !.sequence = f.sequence, !.last = f.action, !.streams = StreamsAfter(f)]

(* the owner callback: the bound service with its task running *)
OwnerHolds == job["run"].bound /\ job["run"].task /\ svc["run"] = "up" /\ exitc["run"] = "none"

(* answer_registered_reconcile: the record is written before the reply is,
   and a frame it has consumed is never answered again *)
Consume ==
    /\ host = Idle /\ Applying
    /\ job["run"].state = "created"
    /\ rec.attached /\ tail # NoFrame
    /\ OwnerHolds /\ workers = "verified"
    /\ MayAdvance(tail)
    /\ rec' = Advanced(tail)
    /\ tail' = NoFrame
    /\ host' = Op("reply", "run")
    /\ UNCHANGED <<phase, workers, job, secret, svc, exitc, held, faults, redisVars, pinned,
                   reply, ctl, evals>>

WriteReply ==
    /\ host = Op("reply", "run")
    /\ reply' = rec.sequence
    /\ host' = Idle
    /\ UNCHANGED <<phase, workers, job, secret, svc, exitc, held, faults, redisVars, pinned,
                   rec, tail, ctl, evals>>

(* registered_finish_receipt *)
Receipt == rec.attached /\ rec.last = "finished" /\ tail = NoFrame

ObserveRun ==
    /\ Observe("run", exitc["run"] = "ok" /\ Receipt)
    /\ UNCHANGED <<redisVars, pinned, fileVars, ctl, evals>>

ObserveCapture(st) ==
    /\ st # "run"
    /\ Observe(st, exitc[st] = "ok")
    /\ UNCHANGED <<redisVars, pinned, fileVars, ctl, evals>>

(* build_capture_pins *)
Pins == UNION {Retiring(s) : s \in Stream}

(* capture_managed; a baseline pins nothing *)
Capture(st) ==
    /\ \E how \in {"ok", "invalid", "failed"} :
        /\ CaptureExits(st, how)
        /\ pinned' = IF st = "current" /\ how = "ok" THEN Pins ELSE pinned
    /\ UNCHANGED <<redisVars, fileVars, ctl, evals>>

(***************************************************************************)
(* The controller: reconcile_registered_consumers under run_managed        *)
(***************************************************************************)
Running == svc["run"] \in {"up", "stopping"} /\ exitc["run"] = "none"

At(label) == Running /\ ctl.pc = label

Goes(label) ==
    /\ ctl' = [ctl EXCEPT !.pc = label]
    /\ UNCHANGED <<jobVars, redisVars, pinned, fileVars, evals>>

(* FileAuthority._call: append one frame, then wait for its answer *)
Calls(c, action, s, outcome, next) ==
    /\ IF c.poisoned \/ c.sequence = MaxSequence
       THEN /\ ctl' = [c EXCEPT !.poisoned = TRUE, !.pc = "failing"]
            /\ UNCHANGED tail
       ELSE /\ ctl' = [c EXCEPT !.pc = "await", !.next = next]
            /\ tail' = Frame(c.sequence + 1, action, s, outcome)
    /\ UNCHANGED <<jobVars, redisVars, pinned, rec, reply, evals>>

(* only the reply to this very frame lets the call return *)
Answered ==
    /\ At("await")
    /\ reply = ctl.sequence + 1
    /\ ctl' = [ctl EXCEPT !.pc = ctl.next, !.sequence = @ + 1]
    /\ UNCHANGED <<jobVars, redisVars, pinned, fileVars, evals>>

(* Mutant: a call that times out returns as if it had been accepted *)
TimeoutReturns ==
    /\ At("await")
    /\ reply # ctl.sequence + 1
    /\ ctl' = [ctl EXCEPT !.pc = ctl.next, !.sequence = @ + 1]
    /\ UNCHANGED <<jobVars, redisVars, pinned, fileVars, evals>>

TimesOut ==
    /\ At("await")
    /\ reply # ctl.sequence + 1
    /\ ctl' = [ctl EXCEPT !.pc = "failing", !.poisoned = TRUE]
    /\ UNCHANGED <<jobVars, redisVars, pinned, fileVars, evals>>

(* from here on the stream is attempted and its result uncertain *)
MarksAttempt(label) ==
    /\ ctl' = [ctl EXCEPT !.pc = label, !.attempted = @ \cup {First(ctl.todo)},
                          !.uncertain = First(ctl.todo)]
    /\ UNCHANGED <<jobVars, redisVars, pinned, fileVars, evals>>

(* credentials, identities, a timeout or a lost connection may end the run
   wherever it talks to PostgreSQL or Redis *)
Breaks ==
    \/ \E l \in {"connect", "assess", "recheck", "final"} : At(l) /\ Goes("failing")
    \/ At("guard") /\ MarksAttempt("failing")

Begin == At("begin") /\ Calls(ctl, "revalidate", "none", "none", "connect")
Connect == At("connect") /\ Goes("loop")
Loop == At("loop") /\ Calls(ctl, "revalidate", "none", "none", "assess")

(* guard rows, Redis inventory, decision; a wait ends the transaction *)
Assess ==
    /\ At("assess")
    /\ ctl' = IF Refused THEN [ctl EXCEPT !.pc = "failing"]
              ELSE IF MustWait THEN [ctl EXCEPT !.pc = "loop"]
              ELSE [ctl EXCEPT !.pc = "next", !.todo = Commands]
    /\ UNCHANGED <<jobVars, redisVars, pinned, fileVars, evals>>

NextCommand ==
    /\ At("next")
    /\ IF ctl.todo # {} /\ First(ctl.todo) \in ctl.attempted
       THEN Goes("failing")
       ELSE Calls(ctl, "revalidate", "none", "none", IF ctl.todo = {} THEN "final" ELSE "recheck")

(* everything is read again before the intent *)
Recheck ==
    /\ At("recheck")
    /\ LET s == First(ctl.todo) IN
       IF Refused THEN Goes("failing")
       ELSE IF MustWait THEN Goes("loop")
       ELSE IF s \notin Commands
            THEN /\ ctl' = [ctl EXCEPT !.pc = "next", !.todo = @ \ {s}]
                 /\ UNCHANGED <<jobVars, redisVars, pinned, fileVars, evals>>
       ELSE Calls(ctl, "before_eval", s, "none", "guard")

Guard ==
    /\ At("guard")
    /\ MarksAttempt(IF DatabaseHolds /\ LeaseWaits = {} THEN "eval" ELSE "failing")

(* ATOMIC_RECONCILE_HISTORY_LUA: checks everything, deletes, checks again *)
LuaRefuses(s) == s \in moved \/ \E c \in Present(s) : c \notin pinned \/ cons[c] # "idle"

Eval ==
    /\ At("eval")
    /\ LET s == ctl.uncertain IN
       /\ evals' = [evals EXCEPT ![s] = @ + 1]
       /\ cons' = IF LuaRefuses(s) THEN cons
                  ELSE [c \in Consumer |-> IF c \in Present(s) THEN "absent" ELSE cons[c]]
       /\ ctl' = [ctl EXCEPT !.pc = IF LuaRefuses(s) THEN "failing" ELSE "after",
                             !.outcome = IF Present(s) = {} THEN "already_absent" ELSE "retired"]
    /\ UNCHANGED <<jobVars, live, moved, pinned, fileVars>>

(* the script ran, or not, and its answer is lost; it is not sent again *)
EvalAnswerLost ==
    /\ At("eval") /\ faults < MaxFaults
    /\ LET s == ctl.uncertain IN
       /\ evals' = [evals EXCEPT ![s] = @ + 1]
       /\ cons' = IF LuaRefuses(s) THEN cons
                  ELSE [c \in Consumer |-> IF c \in Present(s) THEN "absent" ELSE cons[c]]
    /\ ctl' = [ctl EXCEPT !.pc = "failing"]
    /\ faults' = faults + 1
    /\ UNCHANGED <<phase, workers, job, secret, svc, exitc, held, host, live, moved, pinned, fileVars>>

After ==
    /\ At("after")
    /\ Calls(ctl, "after_eval", ctl.uncertain, ctl.outcome, "settled")

Settle ==
    /\ At("settled")
    /\ ctl' = [ctl EXCEPT !.pc = "next", !.todo = @ \ {ctl.uncertain}, !.uncertain = "none"]
    /\ UNCHANGED <<jobVars, redisVars, pinned, fileVars, evals>>

(* the last assessment is read-only: every pinned consumer must be gone *)
Final ==
    /\ At("final")
    /\ IF Refused \/ LeaseWaits # {} \/ \E s \in Stream : InventoryOutcome(s) # "already_absent"
       THEN Goes("failing")
       ELSE Calls(ctl, "finished", "none",
                  IF ctl.attempted = {} THEN "already_absent" ELSE "reconciled", "done")

(* finalize: an uncertain EVAL is reported as unknown if the client still can *)
Failing ==
    /\ At("failing")
    /\ ctl.uncertain # "none" /\ ~ctl.poisoned /\ ctl.sequence < MaxSequence
    /\ Calls([ctl EXCEPT !.uncertain = "none"], "after_eval", ctl.uncertain, "unknown", "failing")

Exits(how) ==
    /\ exitc' = [exitc EXCEPT !["run"] = how]
    /\ svc' = [svc EXCEPT !["run"] = IF @ = "stopping" THEN "gone" ELSE @]
    /\ UNCHANGED <<phase, workers, job, secret, held, host, faults, redisVars, pinned, fileVars,
                   ctl, evals>>

ExitsFailed ==
    /\ At("failing")
    /\ ctl.uncertain = "none" \/ ctl.poisoned \/ ctl.sequence = MaxSequence
    /\ Exits("failed")

ExitsDone == At("done") /\ Exits("ok")

(***************************************************************************)
(* The workers                                                             *)
(***************************************************************************)
envFrame == <<jobVars, pinned, fileVars, ctl, evals>>

(* the process of a replaced worker reads while its lease lasts *)
OldReads(c) ==
    /\ c \in live
    /\ cons' = [cons EXCEPT ![c] = "busy"]
    /\ UNCHANGED <<envFrame, live, moved>>

OldAcks(c) ==
    /\ cons[c] = "busy"
    /\ cons' = [cons EXCEPT ![c] = "active"]
    /\ UNCHANGED <<envFrame, live, moved>>

Ages(c) ==
    /\ cons[c] = "active"
    /\ cons' = [cons EXCEPT ![c] = "idle"]
    /\ UNCHANGED <<envFrame, live, moved>>

(* an old worker is revoked by its replacement, and its lease then runs out *)
LeaseExpires(c) ==
    /\ c \in live /\ workers = "verified"
    /\ live' = live \ {c}
    /\ UNCHANGED <<envFrame, cons, moved>>

(* the row locks of the guard keep registrations as they are *)
RowsLocked ==
    /\ Running
    /\ \/ ctl.pc \in {"next", "recheck", "guard", "eval", "after", "settled", "final"}
       \/ ctl.pc = "await" /\ ctl.next \in {"recheck", "guard", "settled", "final"}

CurrentRestarts(s) ==
    /\ workers = "verified" /\ faults < MaxFaults /\ s \notin moved /\ ~RowsLocked
    /\ moved' = moved \cup {s}
    /\ faults' = faults + 1
    /\ UNCHANGED <<phase, workers, job, secret, svc, exitc, held, host, pinned, fileVars, ctl,
                   evals, cons, live>>

Init ==
    /\ JobsInit
    /\ cons \in Start
    /\ live = Leased
    /\ moved = {}
    /\ pinned = {}
    /\ rec = NoRecord
    /\ tail = NoFrame
    /\ reply = 0
    /\ ctl = Started
    /\ evals = [s \in Stream |-> 0]

(* what the deployment, Docker and the helper do without the controller *)
Alone == UNCHANGED <<redisVars, pinned, fileVars, ctl, evals>>

Host ==
    \/ WriteRecord
    \/ AttachRecord
    \/ AttachFails
    \/ Consume
    \/ WriteReply
    \/ ObserveRun
    \/ \E st \in Stage : ObserveCapture(st)

Controller ==
    \/ Begin
    \/ Connect
    \/ Loop
    \/ Assess
    \/ NextCommand
    \/ Recheck
    \/ Guard
    \/ Eval
    \/ After
    \/ Settle
    \/ Final
    \/ Failing
    \/ ExitsFailed
    \/ ExitsDone
    \/ Answered
    \/ TimesOut

Next ==
    \/ JobsStep /\ Alone
    \/ VerifyWorkers /\ Alone
    \/ HelperDies /\ Alone
    \/ \E st \in Stage : ContainerStops(st) /\ Alone
    \/ \E st \in Stage : Capture(st)
    \/ Host
    \/ Controller
    \/ Breaks
    \/ EvalAnswerLost
    \/ \E c \in Consumer : OldReads(c)
    \/ \E c \in Consumer : OldAcks(c)
    \/ \E c \in Consumer : Ages(c)
    \/ \E c \in Consumer : LeaseExpires(c)
    \/ \E s \in Stream : CurrentRestarts(s)

(* the deployment goes on to its end, cleaning up whatever happened; Docker
   stops a container it was told to stop *)
Fairness ==
    /\ WF_vars(JobsStep /\ Alone)
    /\ WF_vars(Host)
    /\ WF_vars(\E st \in Stage : ContainerStops(st) /\ Alone)

Spec == Init /\ [][Next]_vars /\ Fairness

(***************************************************************************)
(* Properties                                                              *)
(***************************************************************************)
TypeOK ==
    /\ JobsTypeOK
    /\ cons \in [Consumer -> {"absent", "busy", "active", "idle"}]
    /\ live \subseteq Consumer /\ moved \subseteq Stream /\ pinned \subseteq Consumer
    /\ rec.sequence \in 0..MaxSequence /\ reply \in 0..MaxSequence
    /\ ctl.sequence \in 0..MaxSequence

(* A stream gets at most one EVAL in the life of a transaction, and only after
   the host's record says so: whatever dies or times out in between, the record
   never claims a stream untouched that was not. *)
EvalIsJournaled ==
    \A s \in Stream : /\ evals[s] <= 1
                      /\ evals[s] = 1 => rec.streams[s] # "unused"

(* A transaction is verified only with every consumer of every replaced worker
   gone from Redis, for good: none of them can read its stream again. *)
SuccessMeansRetired ==
    phase = "FORWARD_VERIFIED" => \A c \in Consumer : cons[c] = "absent"

(* However the jobs end, the transaction leaves FORWARD_APPLYING, unless a
   request to Docker stays unaccounted for. *)
AttemptEnds == <>~Applying \/ <>[]Ambiguous

=============================================================================
