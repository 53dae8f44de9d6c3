--------------------------- MODULE ReconcileProofs ---------------------------
(***************************************************************************)
(* Proofs about RegisteredJobs and RegisteredReconcile, for any streams,   *)
(* chains of consumers, leases, sequence limit and faults.                 *)
(*                                                                         *)
(* What Docker has, or may still bring, is accounted for by the journal at *)
(* every step; frames, replies and the controller are numbered alike, so   *)
(* that an answer proves that the host's record was written.               *)
(***************************************************************************)
EXTENDS RegisteredReconcile, TLAPS, WellFoundedInduction

JobField == {"state", "bound", "task", "exit", "result"}
CtlField == {"pc", "next", "sequence", "todo", "attempted", "poisoned", "uncertain", "outcome"}
RecField == {"exists", "attached", "sequence", "streams", "last"}

JobShape ==
    /\ DOMAIN job = Stage /\ \A st \in Stage : DOMAIN job[st] = JobField
    /\ DOMAIN secret = Key /\ DOMAIN exitc = Stage
    /\ svc \in [Stage -> {"none", "requested", "up", "stopping", "gone"}]
    /\ held \in [Key -> {"none", "requested", "up", "gone"}]

\* The journal knows of whatever Docker has of a job, or may still create.
StageInv(st) ==
    /\ svc[st] = "requested" => job[st].state = "launching"
    /\ svc[st] = "up" => job[st].state \in {"launching", "created", "terminal", "removing"}
    /\ svc[st] = "stopping" => job[st].state = "removing" /\ exitc[st] = "none"
    /\ job[st].state \in {"none", "planned"} => svc[st] = "none"
    /\ host = Op("create", st) => job[st].state = "launching" /\ svc[st] = "none"
    /\ job[st].result => exitc[st] = "ok"

SecretInv(k) ==
    /\ held[k] = "requested" => secret[k] = "creating"
    /\ held[k] = "up" => secret[k] \in {"creating", "present"}
    /\ host = Op("secret", k) => secret[k] = "creating"

\* The gate stays shut behind the transaction; a run follows a good capture.
GateInv ==
    /\ ~Applying => host = Idle /\ Gate(FALSE)
    /\ phase = "FORWARD_VERIFIED" => Gate(TRUE)
    /\ job["run"].state # "none" => Captured("current")

JobInv ==
    /\ JobShape
    /\ \A st \in Stage : StageInv(st)
    /\ \A k \in Key : SecretInv(k)
    /\ GateInv

\* A controller that reports success has seen every consumer gone, and none of
\* their leases is left to bring one back.
Succeeds == \/ ctl.pc = "done"
            \/ ctl.pc = "await" /\ ctl.next = "done"
            \/ exitc["run"] = "ok"

AllGone == live = {} /\ \A c \in Consumer : cons[c] = "absent"

GoneInv ==
    /\ DOMAIN cons = Consumer /\ live \subseteq Leased
    /\ exitc["current"] = "ok" => Leased \subseteq pinned
    /\ Succeeds => AllGone

CtlShape ==
    /\ DOMAIN ctl = CtlField /\ DOMAIN rec = RecField
    /\ DOMAIN rec.streams = Stream /\ evals \in [Stream -> Nat]
    /\ ctl.sequence \in Nat /\ rec.sequence \in Nat /\ reply \in Nat
    /\ ctl.todo \subseteq Stream

\* Frame, record and reply are at most one ahead of the controller.
NumberInv ==
    /\ reply <= rec.sequence
    /\ rec.sequence = ctl.sequence \/ rec.sequence = ctl.sequence + 1
    /\ tail # NoFrame => tail.sequence = ctl.sequence + 1 /\ rec.sequence = ctl.sequence
    /\ ctl.pc # "await" /\ ctl.pc # "failing" => tail = NoFrame /\ rec.sequence = ctl.sequence
    /\ ctl.pc = "failing" => ctl.poisoned \/ (tail = NoFrame /\ rec.sequence = ctl.sequence)
    /\ ctl.poisoned => ctl.pc = "failing"
    /\ ~rec.exists => ~rec.attached /\ rec.sequence = 0 /\ rec.streams = [s \in Stream |-> "unused"]

Marked(s) == rec.streams[s] # "unused"
Asks(label) == ctl.pc = "await" /\ ctl.next = label

\* The stream the controller is at was not attempted before, and is marked in
\* the record by the time its EVAL is sent.
EvalInv ==
    /\ ctl.pc \in {"recheck", "guard"} \/ Asks("recheck") \/ Asks("guard")
       => ctl.todo # {} /\ First(ctl.todo) \notin ctl.attempted
    /\ Asks("guard") /\ tail # NoFrame
       => tail.action = "before_eval" /\ tail.stream = First(ctl.todo)
    /\ Asks("guard") /\ rec.sequence # ctl.sequence => Marked(First(ctl.todo))
    /\ ctl.pc = "guard" => Marked(First(ctl.todo))
    /\ ctl.pc = "eval" => /\ ctl.uncertain \in Stream \cap ctl.attempted
                          /\ evals[ctl.uncertain] = 0 /\ Marked(ctl.uncertain)
    /\ tail.action = "after_eval" => tail.outcome # "unused"
    /\ ctl.outcome # "unused" /\ ctl.next # "eval"
    /\ \A s \in Stream : evals[s] # 0 => s \in ctl.attempted

CtlInv == CtlShape /\ NumberInv /\ EvalInv /\ EvalIsJournaled

ReconcileInv == JobInv /\ GoneInv /\ CtlInv

-----------------------------------------------------------------------------
(* The jobs. *)

LEMMA OpsDiffer ==
    ASSUME NEW a, NEW b, NEW x, NEW y
    PROVE  Op(a, x) = Op(b, y) <=> a = b /\ x = y
  BY ZenonT(30) DEF Op

\* What a step of one stage or secret does to the others.
LEMMA StageKept ==
    ASSUME NEW x, StageInv(x), job'[x] = job[x], svc'[x] = svc[x], exitc'[x] = exitc[x],
           host' = Op("create", x) => host = host'
    PROVE  StageInv(x)'
  BY ZenonT(30) DEF StageInv

LEMMA SecretKept ==
    ASSUME NEW x, SecretInv(x), held'[x] = held[x], secret'[x] = secret[x],
           host' = Op("secret", x) => host = host'
    PROVE  SecretInv(x)'
  BY ZenonT(30) DEF SecretInv

LEMMA GateKept ==
    ASSUME GateInv, phase' = phase,
           ~Applying => UNCHANGED <<job, secret, host>>,
           job'["run"].state # "none" => job["run"].state # "none" \/ Captured("current"),
           Captured("current") => job'["current"] = job["current"]
    PROVE  GateInv'
<1>1. Captured("current") => Captured("current")'
  BY ZenonT(30) DEF Captured
<1>2. CASE Applying
  BY <1>1, <1>2, ZenonT(30) DEF GateInv, Applying
<1>3. CASE ~Applying
  <2>1. Gate(FALSE)' <=> Gate(FALSE)
    BY <1>3, ZenonT(30) DEF Gate, Settled, Captured
  <2>2. Gate(TRUE)' <=> Gate(TRUE)
    BY <1>3, ZenonT(30) DEF Gate, Settled, Captured
  <2> QED
    BY <1>1, <1>3, <2>1, <2>2, ZenonT(30) DEF GateInv, Applying
<1> QED
  BY <1>2, <1>3, ZenonT(30)

\* Docker and the containers write neither journal nor phase.
LEMMA DockerMoves ==
    ASSUME JobInv, UNCHANGED <<phase, job, secret, held>>, host' = host \/ host' = Idle,
           NEW st \in Stage, \A x \in Stage : x # st => svc'[x] = svc[x] /\ exitc'[x] = exitc[x],
           svc' \in [Stage -> {"none", "requested", "up", "stopping", "gone"}],
           DOMAIN exitc' = Stage, StageInv(st)'
    PROVE  JobInv'
<1>1. host' = Idle \/ host' = host
  BY ZenonT(30)
<1>2. \A x \in Stage : host' = Op("create", x) => host = host'
  BY OpsDiffer, SMTT(30) DEF Idle
<1>3. \A x \in Key : host' = Op("secret", x) => host = host'
  BY OpsDiffer, SMTT(30) DEF Idle
<1>4. \A x \in Stage : StageInv(x)'
  BY <1>2, StageKept, ZenonT(30) DEF JobInv
<1>5. \A x \in Key : SecretInv(x)'
  BY <1>3, SecretKept, ZenonT(30) DEF JobInv
<1>6. GateInv'
  <2>1. ~Applying => host' = host
    BY ZenonT(30) DEF JobInv, GateInv
  <2> QED
    BY <2>1, GateKept, ZenonT(30) DEF JobInv
<1>7. JobShape'
  BY ZenonT(30) DEF JobInv, JobShape
<1> QED
  BY <1>4, <1>5, <1>6, <1>7, ZenonT(30) DEF JobInv

\* A step of the journal at one stage.
LEMMA JournalMoves ==
    ASSUME JobInv, UNCHANGED <<phase, secret, held, svc, exitc>>, Applying, NEW st \in Stage,
           DOMAIN job' = Stage, DOMAIN job'[st] = JobField,
           \A x \in Stage : x # st => job'[x] = job[x],
           \A x \in Stage : x # st /\ host' = Op("create", x) => host = host',
           \A x \in Key : host' = Op("secret", x) => host = host',
           StageInv(st)', ~Captured(st),
           st = "run" => job["run"].state # "none" \/ Captured("current")
    PROVE  JobInv'
<1>1. \A x \in Stage : StageInv(x)'
  BY StageKept, ZenonT(30) DEF JobInv
<1>2. \A x \in Key : SecretInv(x)'
  BY SecretKept, ZenonT(30) DEF JobInv
<1>3. GateInv'
  <2>1. "run" \in Stage /\ "current" \in Stage
    BY ZenonT(30) DEF Stage
  <2>2. job'["run"].state # "none" => job["run"].state # "none" \/ Captured("current")
    BY <2>1, ZenonT(30)
  <2>3. Captured("current") => job'["current"] = job["current"]
    BY <2>1, ZenonT(30)
  <2> QED
    BY <2>2, <2>3, GateKept, ZenonT(30) DEF JobInv
<1>4. JobShape'
  BY ZenonT(30) DEF JobInv, JobShape
<1> QED
  BY <1>1, <1>2, <1>3, <1>4, ZenonT(30) DEF JobInv

\* A step of the journal or of Docker at one secret.
LEMMA SecretMoves ==
    ASSUME JobInv, UNCHANGED <<phase, job, svc, exitc>>, NEW k \in Key,
           ~Applying => UNCHANGED <<secret, host>>,
           DOMAIN secret' = Key, held' \in [Key -> {"none", "requested", "up", "gone"}],
           \A x \in Key : x # k => secret'[x] = secret[x] /\ held'[x] = held[x],
           \A x \in Stage : host' = Op("create", x) => host = host',
           \A x \in Key : x # k /\ host' = Op("secret", x) => host = host',
           SecretInv(k)'
    PROVE  JobInv'
<1>1. \A x \in Stage : StageInv(x)'
  BY StageKept, ZenonT(30) DEF JobInv
<1>2. \A x \in Key : SecretInv(x)'
  BY SecretKept, ZenonT(30) DEF JobInv
<1>3. GateInv'
  BY GateKept, ZenonT(30) DEF JobInv
<1>4. JobShape'
  BY ZenonT(30) DEF JobInv, JobShape
<1> QED
  BY <1>1, <1>2, <1>3, <1>4, ZenonT(30) DEF JobInv

LEMMA StateSet ==
    ASSUME JobShape, NEW st \in Stage, NEW v, job' = [job EXCEPT ![st].state = v]
    PROVE  /\ DOMAIN job' = Stage /\ \A x \in Stage : x # st => job'[x] = job[x]
           /\ DOMAIN job'[st] = JobField /\ job'[st].state = v /\ job'[st].result = job[st].result
  BY ZenonT(30) DEF JobShape, JobField

LEMMA CreatedSet ==
    ASSUME JobShape, NEW st \in Stage,
           job' = [job EXCEPT ![st] = [job[st] EXCEPT !.state = "created", !.bound = TRUE]]
    PROVE  /\ DOMAIN job' = Stage /\ \A x \in Stage : x # st => job'[x] = job[x]
           /\ DOMAIN job'[st] = JobField /\ job'[st].state = "created"
           /\ job'[st].result = job[st].result
<1>1. PICK t : t = TRUE
  BY ZenonT(30)
<1>2. job' = [job EXCEPT ![st] = [job[st] EXCEPT !.state = "created", !.bound = t]]
  BY <1>1, ZenonT(30)
<1> QED
  BY <1>2, ZenonT(30) DEF JobShape, JobField

\* The journal's states of one stage, with nothing else written.
LEMMA StateMoves ==
    ASSUME JobInv, UNCHANGED <<phase, secret, held, svc, exitc>>, Applying, NEW st \in Stage,
           DOMAIN job' = Stage, \A x \in Stage : x # st => job'[x] = job[x],
           DOMAIN job'[st] = JobField, job'[st].result = job[st].result,
           \/ job[st].state = "none" /\ job'[st].state = "planned"
           \/ job[st].state = "launching" /\ job'[st].state = "created" /\ svc[st] = "up"
           \/ job[st].state \in {"planned", "created", "terminal"} /\ job'[st].state = "removing"
           \/ job[st].state = "removing" /\ job'[st].state = "removed" /\ ~Listed(st),
           host = Idle \/ host.op # "create", host'.op \notin {"create", "secret"},
           st = "run" => job["run"].state # "none" \/ Captured("current")
    PROVE  JobInv'
<1>1. \A x : host' # Op("create", x) /\ host' # Op("secret", x)
  BY SMTT(30) DEF Op
<1>2. StageInv(st)
  BY ZenonT(30) DEF JobInv
<1>3. StageInv(st)'
  BY <1>1, <1>2, ZenonT(30) DEF StageInv, Listed
<1>4. ~Captured(st)
  BY ZenonT(30) DEF Captured
<1> QED
  BY <1>1, <1>3, <1>4, JournalMoves, ZenonT(30)

LEMMA Busy ==
    ASSUME JobInv, NEW st \in Stage, job[st].state \notin {"none", "removed"}  PROVE Applying
  BY ZenonT(30) DEF JobInv, GateInv, Gate, Settled

LEMMA Held ==
    ASSUME JobInv, NEW k \in Key, secret[k] \notin {"none", "removed"}  PROVE Applying
  BY ZenonT(30) DEF JobInv, GateInv, Gate

LEMMA Working ==
    ASSUME JobInv, NEW a, NEW x, host = Op(a, x), a # "idle"  PROVE Applying
<1>1. host # Idle
  BY ZenonT(30) DEF Idle, Op
<1> QED
  BY <1>1, ZenonT(30) DEF JobInv, GateInv

LEMMA IdleOp == Idle.op = "idle" /\ \A a, x : Op(a, x).op = a /\ Op(a, x).at = x
  BY ZenonT(30) DEF Idle, Op

\* Only the helper's place in its work changes.
LEMMA HostMoves ==
    ASSUME JobInv, UNCHANGED <<phase, job, secret, svc, exitc, held>>, Applying \/ host' = host,
           host' = host \/ host'.op \notin {"create", "secret"}
    PROVE  JobInv'
<1>1. \A x : (host' = Op("create", x) => host = host') /\ (host' = Op("secret", x) => host = host')
  BY IdleOp, ZenonT(30)
<1>2. \A x \in Stage : StageInv(x)'
  BY <1>1, StageKept, ZenonT(30) DEF JobInv
<1>3. \A x \in Key : SecretInv(x)'
  BY <1>1, SecretKept, ZenonT(30) DEF JobInv
<1>4. GateInv'
  BY GateKept, ZenonT(30) DEF JobInv
<1>5. JobShape'
  BY ZenonT(30) DEF JobInv, JobShape
<1> QED
  BY <1>2, <1>3, <1>4, <1>5, ZenonT(30) DEF JobInv

SecretStep(k) ==
    \/ CreateRead /\ k = "capture_read"
    \/ CreatePins /\ k = "pins"
    \/ RequestSecret(k) \/ DockerSecret(k) \/ BindSecret(k) \/ RemoveSecret(k) \/ CleanupSecret(k)

LEMMA SecretSteps ==
    ASSUME JobInv, NEW k \in Key, SecretStep(k)  PROVE JobInv'
<1>0. JobShape /\ SecretInv(k) /\ UNCHANGED <<phase, job, svc, exitc>>
  BY ZenonT(30) DEF JobInv, SecretStep, CreateRead, CreatePins, RequestSecret, DockerSecret, BindSecret,
    RemoveSecret, CleanupSecret
<1>1. CASE (CreateRead /\ k = "capture_read") \/ (CreatePins /\ k = "pins")
  <2>1. /\ Applying /\ host' = Op("secret", k) /\ secret' = [secret EXCEPT ![k] = "creating"]
        /\ secret[k] = "none" /\ held' = held
    BY <1>1, ZenonT(30) DEF CreateRead, CreatePins
  <2>2. DOMAIN secret' = Key /\ secret'[k] = "creating" /\ \A x \in Key : x # k => secret'[x] = secret[x]
    BY <1>0, <2>1, ZenonT(30) DEF JobShape
  <2>3. SecretInv(k)'
    BY <1>0, <2>1, <2>2, ZenonT(30) DEF SecretInv
  <2>4. (\A x : host' # Op("create", x)) /\ \A x : x # k => host' # Op("secret", x)
    BY <2>1, OpsDiffer, SMTT(30)
  <2> QED
    BY <1>0, <2>1, <2>2, <2>3, <2>4, SecretMoves, ZenonT(30) DEF JobShape
<1>2. CASE RequestSecret(k)
  <2>1. /\ host = Op("secret", k) /\ host' = Op("bind", k) /\ secret' = secret
        /\ held' = [held EXCEPT ![k] = "requested"]
    BY <1>2, ZenonT(30) DEF RequestSecret
  <2>2. Applying
    <3>1. PICK a : host = Op(a, k) /\ a # "idle"
      BY <2>1, SMTT(30)
    <3> QED
      BY <3>1, Working, ZenonT(30)
  <2>3. /\ held' \in [Key -> {"none", "requested", "up", "gone"}]
        /\ held'[k] = "requested" /\ \A x \in Key : x # k => held'[x] = held[x]
    BY <1>0, <2>1, ZenonT(30) DEF JobShape
  <2>4. \A x : host' # Op("create", x) /\ host' # Op("secret", x)
    BY <2>1, OpsDiffer, SMTT(30)
  <2>5. SecretInv(k)'
    BY <1>0, <2>1, <2>3, <2>4, ZenonT(30) DEF SecretInv
  <2> QED
    BY <1>0, <2>1, <2>2, <2>3, <2>4, <2>5, SecretMoves, ZenonT(30) DEF JobShape
<1>3. CASE DockerSecret(k) \/ RemoveSecret(k)
  <2>1. PICK r \in {"up", "none", "gone"} :
            /\ held' = [held EXCEPT ![k] = r] /\ UNCHANGED <<secret, host>>
            /\ r = "up" => held[k] = "requested"
    BY <1>3, ZenonT(30) DEF DockerSecret, RemoveSecret
  <2>2. /\ held' \in [Key -> {"none", "requested", "up", "gone"}]
        /\ held'[k] = r /\ \A x \in Key : x # k => held'[x] = held[x]
    BY <1>0, <2>1, ZenonT(30) DEF JobShape
  <2>3. SecretInv(k)'
    BY <1>0, <2>1, <2>2, ZenonT(30) DEF SecretInv
  <2> QED
    BY <1>0, <2>1, <2>2, <2>3, SecretMoves, ZenonT(30) DEF JobShape
<1>4. CASE BindSecret(k)
  <2>1. /\ host = Op("bind", k) /\ secret' = [secret EXCEPT ![k] = "present"] /\ held' = held
        /\ secret[k] = "creating" /\ held[k] = "up" /\ \E y : host' = Op("prepare", y)
    BY <1>4, ZenonT(30) DEF BindSecret
  <2>2. Applying
    <3>1. PICK a : host = Op(a, k) /\ a # "idle"
      BY <2>1, SMTT(30)
    <3> QED
      BY <3>1, Working, ZenonT(30)
  <2>3. DOMAIN secret' = Key /\ secret'[k] = "present" /\ \A x \in Key : x # k => secret'[x] = secret[x]
    BY <1>0, <2>1, ZenonT(30) DEF JobShape
  <2>4. \A x : host' # Op("create", x) /\ host' # Op("secret", x)
    BY <2>1, OpsDiffer, SMTT(30)
  <2>5. SecretInv(k)'
    BY <1>0, <2>1, <2>3, <2>4, ZenonT(30) DEF SecretInv
  <2> QED
    BY <1>0, <2>1, <2>2, <2>3, <2>4, <2>5, SecretMoves, ZenonT(30) DEF JobShape
<1>5. CASE CleanupSecret(k)
  <2>1. /\ host = Idle /\ host' = host /\ secret' = [secret EXCEPT ![k] = "removed"] /\ held' = held
        /\ secret[k] = "present" /\ held[k] = "gone"
    BY <1>5, ZenonT(30) DEF CleanupSecret, Removable
  <2>2. Applying
    BY <2>1, Held, ZenonT(30)
  <2>3. DOMAIN secret' = Key /\ secret'[k] = "removed" /\ \A x \in Key : x # k => secret'[x] = secret[x]
    BY <1>0, <2>1, ZenonT(30) DEF JobShape
  <2>4. \A x : host' # Op("create", x) /\ host' # Op("secret", x)
    BY <2>1, OpsDiffer, SMTT(30) DEF Idle
  <2>5. SecretInv(k)'
    BY <1>0, <2>1, <2>3, <2>4, ZenonT(30) DEF SecretInv
  <2> QED
    BY <1>0, <2>1, <2>2, <2>3, <2>4, <2>5, SecretMoves, ZenonT(30) DEF JobShape
<1> QED
  BY <1>1, <1>2, <1>3, <1>4, <1>5, ZenonT(30) DEF SecretStep

StageStep(st) ==
    \/ PrepareRun /\ st = "run"
    \/ PrepareCapture(st) \/ BindService(st) \/ CleanupDiscover(st) \/ CleanupMark(st) \/ CleanupDone(st)

LEMMA StageSteps ==
    ASSUME JobInv, NEW st \in Stage, StageStep(st)  PROVE JobInv'
<1>0. JobShape /\ UNCHANGED <<phase, secret, held, svc, exitc>>
  BY ZenonT(30) DEF JobInv, StageStep, PrepareCapture, PrepareRun, BindService, CleanupDiscover, CleanupMark,
    CleanupDone
<1>1. CASE PrepareCapture(st) \/ (PrepareRun /\ st = "run")
  <2>1. /\ Applying /\ job[st].state = "none" /\ job' = [job EXCEPT ![st].state = "planned"]
        /\ st = "run" => Captured("current")
        /\ host = Idle \/ (\E y : host = Op("prepare", y))
        /\ host' = Idle \/ (\E y : host' = Op("record", y))
    BY <1>1, ZenonT(30) DEF PrepareCapture, PrepareRun
  <2>2. (host = Idle \/ host.op # "create") /\ host'.op \notin {"create", "secret"}
    BY <2>1, IdleOp, SMTT(30)
  <2>3. /\ DOMAIN job' = Stage /\ \A x \in Stage : x # st => job'[x] = job[x]
        /\ DOMAIN job'[st] = JobField /\ job'[st].state = "planned"
        /\ job'[st].result = job[st].result
    BY <1>0, <2>1, StateSet, ZenonT(30)
  <2> QED
    BY <1>0, <2>1, <2>2, <2>3, StateMoves, ZenonT(30)
<1>2. CASE BindService(st) \/ CleanupDiscover(st)
  <2>1. /\ job[st].state = "launching" /\ svc[st] = "up"
        /\ job' = [job EXCEPT ![st] = [job[st] EXCEPT !.state = "created", !.bound = TRUE]]
        /\ host = Idle \/ (\E y : host = Op("await", y))
        /\ host' = Idle \/ (\E y : host' = Op("attach", y))
    BY <1>2, ZenonT(30) DEF BindService, CleanupDiscover
  <2>2. (host = Idle \/ host.op # "create") /\ host'.op \notin {"create", "secret"}
    BY <2>1, IdleOp, SMTT(30)
  <2>3. Applying
    BY <2>1, Busy, ZenonT(30)
  <2>4. /\ DOMAIN job' = Stage /\ \A x \in Stage : x # st => job'[x] = job[x]
        /\ DOMAIN job'[st] = JobField /\ job'[st].state = "created"
        /\ job'[st].result = job[st].result
    BY <1>0, <2>1, CreatedSet, ZenonT(30)
  <2> QED
    BY <1>0, <2>1, <2>2, <2>3, <2>4, StateMoves, ZenonT(30)
<1>3. CASE CleanupMark(st) \/ CleanupDone(st)
  <2>1. PICK v : /\ job' = [job EXCEPT ![st].state = v] /\ host = Idle /\ host' = host
                 /\ \/ job[st].state \in {"planned", "created", "terminal"} /\ v = "removing"
                    \/ job[st].state = "removing" /\ v = "removed" /\ ~Listed(st)
    BY <1>3, ZenonT(30) DEF CleanupMark, CleanupDone, Absent
  <2>2. host'.op \notin {"create", "secret"}
    BY <2>1, IdleOp, ZenonT(30)
  <2>3. Applying /\ job[st].state # "none"
    BY <2>1, Busy, ZenonT(30)
  <2>4. /\ DOMAIN job' = Stage /\ \A x \in Stage : x # st => job'[x] = job[x]
        /\ DOMAIN job'[st] = JobField /\ job'[st].state = v
        /\ job'[st].result = job[st].result
    BY <1>0, <2>1, StateSet, ZenonT(30)
  <2>5. CASE job[st].state \in {"planned", "created", "terminal"} /\ v = "removing"
    BY <1>0, <2>1, <2>2, <2>3, <2>4, <2>5, StateMoves, ZenonT(60)
  <2>6. CASE job[st].state = "removing" /\ v = "removed" /\ ~Listed(st)
    BY <1>0, <2>1, <2>2, <2>3, <2>4, <2>6, StateMoves, ZenonT(60)
  <2> QED
    BY <2>1, <2>5, <2>6, ZenonT(30)
<1> QED
  BY <1>1, <1>2, <1>3, ZenonT(30) DEF StageStep

LEMMA ServiceSteps ==
    ASSUME JobInv, NEW st \in Stage,
           Launch(st) \/ RequestService(st) \/ DockerService(st) \/ CleanupRemove(st) \/ ContainerStops(st)
    PROVE  JobInv'
<1>0. JobShape /\ StageInv(st) /\ UNCHANGED <<phase, secret, held>>
  BY ZenonT(30) DEF JobInv, Launch, RequestService, DockerService, CleanupRemove, ContainerStops
<1>1. CASE Launch(st)
  <2>1. /\ Applying /\ job[st].state = "planned" /\ job' = [job EXCEPT ![st].state = "launching"]
        /\ host' = Op("create", st) /\ UNCHANGED <<svc, exitc>>
    BY <1>1, ZenonT(30) DEF Launch
  <2>2. /\ DOMAIN job' = Stage /\ \A x \in Stage : x # st => job'[x] = job[x]
        /\ DOMAIN job'[st] = JobField /\ job'[st].state = "launching"
        /\ job'[st].result = job[st].result
    BY <1>0, <2>1, StateSet, ZenonT(30)
  <2>3. (\A x : host' # Op("secret", x)) /\ \A x : x # st => host' # Op("create", x)
    BY <2>1, OpsDiffer, SMTT(30)
  <2>4. StageInv(st)'
    BY <1>0, <2>1, <2>2, ZenonT(30) DEF StageInv
  <2>5. ~Captured(st)
    BY <2>1, ZenonT(30) DEF Captured
  <2> QED
    BY <1>0, <2>1, <2>2, <2>3, <2>4, <2>5, JournalMoves, ZenonT(30)
<1>2. CASE RequestService(st)
  <2>1. /\ host = Op("create", st) /\ host' = Op("await", st) /\ UNCHANGED <<job, exitc>>
        /\ svc' = [svc EXCEPT ![st] = "requested"]
    BY <1>2, ZenonT(30) DEF RequestService
  <2>2. /\ svc' \in [Stage -> {"none", "requested", "up", "stopping", "gone"}]
        /\ svc'[st] = "requested" /\ \A x \in Stage : x # st => svc'[x] = svc[x]
    BY <1>0, <2>1, ZenonT(30) DEF JobShape
  <2>3. \A x : host' # Op("secret", x) /\ host' # Op("create", x)
    BY <2>1, OpsDiffer, SMTT(30)
  <2>4. Applying
    <3>1. PICK a : host = Op(a, st) /\ a # "idle"
      BY <2>1, SMTT(30)
    <3> QED
      BY <3>1, Working, ZenonT(30)
  <2>5. StageInv(st)'
    BY <1>0, <2>1, <2>2, <2>3, ZenonT(30) DEF StageInv
  <2>6. \A x \in Stage : StageInv(x)'
    BY <2>1, <2>2, <2>3, <2>5, StageKept, ZenonT(30) DEF JobInv
  <2>7. \A x \in Key : SecretInv(x)'
    BY <1>0, <2>3, SecretKept, ZenonT(30) DEF JobInv
  <2>8. GateInv'
    BY <1>0, <2>1, <2>4, GateKept, ZenonT(30) DEF JobInv
  <2>9. JobShape'
    BY <1>0, <2>1, <2>2, ZenonT(30) DEF JobShape
  <2> QED
    BY <2>6, <2>7, <2>8, <2>9, ZenonT(30) DEF JobInv
<1>3. CASE DockerService(st) \/ CleanupRemove(st)
  <2>1. PICK r \in {"up", "none", "stopping", "gone"} :
            /\ svc' = [svc EXCEPT ![st] = r] /\ UNCHANGED <<job, exitc, host>>
            /\ svc[st] # "none"
            /\ \/ svc[st] = "requested" /\ r \in {"up", "none"}
               \/ /\ job[st].state = "removing" /\ r \in {"stopping", "gone"}
                  /\ r = "stopping" => exitc[st] = "none"
    BY <1>3, ZenonT(30) DEF DockerService, CleanupRemove
  <2>2. /\ svc' \in [Stage -> {"none", "requested", "up", "stopping", "gone"}]
        /\ svc'[st] = r /\ \A x \in Stage : x # st => svc'[x] = svc[x]
    BY <1>0, <2>1, ZenonT(30) DEF JobShape
  <2>3. StageInv(st)'
    BY <1>0, <2>1, <2>2, ZenonT(30) DEF StageInv
  <2> QED
    BY <1>0, <2>1, <2>2, <2>3, DockerMoves, ZenonT(30) DEF JobShape
<1>4. CASE ContainerStops(st)
  <2>1. /\ svc[st] = "stopping" /\ UNCHANGED <<job, host>>
        /\ svc' = [svc EXCEPT ![st] = "gone"] /\ exitc' = [exitc EXCEPT ![st] = "failed"]
    BY <1>4, ZenonT(30) DEF ContainerStops
  <2>2. /\ svc' \in [Stage -> {"none", "requested", "up", "stopping", "gone"}]
        /\ svc'[st] = "gone" /\ \A x \in Stage : x # st => svc'[x] = svc[x] /\ exitc'[x] = exitc[x]
        /\ DOMAIN exitc' = Stage
    BY <1>0, <2>1, ZenonT(30) DEF JobShape
  <2>3. StageInv(st)'
    BY <1>0, <2>1, <2>2, ZenonT(30) DEF StageInv
  <2> QED
    BY <1>0, <2>1, <2>2, <2>3, DockerMoves, ZenonT(30)
<1> QED
  BY <1>1, <1>2, <1>3, <1>4, ZenonT(30)

\* A container ends: a capture, or the run.
LEMMA Ends ==
    ASSUME JobInv, NEW st \in Stage, svc[st] \in {"up", "stopping"}, exitc[st] = "none",
           svc' \in [Stage -> {"none", "requested", "up", "stopping", "gone"}],
           svc'[st] \in {"up", "gone"}, svc[st] = "stopping" => svc'[st] = "gone",
           \A x \in Stage : x # st => svc'[x] = svc[x] /\ exitc'[x] = exitc[x],
           DOMAIN exitc' = Stage, UNCHANGED <<phase, job, secret, held, host>>
    PROVE  JobInv'
<1>1. StageInv(st)'
  BY ZenonT(30) DEF JobInv, StageInv
<1> QED
  BY <1>1, DockerMoves, ZenonT(30)

LEMMA LeaveSteps ==
    ASSUME JobInv, NEW t \in {"FORWARD_VERIFIED", "ROLLBACK_PREPARING"}, Leave(t)
    PROVE  JobInv'
<1>0. /\ host = Idle /\ Gate(t = "FORWARD_VERIFIED") /\ phase' = t
      /\ UNCHANGED <<job, secret, svc, exitc, held, host>>
  BY ZenonT(30) DEF Leave
<1>1. Gate(FALSE) /\ (t = "FORWARD_VERIFIED" => Gate(TRUE))
  BY <1>0, ZenonT(30) DEF Gate
<1>2. GateInv'
  <2>1. Gate(FALSE)' /\ (Gate(TRUE) => Gate(TRUE)')
    BY <1>0, <1>1, ZenonT(30) DEF Gate, Settled, Captured
  <2> QED
    BY <1>0, <1>1, <2>1, ZenonT(30) DEF JobInv, GateInv, Captured
<1>3. \A x \in Stage : StageInv(x)'
  BY <1>0, StageKept, ZenonT(30) DEF JobInv
<1>4. \A x \in Key : SecretInv(x)'
  BY <1>0, SecretKept, ZenonT(30) DEF JobInv
<1>5. JobShape'
  BY <1>0, ZenonT(30) DEF JobInv, JobShape
<1> QED
  BY <1>2, <1>3, <1>4, <1>5, ZenonT(30) DEF JobInv

LEMMA JobsSteps ==
    ASSUME JobInv, JobsStep  PROVE JobInv'
<1>1. CASE HelperRaises
  <2>1. /\ host.op \in {"bind", "await"} /\ host' = Idle
        /\ UNCHANGED <<phase, job, secret, svc, exitc, held>>
    BY <1>1, ZenonT(30) DEF HelperRaises
  <2>2. host # Idle /\ host'.op \notin {"create", "secret"}
    BY <2>1, IdleOp, ZenonT(30)
  <2>3. Applying
    BY <2>2, ZenonT(30) DEF JobInv, GateInv
  <2> QED
    BY <2>1, <2>2, <2>3, HostMoves, ZenonT(30)
<1>2. "capture_read" \in Key /\ "pins" \in Key /\ "run" \in Stage
  BY ZenonT(30) DEF Key, Stage
<1>3. CASE CreateRead
  <2>1. SecretStep("capture_read")
    BY <1>3, ZenonT(30) DEF SecretStep
  <2> QED
    BY <1>2, <2>1, SecretSteps, ZenonT(30)
<1>9. CASE CreatePins
  <2>1. SecretStep("pins")
    BY <1>9, ZenonT(30) DEF SecretStep
  <2> QED
    BY <1>2, <2>1, SecretSteps, ZenonT(30)
<1>4. CASE PrepareRun
  <2>1. StageStep("run")
    BY <1>4, ZenonT(30) DEF StageStep
  <2> QED
    BY <1>2, <2>1, StageSteps, ZenonT(30)
<1>7. ASSUME NEW k \in Key,
             RequestSecret(k) \/ DockerSecret(k) \/ BindSecret(k) \/ RemoveSecret(k) \/ CleanupSecret(k)
      PROVE  JobInv'
  <2>1. SecretStep(k)
    BY <1>7, ZenonT(30) DEF SecretStep
  <2> QED
    BY <2>1, SecretSteps, ZenonT(30)
<1>8. ASSUME NEW st \in Stage, \/ PrepareCapture(st) \/ BindService(st) \/ CleanupDiscover(st)
                               \/ CleanupMark(st) \/ CleanupDone(st)
      PROVE  JobInv'
  <2>1. StageStep(st)
    BY <1>8, ZenonT(30) DEF StageStep
  <2> QED
    BY <2>1, StageSteps, ZenonT(30)
<1>5. CASE \E st \in Stage : Launch(st) \/ RequestService(st) \/ DockerService(st) \/ CleanupRemove(st)
  BY <1>5, ServiceSteps, ZenonT(30)
<1>6. CASE \E t \in {"FORWARD_VERIFIED", "ROLLBACK_PREPARING"} : Leave(t)
  BY <1>6, LeaveSteps, ZenonT(30)
<1> QED
  BY <1>1, <1>3, <1>4, <1>5, <1>6, <1>7, <1>8, <1>9, ZenonT(30) DEF JobsStep

LEMMA JobsKept ==
    ASSUME JobInv, UNCHANGED <<phase, job, secret, svc, exitc, held, host>>  PROVE JobInv'
  BY HostMoves, ZenonT(30)

\* Observing a container writes its end into the journal.
LEMMA ObserveSteps ==
    ASSUME JobInv, NEW st \in Stage, NEW valid, valid => exitc[st] = "ok", Observe(st, valid)
    PROVE  JobInv'
<1>0. /\ JobShape /\ StageInv(st) /\ host = Idle /\ svc[st] = "up"
      /\ UNCHANGED <<phase, secret, held, svc, exitc, host>>
      /\ job[st].state \in {"launching", "created"} /\ job' = [job EXCEPT ![st] = Observed(st, valid)]
  BY ZenonT(30) DEF JobInv, Observe
<1>1. PICK v : v = IF exitc[st] = "none" THEN "created" ELSE "terminal"
  BY ZenonT(30)
<1>9. PICK t, r : t = TRUE /\ r = (exitc[st] \in {"ok", "invalid"} /\ valid)
  BY ZenonT(30)
<1>10. PICK e : e = ExitCode(st)
  BY ZenonT(30)
<1>2. job' = [job EXCEPT ![st] = [job[st] EXCEPT !.bound = t, !.task = t, !.state = v, !.exit = e,
                                                !.result = r]]
  BY <1>0, <1>1, <1>9, <1>10, ZenonT(30) DEF Observed
<1>3. /\ DOMAIN job' = Stage /\ \A x \in Stage : x # st => job'[x] = job[x]
      /\ DOMAIN job'[st] = JobField /\ job'[st].state = v /\ job'[st].result = r
  <2>1. PICK y : y = [job[st] EXCEPT !.bound = t, !.task = t, !.state = v, !.exit = e, !.result = r]
    BY ZenonT(30)
  <2>2. DOMAIN y = JobField /\ y.state = v /\ y.result = r
    BY <1>0, <2>1, ZenonT(30) DEF JobShape, JobField
  <2>3. job' = [job EXCEPT ![st] = y]
    BY <1>2, <2>1, ZenonT(30)
  <2> QED
    BY <1>0, <2>2, <2>3, ZenonT(30) DEF JobShape
<1>4. r => exitc[st] = "ok"
  BY <1>9, ZenonT(30)
<1>5. v \in {"created", "terminal"}
  BY <1>1, ZenonT(30)
<1>6. host' # Op("create", st)
  BY <1>0, OpsDiffer, SMTT(30) DEF Idle
<1>7. StageInv(st)'
  BY <1>0, <1>3, <1>4, <1>5, <1>6, ZenonT(30) DEF StageInv
<1>8. Applying /\ ~Captured(st)
  BY <1>0, Busy, ZenonT(30) DEF Captured
<1> QED
  BY <1>0, <1>3, <1>7, <1>8, JournalMoves, ZenonT(30)

-----------------------------------------------------------------------------
(* The consumers. *)

LEMMA LeasedPinned == Leased \subseteq Pins
<1>1. SUFFICES ASSUME NEW s \in Stream, Chain[s] # <<>>, Chain[s] \in Seq(Consumer)
               PROVE  Chain[s][1] \in Pins
  BY ChainsAreApart, SMTT(30)
<1>2. 1 \in DOMAIN Chain[s]
  BY <1>1, SMTT(30)
<1>3. Chain[s][1] \in Retiring(s)
  BY <1>2, ZenonT(30) DEF Retiring
<1> QED
  BY <1>3, ZenonT(30) DEF Pins

LEMMA GoneKept ==
    ASSUME GoneInv, DOMAIN cons' = Consumer, live' \subseteq live, AllGone => AllGone',
           pinned \subseteq pinned', exitc'["current"] = "ok" => exitc["current"] = "ok",
           Succeeds' => Succeeds
    PROVE  GoneInv'
  BY ZenonT(30) DEF GoneInv

LEMMA ConsumersKept ==
    ASSUME GoneInv, UNCHANGED <<cons, live, pinned, exitc>>, Succeeds' => Succeeds
    PROVE  GoneInv'
<1>1. AllGone => AllGone'
  BY ZenonT(30) DEF AllGone
<1> QED
  BY <1>1, GoneKept, ZenonT(30) DEF GoneInv

\* The run's container is there only after a good capture of the current state.
LEMMA RunningIsPinned ==
    ASSUME JobInv, GoneInv, Running  PROVE live \subseteq pinned
<1>1. "run" \in Stage /\ "current" \in Stage
  BY ZenonT(30) DEF Stage
<1>2. job["run"].state # "none"
  BY <1>1, ZenonT(30) DEF JobInv, StageInv, Running
<1>3. exitc["current"] = "ok"
  BY <1>1, <1>2, ZenonT(30) DEF JobInv, StageInv, GateInv, Captured
<1> QED
  BY <1>3, ZenonT(30) DEF GoneInv

LEMMA AbsentEverywhere ==
    ASSUME \A s \in Stream : InventoryOutcome(s) = "already_absent"
    PROVE  \A c \in Consumer : cons[c] = "absent"
<1>1. \A s \in Stream : Present(s) = {}
  <2> SUFFICES ASSUME NEW s \in Stream, Present(s) # {}  PROVE FALSE
    BY ZenonT(30)
  <2>1. InventoryOutcome(s) \in {"ready", "wait"}
    BY ZenonT(30) DEF InventoryOutcome
  <2> QED
    BY <2>1, ZenonT(30)
<1>2. ASSUME NEW c \in Consumer  PROVE cons[c] = "absent"
  <2>1. PICK s \in Stream : c \in Range(Chain[s])
    BY ZenonT(30) DEF Consumer
  <2> QED
    BY <1>1, <2>1, ZenonT(30) DEF Present
<1> QED
  BY <1>2, ZenonT(30)

LEMMA CaptureSteps ==
    ASSUME JobInv, GoneInv, NEW st \in Stage, Capture(st)  PROVE JobInv' /\ GoneInv'
<1>0. PICK how : /\ st \in {"baseline", "current"} /\ svc[st] \in {"up", "stopping"} /\ exitc[st] = "none"
                 /\ exitc' = [exitc EXCEPT ![st] = how]
                 /\ svc' = [svc EXCEPT ![st] = IF svc[st] = "stopping" THEN "gone" ELSE svc[st]]
                 /\ UNCHANGED <<phase, job, secret, held, host, cons, live, ctl>>
                 /\ pinned' = IF st = "current" /\ how = "ok" THEN Pins ELSE pinned
  BY ZenonT(30) DEF Capture, CaptureExits, redisVars
<1>9. /\ svc' \in [Stage -> {"none", "requested", "up", "stopping", "gone"}]
      /\ svc'[st] \in {"up", "gone"} /\ (svc[st] = "stopping" => svc'[st] = "gone")
      /\ \A x \in Stage : x # st => svc'[x] = svc[x] /\ exitc'[x] = exitc[x]
      /\ DOMAIN exitc' = Stage /\ exitc'[st] = how
  <2>1. /\ JobShape /\ svc[st] \in {"up", "stopping"} /\ exitc' = [exitc EXCEPT ![st] = how]
        /\ svc' = [svc EXCEPT ![st] = IF svc[st] = "stopping" THEN "gone" ELSE svc[st]]
    BY <1>0, ZenonT(30) DEF JobInv
  <2> QED
    BY <2>1, ZenonT(30) DEF JobShape
<1>1. JobInv'
  BY <1>0, <1>9, Ends, ZenonT(30)
<1>2. "run" \in Stage /\ "current" \in Stage /\ st # "run"
  BY <1>0, ZenonT(30) DEF Stage
<1>3. Succeeds' => Succeeds
  BY <1>0, <1>2, <1>9, ZenonT(30) DEF Succeeds
<1>4. AllGone => AllGone'
  BY <1>0, ZenonT(30) DEF AllGone
<1>5. ASSUME st = "current", how = "ok"  PROVE GoneInv'
  <2>1. Leased \subseteq pinned'
    BY <1>0, <1>5, LeasedPinned, ZenonT(30)
  <2> QED
    BY <1>0, <1>3, <1>4, <2>1, ZenonT(30) DEF GoneInv
<1>6. ASSUME ~(st = "current" /\ how = "ok")  PROVE GoneInv'
  <2>1. exitc'["current"] = "ok" => exitc["current"] = "ok"
    BY <1>2, <1>6, <1>9, ZenonT(30)
  <2> QED
    BY <1>0, <1>3, <1>4, <1>6, <2>1, GoneKept, ZenonT(30) DEF GoneInv
<1> QED
  BY <1>1, <1>5, <1>6, ZenonT(30)

LEMMA ConsumerSteps ==
    ASSUME GoneInv, UNCHANGED <<exitc, pinned, ctl>>,
           \/ \E c \in Consumer : \/ OldReads(c) \/ OldAcks(c) \/ Ages(c) \/ LeaseExpires(c)
           \/ UNCHANGED <<cons, live>>
    PROVE  GoneInv'
<1>1. Succeeds' => Succeeds
  BY ZenonT(30) DEF Succeeds
<1>2. DOMAIN cons' = Consumer /\ live' \subseteq live
  BY ZenonT(30) DEF GoneInv, OldReads, OldAcks, Ages, LeaseExpires
<1>3. AllGone => AllGone'
  BY ZenonT(30) DEF AllGone, OldReads, OldAcks, Ages, LeaseExpires
<1> QED
  BY <1>1, <1>2, <1>3, GoneKept, ZenonT(30)

-----------------------------------------------------------------------------
(* The controller and the host's record. *)

LEMMA FirstIsOne ==
    ASSUME NEW S, S \subseteq Stream, S # {}  PROVE First(S) \in S
<1> DEFINE R == {ss \in Nat \X Nat : ss[1] < ss[2]}
<1> DEFINE T == {i \in DOMAIN Order : Order[i] \in S}
<1>1. IsWellFoundedOn(R, Nat)
  BY NatLessThanWellFounded, ZenonT(30) DEF OpToRel
<1>2. Order \in Seq(Stream)
  BY ChainsAreApart, ZenonT(30)
<1>3. T \subseteq Nat
  BY <1>2, SMTT(30)
<1>4. T # {}
  BY ZenonT(30) DEF Stream, Range
<1> HIDE DEF R
<1>5. PICK x \in T : \A y \in T : ~ (<<y, x>> \in R)
  BY <1>1, <1>3, <1>4, WFMin, ZenonT(30)
<1>6. ASSUME NEW y \in T  PROVE x <= y
  <2>1. x \in Nat /\ y \in Nat /\ ~ (<<y, x>> \in R)
    BY <1>3, <1>5, ZenonT(30)
  <2>2. ~ (y < x)
    BY <2>1, ZenonT(30) DEF R
  <2> QED
    BY <2>1, <2>2, SMTT(30)
<1>7. /\ x \in DOMAIN Order /\ Order[x] \in S
      /\ \A j \in DOMAIN Order : Order[j] \in S => x <= j
  BY <1>6, ZenonT(30)
<1> QED
  BY <1>7, ZenonT(30) DEF First

LEMMA CtlKept ==
    ASSUME CtlInv, UNCHANGED <<rec, tail, reply, ctl, evals>>  PROVE CtlInv'
  BY ZenonT(30) DEF CtlInv, CtlShape, NumberInv, EvalInv, EvalIsJournaled, Marked, Asks

\* The controller goes on without a call, to a place that promises nothing.
LEMMA CtlMoves ==
    ASSUME CtlInv, UNCHANGED <<rec, tail, reply, evals>>, ctl.pc \notin {"await", "failing"},
           DOMAIN ctl' = CtlField, ctl'.pc \notin {"await", "recheck", "guard", "eval"},
           ctl'.sequence = ctl.sequence, ctl'.poisoned = ctl.poisoned, ctl'.todo \subseteq Stream,
           ctl.attempted \subseteq ctl'.attempted, ctl'.outcome # "unused", ctl'.next = ctl.next
    PROVE  CtlInv'
<1>1. CtlShape'
  BY ZenonT(30) DEF CtlInv, CtlShape
<1>2. ~ctl.poisoned /\ tail = NoFrame /\ rec.sequence = ctl.sequence
  BY ZenonT(30) DEF CtlInv, NumberInv
<1>3. NumberInv'
  BY <1>2, ZenonT(30) DEF CtlInv, NumberInv
<1>4. EvalInv'
  BY ZenonT(30) DEF CtlInv, EvalInv, Asks
<1>5. EvalIsJournaled'
  BY ZenonT(30) DEF CtlInv, EvalIsJournaled
<1> QED
  BY <1>1, <1>3, <1>4, <1>5, ZenonT(30) DEF CtlInv

LEMMA PcSet ==
    ASSUME DOMAIN ctl = CtlField, NEW l, ctl' = [ctl EXCEPT !.pc = l]
    PROVE  /\ DOMAIN ctl' = CtlField /\ ctl'.pc = l /\ ctl'.next = ctl.next
           /\ ctl'.sequence = ctl.sequence /\ ctl'.poisoned = ctl.poisoned /\ ctl'.todo = ctl.todo
           /\ ctl'.attempted = ctl.attempted /\ ctl'.uncertain = ctl.uncertain
           /\ ctl'.outcome = ctl.outcome
  BY ZenonT(30) DEF CtlField

LEMMA GoesMoves ==
    ASSUME CtlInv, NEW l \in {"failing", "loop"}, Goes(l), ctl.pc \notin {"await", "failing"}
    PROVE  CtlInv' /\ (Succeeds' => Succeeds)
<1>1. ctl' = [ctl EXCEPT !.pc = l] /\ UNCHANGED <<rec, tail, reply, evals, exitc>>
  BY ZenonT(30) DEF Goes, fileVars, jobVars
<1>2. DOMAIN ctl = CtlField
  BY ZenonT(30) DEF CtlInv, CtlShape
<1>3. /\ DOMAIN ctl' = CtlField /\ ctl'.pc = l /\ ctl'.next = ctl.next
      /\ ctl'.sequence = ctl.sequence /\ ctl'.poisoned = ctl.poisoned /\ ctl'.todo = ctl.todo
      /\ ctl'.attempted = ctl.attempted /\ ctl'.outcome = ctl.outcome
  BY <1>1, <1>2, PcSet, ZenonT(30)
<1>4. CtlInv'
  BY <1>1, <1>3, CtlMoves, ZenonT(30) DEF CtlInv, CtlShape, EvalInv
<1> QED
  BY <1>1, <1>3, <1>4, ZenonT(30) DEF Succeeds

LEMMA CallsField ==
    ASSUME NEW c, DOMAIN c = CtlField, NEW action, NEW s, NEW outcome, NEW next, c.sequence \in Nat,
           Calls(c, action, s, outcome, next)
    PROVE  /\ UNCHANGED <<rec, reply, evals, exitc>> /\ DOMAIN ctl' = CtlField
           /\ ctl'.sequence = c.sequence /\ ctl'.todo = c.todo /\ ctl'.attempted = c.attempted
           /\ ctl'.outcome = c.outcome /\ ctl'.uncertain = c.uncertain
           /\ \/ tail' = tail /\ ctl'.pc = "failing" /\ ctl'.poisoned /\ ctl'.next = c.next
              \/ /\ ctl'.pc = "await" /\ ctl'.next = next /\ ~c.poisoned /\ ctl'.poisoned = c.poisoned
                 /\ tail'.sequence = c.sequence + 1 /\ tail'.action = action
                 /\ tail'.stream = s /\ tail'.outcome = outcome
<1>0. UNCHANGED <<rec, reply, evals, exitc>>
  BY ZenonT(30) DEF Calls, jobVars
<1>1. CASE ctl' = [c EXCEPT !.poisoned = TRUE, !.pc = "failing"] /\ tail' = tail
  <2>1. PICK t : t = TRUE
    BY ZenonT(30)
  <2>2. ctl' = [c EXCEPT !.poisoned = t, !.pc = "failing"]
    BY <1>1, <2>1, ZenonT(30)
  <2>3. /\ DOMAIN ctl' = CtlField /\ ctl'.pc = "failing" /\ ctl'.poisoned = t /\ ctl'.next = c.next
        /\ ctl'.sequence = c.sequence /\ ctl'.todo = c.todo /\ ctl'.attempted = c.attempted
        /\ ctl'.outcome = c.outcome /\ ctl'.uncertain = c.uncertain
    BY <2>2, ZenonT(30) DEF CtlField
  <2> QED
    BY <1>0, <1>1, <2>1, <2>3, ZenonT(30)
<1>2. CASE /\ ctl' = [c EXCEPT !.pc = "await", !.next = next] /\ ~c.poisoned
           /\ tail' = Frame(c.sequence + 1, action, s, outcome)
  <2>1. /\ DOMAIN ctl' = CtlField /\ ctl'.pc = "await" /\ ctl'.poisoned = c.poisoned /\ ctl'.next = next
        /\ ctl'.sequence = c.sequence /\ ctl'.todo = c.todo /\ ctl'.attempted = c.attempted
        /\ ctl'.outcome = c.outcome /\ ctl'.uncertain = c.uncertain
    BY <1>2, ZenonT(30) DEF CtlField
  <2>2. /\ tail'.sequence = c.sequence + 1 /\ tail'.action = action
        /\ tail'.stream = s /\ tail'.outcome = outcome
    BY <1>2, ZenonT(30) DEF Frame
  <2> QED
    BY <1>0, <1>2, <2>1, <2>2, ZenonT(30)
<1> QED
  BY <1>1, <1>2, ZenonT(30) DEF Calls

\* A call of the host, from any place where the client is not waiting already.
LEMMA CallsMoves ==
    ASSUME CtlInv, NEW c, DOMAIN c = CtlField, NEW action, NEW s, NEW outcome, NEW next,
           Calls(c, action, s, outcome, next),
           ctl.pc # "await", ~ctl.poisoned, next # "eval",
           c.sequence = ctl.sequence, c.poisoned = ctl.poisoned, c.todo = ctl.todo,
           c.attempted = ctl.attempted, c.outcome = ctl.outcome, c.next = ctl.next,
           action = "after_eval" => outcome # "unused",
           next \in {"recheck", "guard"} => ctl.todo # {} /\ First(ctl.todo) \notin ctl.attempted,
           next = "guard" => action = "before_eval" /\ s = First(ctl.todo)
    PROVE  CtlInv' /\ (next # "done" /\ Succeeds' => Succeeds)
<1>0. /\ ctl.sequence \in Nat /\ rec.sequence \in Nat /\ reply \in Nat /\ tail = NoFrame
      /\ rec.sequence = ctl.sequence
  BY ZenonT(30) DEF CtlInv, CtlShape, NumberInv
<1>1. /\ UNCHANGED <<rec, reply, evals, exitc>> /\ DOMAIN ctl' = CtlField
      /\ ctl'.sequence = ctl.sequence /\ ctl'.todo = ctl.todo /\ ctl'.attempted = ctl.attempted
      /\ ctl'.outcome = ctl.outcome
      /\ \/ tail' = tail /\ ctl'.pc = "failing" /\ ctl'.poisoned /\ ctl'.next = ctl.next
         \/ /\ ctl'.pc = "await" /\ ctl'.next = next /\ ~ctl'.poisoned
            /\ tail'.sequence = ctl.sequence + 1 /\ tail'.action = action
            /\ tail'.stream = s /\ tail'.outcome = outcome
  BY <1>0, CallsField, SMTT(30)
<1>2. CtlShape'
  BY <1>1, ZenonT(30) DEF CtlInv, CtlShape
<1>3. NumberInv'
  BY <1>0, <1>1, ZenonT(30) DEF CtlInv, NumberInv
<1>4. ctl'.sequence # rec'.sequence => FALSE
  BY <1>0, <1>1, ZenonT(30)
<1>5. EvalInv'
  BY <1>1, <1>4, ZenonT(30) DEF CtlInv, EvalInv, Asks
<1>6. EvalIsJournaled'
  BY <1>1, ZenonT(30) DEF CtlInv, EvalIsJournaled
<1>7. next # "done" /\ Succeeds' => Succeeds
  BY <1>1, ZenonT(30) DEF Succeeds
<1> QED
  BY <1>2, <1>3, <1>5, <1>6, <1>7, ZenonT(30) DEF CtlInv

Controls == UNCHANGED <<phase, job, secret, svc, exitc, held, host, cons, live, pinned>>

\* The run breaks off where no EVAL has been announced.
BreaksOff == ctl.pc \notin {"await", "failing"} /\ Goes("failing")

\* Calls, waits and decisions that send no EVAL.
LEMMA QuietSteps ==
    ASSUME CtlInv, \/ Begin \/ Connect \/ Loop \/ Assess \/ NextCommand \/ Recheck \/ After \/ Settle
                   \/ Failing \/ BreaksOff
    PROVE  CtlInv' /\ (Succeeds' => Succeeds) /\ Controls
<1>0. Controls
  BY ZenonT(30) DEF Begin, Connect, Loop, Assess, NextCommand, Recheck, After, Settle, Failing, BreaksOff, Calls,
    Goes, jobVars, redisVars, Controls
<1>1. DOMAIN ctl = CtlField /\ ctl.todo \subseteq Stream /\ ctl.outcome # "unused"
  BY ZenonT(30) DEF CtlInv, CtlShape, EvalInv
<1>2. ctl.pc # "failing" => ~ctl.poisoned
  BY ZenonT(30) DEF CtlInv, NumberInv
<1>3. CASE Begin
  <2>1. ctl.pc = "begin" /\ Calls(ctl, "revalidate", "none", "none", "connect")
    BY <1>3, ZenonT(30) DEF Begin, At
  <2> QED
    BY <1>0, <1>1, <1>2, <2>1, CallsMoves, SMTT(30)
<1>4. CASE Connect
  <2>1. ctl.pc = "connect" /\ Goes("loop")
    BY <1>4, ZenonT(30) DEF Connect, At
  <2> QED
    BY <1>0, <2>1, GoesMoves, ZenonT(30)
<1>5. CASE Loop
  <2>1. ctl.pc = "loop" /\ Calls(ctl, "revalidate", "none", "none", "assess")
    BY <1>5, ZenonT(30) DEF Loop, At
  <2> QED
    BY <1>0, <1>1, <1>2, <2>1, CallsMoves, SMTT(30)
<1>6. CASE Assess
  <2>1. /\ ctl.pc = "assess" /\ UNCHANGED <<rec, tail, reply, evals, exitc>>
        /\ \/ ctl' = [ctl EXCEPT !.pc = "failing"]
           \/ ctl' = [ctl EXCEPT !.pc = "loop"]
           \/ ctl' = [ctl EXCEPT !.pc = "next", !.todo = Commands]
    BY <1>6, ZenonT(30) DEF Assess, At, jobVars, fileVars
  <2>2. Commands \subseteq Stream
    BY ZenonT(30) DEF Commands
  <2>3. /\ DOMAIN ctl' = CtlField /\ ctl'.pc \in {"failing", "loop", "next"} /\ ctl'.next = ctl.next
        /\ ctl'.sequence = ctl.sequence /\ ctl'.poisoned = ctl.poisoned
        /\ (ctl'.todo = ctl.todo \/ ctl'.todo = Commands)
        /\ ctl'.attempted = ctl.attempted /\ ctl'.outcome = ctl.outcome
    <3>1. CASE ctl' = [ctl EXCEPT !.pc = "failing"]
      BY <1>1, <3>1, ZenonT(30) DEF CtlField
    <3>2. CASE ctl' = [ctl EXCEPT !.pc = "loop"]
      BY <1>1, <3>2, ZenonT(30) DEF CtlField
    <3>3. CASE ctl' = [ctl EXCEPT !.pc = "next", !.todo = Commands]
      BY <1>1, <3>3, ZenonT(30) DEF CtlField
    <3> QED
      BY <2>1, <3>1, <3>2, <3>3, ZenonT(30)
  <2>4. CtlInv'
    BY <1>1, <2>1, <2>2, <2>3, CtlMoves, ZenonT(30)
  <2> QED
    BY <1>0, <2>1, <2>3, <2>4, ZenonT(30) DEF Succeeds
<1>7. CASE NextCommand
  <2>1. ctl.pc = "next"
    BY <1>7, ZenonT(30) DEF NextCommand, At
  <2>2. CASE Goes("failing")
    BY <1>0, <2>1, <2>2, GoesMoves, ZenonT(30)
  <2>3. CASE Calls(ctl, "revalidate", "none", "none", "final")
    BY <1>0, <1>1, <1>2, <2>1, <2>3, CallsMoves, SMTT(30)
  <2>4. CASE /\ Calls(ctl, "revalidate", "none", "none", "recheck")
             /\ ctl.todo # {} /\ First(ctl.todo) \notin ctl.attempted
    BY <1>0, <1>1, <1>2, <2>1, <2>4, CallsMoves, SMTT(30)
  <2> QED
    BY <1>7, <2>2, <2>3, <2>4, ZenonT(30) DEF NextCommand
<1>8. CASE Recheck
  <2>1. ctl.pc = "recheck" /\ ctl.todo # {} /\ First(ctl.todo) \notin ctl.attempted
    BY <1>8, ZenonT(30) DEF Recheck, At, CtlInv, EvalInv
  <2>2. CASE Goes("failing") \/ Goes("loop")
    BY <1>0, <2>1, <2>2, GoesMoves, ZenonT(30)
  <2>3. CASE /\ ctl' = [ctl EXCEPT !.pc = "next", !.todo = ctl.todo \ {First(ctl.todo)}]
             /\ UNCHANGED <<jobVars, redisVars, pinned, fileVars, evals>>
    <3>1. UNCHANGED <<rec, tail, reply, evals, exitc>>
      BY <2>3, ZenonT(30) DEF jobVars, fileVars
    <3>2. /\ DOMAIN ctl' = CtlField /\ ctl'.pc = "next" /\ ctl'.next = ctl.next
          /\ ctl'.sequence = ctl.sequence /\ ctl'.poisoned = ctl.poisoned
          /\ ctl'.todo \subseteq ctl.todo
          /\ ctl'.attempted = ctl.attempted /\ ctl'.outcome = ctl.outcome
      BY <1>1, <2>3, ZenonT(30) DEF CtlField
    <3>3. CtlInv'
      BY <1>1, <2>1, <3>1, <3>2, CtlMoves, ZenonT(30)
    <3> QED
      BY <1>0, <3>1, <3>2, <3>3, ZenonT(30) DEF Succeeds
  <2>4. CASE Calls(ctl, "before_eval", First(ctl.todo), "none", "guard")
    BY <1>0, <1>1, <1>2, <2>1, <2>4, CallsMoves, SMTT(30)
  <2> QED
    BY <1>8, <2>2, <2>3, <2>4, ZenonT(30) DEF Recheck
<1>9. CASE After
  <2>1. ctl.pc = "after" /\ Calls(ctl, "after_eval", ctl.uncertain, ctl.outcome, "settled")
    BY <1>9, ZenonT(30) DEF After, At
  <2> QED
    BY <1>0, <1>1, <1>2, <2>1, CallsMoves, SMTT(30)
<1>10. CASE Settle
  <2>1. /\ ctl.pc = "settled" /\ UNCHANGED <<rec, tail, reply, evals, exitc>>
        /\ ctl' = [ctl EXCEPT !.pc = "next", !.todo = ctl.todo \ {ctl.uncertain}, !.uncertain = "none"]
    BY <1>10, ZenonT(30) DEF Settle, At, jobVars, fileVars
  <2>2. /\ DOMAIN ctl' = CtlField /\ ctl'.pc = "next" /\ ctl'.next = ctl.next
        /\ ctl'.sequence = ctl.sequence /\ ctl'.poisoned = ctl.poisoned
        /\ ctl'.todo \subseteq ctl.todo
        /\ ctl'.attempted = ctl.attempted /\ ctl'.outcome = ctl.outcome
    BY <1>1, <2>1, ZenonT(30) DEF CtlField
  <2>3. CtlInv'
    BY <1>1, <2>1, <2>2, CtlMoves, ZenonT(30)
  <2> QED
    BY <1>0, <2>1, <2>2, <2>3, ZenonT(30) DEF Succeeds
<1>11. CASE Failing
  <2>1. PICK c : c = [ctl EXCEPT !.uncertain = "none"]
    BY ZenonT(30)
  <2>2. /\ ctl.pc = "failing" /\ ~ctl.poisoned
        /\ Calls(c, "after_eval", ctl.uncertain, "unknown", "failing")
    BY <1>11, <2>1, ZenonT(30) DEF Failing, At
  <2>3. /\ DOMAIN c = CtlField /\ c.sequence = ctl.sequence /\ c.poisoned = ctl.poisoned
        /\ c.todo = ctl.todo /\ c.attempted = ctl.attempted /\ c.outcome = ctl.outcome
        /\ c.next = ctl.next
    BY <1>1, <2>1, ZenonT(30) DEF CtlField
  <2> QED
    BY <1>0, <2>2, <2>3, CallsMoves, SMTT(30)
<1>12. CASE BreaksOff
  BY <1>0, <1>12, GoesMoves, ZenonT(30) DEF BreaksOff
<1> QED
  BY <1>3, <1>4, <1>5, <1>6, <1>7, <1>8, <1>9, <1>10, <1>11, <1>12, ZenonT(30)

LEMMA AwaitSteps ==
    ASSUME CtlInv, Answered \/ TimesOut
    PROVE  CtlInv' /\ (Succeeds' => Succeeds) /\ Controls
<1>0. Controls /\ UNCHANGED <<rec, tail, reply, evals>> /\ ctl.pc = "await"
  BY ZenonT(30) DEF Answered, TimesOut, At, jobVars, redisVars, fileVars, Controls
<1>1. /\ DOMAIN ctl = CtlField /\ ctl.sequence \in Nat /\ rec.sequence \in Nat /\ reply \in Nat
      /\ ~ctl.poisoned
  BY <1>0, ZenonT(30) DEF CtlInv, CtlShape, NumberInv
<1>2. CASE TimesOut
  <2>1. PICK t : t = TRUE
    BY ZenonT(30)
  <2>2. ctl' = [ctl EXCEPT !.pc = "failing", !.poisoned = t]
    BY <1>2, <2>1, ZenonT(30) DEF TimesOut
  <2>3. /\ DOMAIN ctl' = CtlField /\ ctl'.pc = "failing" /\ ctl'.next = ctl.next /\ ctl'.poisoned = t
        /\ ctl'.sequence = ctl.sequence /\ ctl'.todo = ctl.todo
        /\ ctl'.attempted = ctl.attempted /\ ctl'.outcome = ctl.outcome
    BY <1>1, <2>2, ZenonT(30) DEF CtlField
  <2>4. CtlShape'
    BY <1>0, <2>3, ZenonT(30) DEF CtlInv, CtlShape
  <2>5. NumberInv'
    BY <1>0, <2>1, <2>3, ZenonT(30) DEF CtlInv, NumberInv
  <2>6. EvalInv' /\ EvalIsJournaled'
    BY <1>0, <2>3, ZenonT(30) DEF CtlInv, EvalInv, EvalIsJournaled, Asks
  <2>7. Succeeds' => Succeeds
    BY <1>0, <2>3, ZenonT(30) DEF Succeeds, Controls
  <2> QED
    BY <1>0, <2>4, <2>5, <2>6, <2>7, ZenonT(30) DEF CtlInv
<1>3. CASE Answered
  <2>1. ctl' = [ctl EXCEPT !.pc = ctl.next, !.sequence = ctl.sequence + 1] /\ reply = ctl.sequence + 1
    BY <1>3, ZenonT(30) DEF Answered
  <2>2. /\ DOMAIN ctl' = CtlField /\ ctl'.pc = ctl.next /\ ctl'.next = ctl.next
        /\ ctl'.poisoned = ctl.poisoned
        /\ ctl'.sequence = ctl.sequence + 1 /\ ctl'.todo = ctl.todo
        /\ ctl'.attempted = ctl.attempted /\ ctl'.outcome = ctl.outcome
    BY <1>1, <2>1, ZenonT(30) DEF CtlField
  <2>3. reply <= rec.sequence /\ (rec.sequence = ctl.sequence \/ rec.sequence = ctl.sequence + 1)
    BY ZenonT(30) DEF CtlInv, NumberInv
  <2>4. rec.sequence = ctl.sequence + 1 /\ rec.sequence # ctl.sequence
    BY <1>1, <2>1, <2>3, SMTT(30)
  <2>5. tail = NoFrame
    BY <2>4, ZenonT(30) DEF CtlInv, NumberInv
  <2>6. CtlShape'
    <3>1. ctl'.sequence \in Nat
      BY <1>1, <2>2, SMTT(30)
    <3> QED
      BY <1>0, <2>2, <3>1, ZenonT(30) DEF CtlInv, CtlShape
  <2>7. NumberInv'
    <3>1. ctl'.pc # "failing" \/ ctl'.pc = "failing"
      BY ZenonT(30)
    <3> QED
      BY <1>0, <1>1, <2>2, <2>4, <2>5, ZenonT(30) DEF CtlInv, NumberInv
  <2>8. EvalInv'
    BY <1>0, <2>2, <2>4, <2>5, ZenonT(30) DEF CtlInv, EvalInv, Asks, Marked
  <2>9. EvalIsJournaled'
    BY <1>0, ZenonT(30) DEF CtlInv, EvalIsJournaled
  <2>10. Succeeds' => Succeeds
    BY <1>0, <2>2, ZenonT(30) DEF Succeeds, Controls
  <2> QED
    BY <1>0, <2>6, <2>7, <2>8, <2>9, <2>10, ZenonT(30) DEF CtlInv
<1> QED
  BY <1>2, <1>3, ZenonT(30)

\* An announced stream is marked, whether its EVAL follows or the run breaks off.
LEMMA GuardSteps ==
    ASSUME CtlInv, ctl.pc = "guard", NEW l \in {"eval", "failing"}, MarksAttempt(l)
    PROVE  CtlInv' /\ (Succeeds' => Succeeds) /\ Controls
<1> DEFINE s == First(ctl.todo)
<1>0. Controls /\ UNCHANGED <<rec, tail, reply, evals>> /\ ctl.pc = "guard"
  BY ZenonT(30) DEF MarksAttempt, jobVars, redisVars, fileVars, Controls
<1>1. s \in Stream /\ s \notin ctl.attempted /\ Marked(s)
  <2>1. ctl.todo \subseteq Stream /\ ctl.todo # {} /\ s \notin ctl.attempted /\ Marked(s)
    BY <1>0, ZenonT(30) DEF CtlInv, CtlShape, EvalInv
  <2> QED
    BY <2>1, FirstIsOne, ZenonT(30)
<1>2. evals[s] = 0
  BY <1>1, ZenonT(30) DEF CtlInv, EvalInv
<1>3. DOMAIN ctl = CtlField /\ ~ctl.poisoned /\ tail = NoFrame /\ rec.sequence = ctl.sequence
  BY <1>0, ZenonT(30) DEF CtlInv, CtlShape, NumberInv
<1>4. ctl' = [ctl EXCEPT !.pc = l, !.attempted = ctl.attempted \cup {s}, !.uncertain = s]
  BY ZenonT(30) DEF MarksAttempt
<1>5. /\ DOMAIN ctl' = CtlField /\ ctl'.pc = l /\ ctl'.next = ctl.next
      /\ ctl'.sequence = ctl.sequence /\ ctl'.poisoned = ctl.poisoned /\ ctl'.todo = ctl.todo
      /\ ctl'.attempted = ctl.attempted \cup {s} /\ ctl'.uncertain = s /\ ctl'.outcome = ctl.outcome
  <2> HIDE DEF s
  <2> QED
    BY <1>3, <1>4, ZenonT(30) DEF CtlField
<1> HIDE DEF s
<1>6. l # "await" /\ l # "recheck" /\ l # "guard" /\ l # "done"
  BY ZenonT(30)
<1>7. CtlShape'
  BY <1>0, <1>5, ZenonT(30) DEF CtlInv, CtlShape
<1>8. NumberInv'
  BY <1>0, <1>3, <1>5, <1>6, ZenonT(30) DEF CtlInv, NumberInv
<1>9. EvalInv'
  BY <1>0, <1>1, <1>2, <1>5, <1>6, ZenonT(30) DEF CtlInv, EvalInv, Asks, Marked
<1>10. EvalIsJournaled'
  BY <1>0, ZenonT(30) DEF CtlInv, EvalIsJournaled
<1>11. Succeeds' => Succeeds
  BY <1>0, <1>5, <1>6, ZenonT(30) DEF Succeeds, Controls
<1> QED
  BY <1>0, <1>7, <1>8, <1>9, <1>10, <1>11, ZenonT(30) DEF CtlInv

\* The script takes consumers away and brings none.
LEMMA EvalSteps ==
    ASSUME CtlInv, DOMAIN cons = Consumer, Eval \/ EvalAnswerLost
    PROVE  /\ CtlInv' /\ (Succeeds' => Succeeds)
           /\ DOMAIN cons' = Consumer /\ (AllGone => AllGone')
           /\ UNCHANGED <<phase, job, secret, svc, exitc, held, host, live, pinned>>
<1> DEFINE s == ctl.uncertain
<1>0. /\ UNCHANGED <<phase, job, secret, svc, exitc, held, host, live, pinned, rec, tail, reply>>
      /\ ctl.pc = "eval" /\ evals' = [evals EXCEPT ![s] = evals[s] + 1]
      /\ cons' = IF LuaRefuses(s) THEN cons
                 ELSE [c \in Consumer |-> IF c \in Present(s) THEN "absent" ELSE cons[c]]
  BY ZenonT(30) DEF Eval, EvalAnswerLost, At, jobVars, fileVars
<1>1. s \in Stream /\ s \in ctl.attempted /\ evals[s] = 0 /\ Marked(s)
  BY <1>0, ZenonT(30) DEF CtlInv, EvalInv
<1>2. /\ DOMAIN ctl = CtlField /\ ~ctl.poisoned /\ tail = NoFrame /\ rec.sequence = ctl.sequence
      /\ evals \in [Stream -> Nat]
  BY <1>0, ZenonT(30) DEF CtlInv, CtlShape, NumberInv
<1>3. DOMAIN cons' = Consumer /\ (AllGone => AllGone')
  <2>1. CASE cons' = cons
    BY <1>0, <2>1, ZenonT(30) DEF AllGone
  <2>2. CASE cons' = [c \in Consumer |-> IF c \in Present(s) THEN "absent" ELSE cons[c]]
    <3>1. DOMAIN cons' = Consumer /\ \A c \in Consumer : cons[c] = "absent" => cons'[c] = "absent"
      BY <2>2, ZenonT(30)
    <3> QED
      BY <1>0, <3>1, ZenonT(30) DEF AllGone
  <2> QED
    BY <1>0, <2>1, <2>2, ZenonT(30)
<1>4. PICK l \in {"after", "failing"}, o \in {ctl.outcome, "already_absent", "retired"} :
        /\ DOMAIN ctl' = CtlField /\ ctl'.pc = l /\ ctl'.next = ctl.next
        /\ ctl'.sequence = ctl.sequence /\ ctl'.poisoned = ctl.poisoned /\ ctl'.todo = ctl.todo
        /\ ctl'.attempted = ctl.attempted /\ ctl'.outcome = o
  <2>1. CASE Eval
    <3>1. PICK p \in {"after", "failing"}, q \in {ctl.outcome, "already_absent", "retired"} :
            ctl' = [ctl EXCEPT !.pc = p, !.outcome = q]
      BY <2>1, ZenonT(30) DEF Eval
    <3>2. /\ DOMAIN ctl' = CtlField /\ ctl'.pc = p /\ ctl'.next = ctl.next
          /\ ctl'.sequence = ctl.sequence /\ ctl'.poisoned = ctl.poisoned /\ ctl'.todo = ctl.todo
          /\ ctl'.attempted = ctl.attempted /\ ctl'.outcome = q
      BY <1>2, <3>1, ZenonT(30) DEF CtlField
    <3> QED
      BY <3>1, <3>2, ZenonT(30)
  <2>2. CASE EvalAnswerLost
    <3>1. ctl' = [ctl EXCEPT !.pc = "failing"]
      BY <2>2, ZenonT(30) DEF EvalAnswerLost
    <3> QED
      BY <1>2, <3>1, PcSet, ZenonT(30)
  <2> QED
    BY <2>1, <2>2, ZenonT(30)
<1>5. /\ DOMAIN ctl' = CtlField /\ ctl'.pc = l /\ ctl'.next = ctl.next
      /\ ctl'.sequence = ctl.sequence /\ ctl'.poisoned = ctl.poisoned /\ ctl'.todo = ctl.todo
      /\ ctl'.attempted = ctl.attempted /\ ctl'.outcome = o
  BY <1>4, ZenonT(30)
<1>6. l # "await" /\ l # "recheck" /\ l # "guard" /\ l # "done" /\ l # "eval"
  BY <1>4, ZenonT(30)
<1>7. /\ evals' \in [Stream -> Nat] /\ evals'[s] = 1
      /\ \A x \in Stream : x # s => evals'[x] = evals[x]
  <2> HIDE DEF s
  <2> QED
    BY <1>0, <1>1, <1>2, SMTT(30)
<1>8. CtlShape'
  BY <1>0, <1>5, <1>7, ZenonT(30) DEF CtlInv, CtlShape
<1>9. NumberInv'
  BY <1>0, <1>2, <1>5, <1>6, ZenonT(30) DEF CtlInv, NumberInv
<1>10. o # "unused"
  BY <1>4, ZenonT(30) DEF CtlInv, EvalInv
<1>11. EvalInv'
  <2>1. \A x \in Stream : evals'[x] # 0 => x \in ctl'.attempted
    BY <1>1, <1>5, <1>7, ZenonT(30) DEF CtlInv, EvalInv
  <2> QED
    BY <1>0, <1>5, <1>6, <1>10, <2>1, ZenonT(30) DEF CtlInv, EvalInv, Asks
<1>12. EvalIsJournaled'
  <2>1. SUFFICES ASSUME NEW x \in Stream
                 PROVE  evals'[x] <= 1 /\ (evals'[x] = 1 => rec.streams[x] # "unused")
    BY <1>0, ZenonT(30) DEF EvalIsJournaled
  <2>2. CASE x = s
    <3>1. evals'[x] = 1 /\ rec.streams[x] # "unused"
      BY <1>1, <1>7, <2>2, ZenonT(30) DEF Marked
    <3> QED
      BY <3>1, SMTT(30)
  <2>3. CASE x # s
    BY <1>7, <2>3, ZenonT(30) DEF CtlInv, EvalIsJournaled
  <2> QED
    BY <2>2, <2>3, ZenonT(30)
<1>13. Succeeds' => Succeeds
  BY <1>0, <1>5, <1>6, ZenonT(30) DEF Succeeds
<1> QED
  BY <1>0, <1>3, <1>8, <1>9, <1>11, <1>12, <1>13, ZenonT(30) DEF CtlInv

\* Success is reported only after the last look at leases and consumers.
LEMMA FinalSteps ==
    ASSUME ReconcileInv, Final  PROVE CtlInv' /\ GoneInv' /\ Controls
<1>0. Controls /\ ctl.pc = "final" /\ Running /\ DOMAIN ctl = CtlField /\ ~ctl.poisoned
  BY ZenonT(30) DEF Final, At, Goes, Calls, jobVars, redisVars, Controls, ReconcileInv, CtlInv, CtlShape,
    NumberInv
<1>1. CASE Goes("failing")
  <2>1. CtlInv' /\ (Succeeds' => Succeeds)
    BY <1>0, <1>1, GoesMoves, ZenonT(30) DEF ReconcileInv
  <2> QED
    BY <1>0, <2>1, ConsumersKept, ZenonT(30) DEF Controls, ReconcileInv
<1>2. CASE /\ LeaseWaits = {} /\ \A s \in Stream : InventoryOutcome(s) = "already_absent"
           /\ \E o : Calls(ctl, "finished", "none", o, "done")
  <2>1. CtlInv'
    BY <1>0, <1>2, CallsMoves, ZenonT(30) DEF ReconcileInv
  <2>2. live \subseteq pinned
    BY <1>0, RunningIsPinned, ZenonT(30) DEF ReconcileInv
  <2>3. AllGone
    BY <1>2, <2>2, AbsentEverywhere, ZenonT(30) DEF AllGone, LeaseWaits
  <2>4. GoneInv'
    BY <1>0, <2>3, ZenonT(30) DEF ReconcileInv, GoneInv, AllGone, Controls
  <2> QED
    BY <1>0, <2>1, <2>4, ZenonT(30)
<1> QED
  BY <1>1, <1>2, ZenonT(30) DEF Final

LEMMA ExitSteps ==
    ASSUME ReconcileInv, ExitsFailed \/ ExitsDone  PROVE ReconcileInv'
<1>1. "run" \in Stage /\ "current" \in Stage /\ "run" # "current"
  BY ZenonT(30) DEF Stage
<1>2. PICK how \in {"failed", "ok"} : Exits(how) /\ Running /\ (how = "ok" => ctl.pc = "done")
  BY ZenonT(30) DEF ExitsFailed, ExitsDone, At
<1>3. /\ UNCHANGED <<phase, job, secret, held, host, cons, live, pinned, rec, tail, reply, ctl, evals>>
      /\ svc["run"] \in {"up", "stopping"} /\ exitc["run"] = "none"
      /\ exitc' = [exitc EXCEPT !["run"] = how]
      /\ svc' = [svc EXCEPT !["run"] = IF svc["run"] = "stopping" THEN "gone" ELSE svc["run"]]
  BY <1>2, ZenonT(30) DEF Exits, Running, redisVars, fileVars
<1>4. /\ svc' \in [Stage -> {"none", "requested", "up", "stopping", "gone"}]
      /\ svc'["run"] \in {"up", "gone"} /\ (svc["run"] = "stopping" => svc'["run"] = "gone")
      /\ \A x \in Stage : x # "run" => svc'[x] = svc[x] /\ exitc'[x] = exitc[x]
      /\ DOMAIN exitc' = Stage /\ exitc'["run"] = how
  <2>1. JobShape
    BY ZenonT(30) DEF ReconcileInv, JobInv
  <2> QED
    BY <1>1, <1>3, <2>1, ZenonT(30) DEF JobShape
<1>5. JobInv'
  BY <1>1, <1>3, <1>4, Ends, ZenonT(30) DEF ReconcileInv
<1>6. Succeeds' => Succeeds
  BY <1>2, <1>3, <1>4, ZenonT(30) DEF Succeeds
<1>7. GoneInv'
  <2>1. (AllGone => AllGone') /\ exitc'["current"] = exitc["current"]
    BY <1>1, <1>3, <1>4, ZenonT(30) DEF AllGone
  <2> QED
    BY <1>3, <1>6, <2>1, GoneKept, ZenonT(30) DEF ReconcileInv, GoneInv
<1>8. CtlInv'
  BY <1>3, CtlKept, ZenonT(30) DEF ReconcileInv
<1> QED
  BY <1>5, <1>7, <1>8, ZenonT(30) DEF ReconcileInv

LEMMA ControllerSteps ==
    ASSUME ReconcileInv, Controller \/ Breaks \/ EvalAnswerLost  PROVE ReconcileInv'
<1>1. CASE CtlInv' /\ (Succeeds' => Succeeds) /\ Controls
  BY <1>1, JobsKept, ConsumersKept, ZenonT(30) DEF Controls, ReconcileInv
<1>2. CASE Eval \/ EvalAnswerLost
  <2>1. CtlInv /\ GoneInv /\ JobInv /\ DOMAIN cons = Consumer
    BY ZenonT(30) DEF ReconcileInv, GoneInv
  <2>2. /\ CtlInv' /\ (Succeeds' => Succeeds)
        /\ DOMAIN cons' = Consumer /\ (AllGone => AllGone')
        /\ UNCHANGED <<phase, job, secret, svc, exitc, held, host, live, pinned>>
    BY <1>2, <2>1, EvalSteps, ZenonT(30)
  <2>3. JobInv'
    BY <2>1, <2>2, JobsKept, ZenonT(30)
  <2>4. GoneInv'
    BY <2>1, <2>2, GoneKept, ZenonT(30)
  <2> QED
    BY <2>2, <2>3, <2>4, ZenonT(30) DEF ReconcileInv
<1>3. CASE Final
  BY <1>3, FinalSteps, JobsKept, ZenonT(30) DEF Controls, ReconcileInv
<1>4. CASE ExitsFailed \/ ExitsDone
  BY <1>4, ExitSteps, ZenonT(30)
<1>5. CASE Answered \/ TimesOut
  BY <1>1, <1>5, AwaitSteps, ZenonT(30) DEF ReconcileInv
<1>6. CASE ctl.pc = "guard" /\ \E l \in {"eval", "failing"} : MarksAttempt(l)
  BY <1>1, <1>6, GuardSteps, ZenonT(30) DEF ReconcileInv
<1>7. CASE \/ Begin \/ Connect \/ Loop \/ Assess \/ NextCommand \/ Recheck \/ After \/ Settle
           \/ Failing \/ BreaksOff
  BY <1>1, <1>7, QuietSteps, ZenonT(30) DEF ReconcileInv
<1>8. CASE Guard
  <2>1. PICK l \in {"eval", "failing"} : MarksAttempt(l)
    BY <1>8, ZenonT(30) DEF Guard
  <2> QED
    BY <1>6, <1>8, <2>1, ZenonT(30) DEF Guard, At
<1>9. CASE Breaks
  <2>1. BreaksOff \/ (ctl.pc = "guard" /\ MarksAttempt("failing"))
    BY <1>9, ZenonT(30) DEF Breaks, BreaksOff, At
  <2> QED
    BY <1>6, <1>7, <2>1, ZenonT(30)
<1> QED
  BY <1>2, <1>3, <1>4, <1>5, <1>7, <1>8, <1>9, ZenonT(30) DEF Controller

LEMMA RecordSteps ==
    ASSUME CtlInv, WriteRecord \/ AttachRecord  PROVE CtlInv'
<1>0. UNCHANGED <<tail, reply, ctl, evals>> /\ DOMAIN rec = RecField
  BY ZenonT(30) DEF WriteRecord, AttachRecord, CtlInv, CtlShape
<1>1. /\ DOMAIN rec' = RecField /\ rec'.sequence = rec.sequence /\ rec'.streams = rec.streams
      /\ rec'.exists
  <2>1. CASE WriteRecord
    <3>1. /\ rec.sequence = 0 /\ rec.streams = [s \in Stream |-> "unused"]
      BY <2>1, ZenonT(30) DEF WriteRecord, CtlInv, NumberInv
    <3>2. PICK t : t = TRUE
      BY ZenonT(30)
    <3>3. PICK f : f = FALSE
      BY ZenonT(30)
    <3>4. PICK u : u = [s \in Stream |-> "unused"]
      BY ZenonT(30)
    <3>5. rec' = [[exists |-> f, attached |-> f, sequence |-> 0, streams |-> u, last |-> "none"]
                  EXCEPT !.exists = t]
      BY <2>1, <3>2, <3>3, <3>4, ZenonT(30) DEF WriteRecord, NoRecord
    <3>6. DOMAIN rec' = RecField /\ rec'.sequence = 0 /\ rec'.streams = u /\ rec'.exists = t
      BY <3>5, ZenonT(30) DEF RecField
    <3> QED
      BY <3>1, <3>2, <3>4, <3>6, ZenonT(30)
  <2>2. CASE AttachRecord
    <3>1. PICK t : t = TRUE
      BY ZenonT(30)
    <3>2. rec' = [rec EXCEPT !.attached = t]
      BY <2>2, <3>1, ZenonT(30) DEF AttachRecord
    <3>3. rec.exists
      BY <2>2, ZenonT(30) DEF AttachRecord
    <3>4. /\ DOMAIN rec' = RecField /\ rec'.sequence = rec.sequence /\ rec'.streams = rec.streams
          /\ rec'.exists = rec.exists
      BY <1>0, <3>2, ZenonT(30) DEF RecField
    <3> QED
      BY <3>3, <3>4, ZenonT(30)
  <2> QED
    BY <2>1, <2>2, ZenonT(30)
<1> QED
  BY <1>0, <1>1, ZenonT(30) DEF CtlInv, CtlShape, NumberInv, EvalInv, EvalIsJournaled, Marked, Asks

\* The record goes one ahead of the controller, and no stream it has marked
\* becomes unused again.
LEMMA ConsumeSteps ==
    ASSUME CtlInv, Consume  PROVE CtlInv'
<1>0. /\ UNCHANGED <<reply, ctl, evals>> /\ tail # NoFrame /\ tail' = NoFrame /\ rec.attached
      /\ rec' = Advanced(tail)
  BY ZenonT(30) DEF Consume
<1>1. /\ DOMAIN rec = RecField /\ DOMAIN rec.streams = Stream
      /\ ctl.sequence \in Nat /\ rec.sequence \in Nat /\ reply \in Nat
      /\ tail.sequence = ctl.sequence + 1 /\ rec.sequence = ctl.sequence /\ reply <= rec.sequence
      /\ (tail.action = "after_eval" => tail.outcome # "unused") /\ rec.exists
  BY <1>0, ZenonT(30) DEF CtlInv, CtlShape, NumberInv, EvalInv
<1>2. /\ DOMAIN rec' = RecField /\ rec'.sequence = ctl.sequence + 1 /\ rec'.exists = rec.exists
      /\ rec'.streams = StreamsAfter(tail)
  <2>1. PICK a, b, c : a = tail.sequence /\ b = tail.action /\ c = StreamsAfter(tail)
    BY ZenonT(30)
  <2>2. rec' = [rec EXCEPT !.sequence = a, !.last = b, !.streams = c]
    BY <1>0, <2>1, ZenonT(30) DEF Advanced
  <2>3. DOMAIN rec = RecField
    BY <1>1, ZenonT(30)
  <2>4. DOMAIN rec' = RecField /\ rec'.sequence = a /\ rec'.exists = rec.exists /\ rec'.streams = c
    BY <2>2, <2>3, ZenonT(30) DEF RecField
  <2> QED
    BY <1>1, <2>1, <2>4, ZenonT(30)
<1>3. /\ DOMAIN rec'.streams = Stream
      /\ \A s \in Stream : rec.streams[s] # "unused" => rec'.streams[s] # "unused"
      /\ \A s \in Stream : tail.action = "before_eval" /\ tail.stream = s => rec'.streams[s] # "unused"
  <2>1. PICK c, x, o : c = rec.streams /\ x = tail.stream /\ o = tail.outcome
    BY ZenonT(30)
  <2>2. CASE tail.action = "before_eval"
    <3>1. rec'.streams = [c EXCEPT ![x] = "consumed"] /\ DOMAIN c = Stream
      BY <1>1, <1>2, <2>1, <2>2, ZenonT(30) DEF StreamsAfter
    <3>2. DOMAIN rec'.streams = Stream /\ \A s \in Stream : rec'.streams[s] = IF s = x THEN "consumed" ELSE c[s]
      BY <3>1, ZenonT(30)
    <3> QED
      BY <2>1, <3>2, ZenonT(30)
  <2>3. CASE tail.action = "after_eval"
    <3>1. rec'.streams = [c EXCEPT ![x] = o] /\ DOMAIN c = Stream
      BY <1>1, <1>2, <2>1, <2>3, ZenonT(30) DEF StreamsAfter
    <3>2. DOMAIN rec'.streams = Stream /\ \A s \in Stream : rec'.streams[s] = IF s = x THEN o ELSE c[s]
      BY <3>1, ZenonT(30)
    <3> QED
      BY <1>1, <2>1, <2>3, <3>2, ZenonT(30)
  <2>4. CASE tail.action \notin {"before_eval", "after_eval"}
    BY <1>1, <1>2, <2>4, ZenonT(30) DEF StreamsAfter
  <2> QED
    BY <2>2, <2>3, <2>4, ZenonT(30)
<1>4. rec'.sequence \in Nat /\ reply <= rec'.sequence /\ rec'.sequence # ctl.sequence
  BY <1>1, <1>2, SMTT(30)
<1>5. ctl.pc = "await" \/ (ctl.pc = "failing" /\ ctl.poisoned)
  BY <1>0, ZenonT(30) DEF CtlInv, NumberInv
<1>6. CtlShape'
  BY <1>0, <1>2, <1>3, <1>4, ZenonT(30) DEF CtlInv, CtlShape
<1>7. NumberInv'
  BY <1>0, <1>1, <1>2, <1>4, <1>5, ZenonT(30) DEF CtlInv, NumberInv
<1>8. EvalInv'
  <2>1. ASSUME Asks("guard")  PROVE Marked(First(ctl.todo))'
    <3>1. ctl.todo # {} /\ ctl.todo \subseteq Stream /\ tail.action = "before_eval"
          /\ tail.stream = First(ctl.todo)
      BY <1>0, <2>1, ZenonT(30) DEF CtlInv, CtlShape, EvalInv
    <3>2. First(ctl.todo) \in Stream
      BY <3>1, FirstIsOne, ZenonT(30)
    <3> QED
      BY <1>0, <1>3, <3>1, <3>2, ZenonT(30) DEF Marked
  <2>2. tail'.action # "after_eval"
    BY <1>0, ZenonT(30) DEF NoFrame
  <2>3. ctl.pc # "guard" /\ ctl.pc # "eval" /\ ctl.pc # "recheck"
    BY <1>5, ZenonT(30)
  <2> QED
    BY <1>0, <2>1, <2>2, <2>3, ZenonT(30) DEF CtlInv, EvalInv, Asks
<1>9. EvalIsJournaled'
  BY <1>0, <1>3, ZenonT(30) DEF CtlInv, EvalIsJournaled
<1> QED
  BY <1>6, <1>7, <1>8, <1>9, ZenonT(30) DEF CtlInv

LEMMA ReplySteps ==
    ASSUME CtlInv, WriteReply  PROVE CtlInv'
<1>0. UNCHANGED <<rec, tail, ctl, evals>> /\ reply' = rec.sequence
  BY ZenonT(30) DEF WriteReply
<1>1. reply' \in Nat /\ reply' <= rec'.sequence
  <2>1. rec.sequence \in Nat
    BY ZenonT(30) DEF CtlInv, CtlShape
  <2> QED
    BY <1>0, <2>1, SMTT(30)
<1> QED
  BY <1>0, <1>1, ZenonT(30) DEF CtlInv, CtlShape, NumberInv, EvalInv, EvalIsJournaled, Marked, Asks

LEMMA RecordKeepsRest ==
    ASSUME ReconcileInv, JobInv', CtlInv', UNCHANGED <<cons, live, pinned, exitc, ctl>>
    PROVE  ReconcileInv'
<1>1. Succeeds' => Succeeds
  BY ZenonT(30) DEF Succeeds
<1> QED
  BY <1>1, ConsumersKept, ZenonT(30) DEF ReconcileInv

LEMMA HostSteps ==
    ASSUME ReconcileInv, Host  PROVE ReconcileInv'
<1>0. JobInv /\ CtlInv
  BY ZenonT(30) DEF ReconcileInv
<1>1. CASE WriteRecord \/ AttachRecord \/ AttachFails \/ WriteReply \/ Consume
  <2>1. /\ UNCHANGED <<phase, job, secret, svc, exitc, held, cons, live, pinned, ctl>>
        /\ (host' = Idle \/ host' = Op("reply", "run"))
    BY <1>1, ZenonT(30) DEF WriteRecord, AttachRecord, AttachFails, WriteReply, Consume, redisVars
  <2>2. Applying
    <3>1. Applying \/ host = Op("attach", "run") \/ host = Op("reply", "run")
      BY <1>1, ZenonT(30) DEF WriteRecord, AttachRecord, AttachFails, WriteReply, Consume
    <3> QED
      BY <1>0, <3>1, Working, ZenonT(30)
  <2>3. host'.op \notin {"create", "secret"}
    BY <2>1, IdleOp, SMTT(30)
  <2>4. JobInv'
    BY <1>0, <2>1, <2>2, <2>3, HostMoves, ZenonT(30)
  <2>5. CtlInv'
    <3>1. CASE AttachFails
      <4>1. UNCHANGED <<rec, tail, reply, ctl, evals>>
        BY <3>1, ZenonT(30) DEF AttachFails, fileVars
      <4> QED
        BY <1>0, <4>1, CtlKept, ZenonT(30)
    <3> QED
      BY <1>0, <1>1, <3>1, RecordSteps, ConsumeSteps, ReplySteps, ZenonT(30)
  <2> QED
    BY <2>1, <2>4, <2>5, RecordKeepsRest, ZenonT(30)
<1>2. CASE ObserveRun \/ \E st \in Stage : ObserveCapture(st)
  <2>1. PICK st \in Stage, valid \in BOOLEAN :
          /\ (valid => exitc[st] = "ok") /\ Observe(st, valid)
          /\ UNCHANGED <<cons, live, pinned, rec, tail, reply, ctl, evals>>
    <3>1. CASE ObserveRun
      <4>1. "run" \in Stage
        BY ZenonT(30) DEF Stage
      <4>2. Observe("run", exitc["run"] = "ok" /\ Receipt)
            /\ UNCHANGED <<cons, live, pinned, rec, tail, reply, ctl, evals>>
        BY <3>1, ZenonT(30) DEF ObserveRun, redisVars, fileVars
      <4>3. PICK v \in BOOLEAN : v = (exitc["run"] = "ok" /\ Receipt)
        BY ZenonT(30) DEF Receipt
      <4>4. (v => exitc["run"] = "ok") /\ Observe("run", v)
        BY <4>2, <4>3, ZenonT(30)
      <4> QED
        BY <4>1, <4>2, <4>3, <4>4, ZenonT(30)
    <3>2. ASSUME NEW st \in Stage, ObserveCapture(st)
          PROVE  \E x \in Stage, valid \in BOOLEAN :
                   /\ (valid => exitc[x] = "ok") /\ Observe(x, valid)
                   /\ UNCHANGED <<cons, live, pinned, rec, tail, reply, ctl, evals>>
      <4>1. Observe(st, exitc[st] = "ok")
            /\ UNCHANGED <<cons, live, pinned, rec, tail, reply, ctl, evals>>
        BY <3>2, ZenonT(30) DEF ObserveCapture, redisVars, fileVars
      <4>2. PICK v \in BOOLEAN : v = (exitc[st] = "ok")
        BY ZenonT(30)
      <4>3. (v => exitc[st] = "ok") /\ Observe(st, v)
        BY <4>1, <4>2, ZenonT(30)
      <4> QED
        BY <4>1, <4>2, <4>3, ZenonT(30)
    <3> QED
      BY <1>2, <3>1, <3>2, ZenonT(30)
  <2>2. JobInv'
    BY <1>0, <2>1, ObserveSteps, ZenonT(30)
  <2>3. CtlInv'
    BY <1>0, <2>1, CtlKept, ZenonT(30)
  <2>4. UNCHANGED exitc
    BY <2>1, ZenonT(30) DEF Observe
  <2> QED
    BY <2>1, <2>2, <2>3, <2>4, RecordKeepsRest, ZenonT(30)
<1> QED
  BY <1>1, <1>2, ZenonT(30) DEF Host

\* The jobs, Docker and the helper without the controller.
LEMMA AloneSteps ==
    ASSUME ReconcileInv, Alone,
           JobsStep \/ VerifyWorkers \/ HelperDies \/ \E st \in Stage : ContainerStops(st)
    PROVE  ReconcileInv'
<1>0. UNCHANGED <<cons, live, pinned, rec, tail, reply, ctl, evals>> /\ JobInv /\ CtlInv /\ GoneInv
  BY ZenonT(30) DEF Alone, redisVars, fileVars, ReconcileInv
<1>1. CtlInv'
  BY <1>0, CtlKept, ZenonT(30)
<1>2. CASE JobsStep
  <2>1. JobInv'
    BY <1>0, <1>2, JobsSteps, ZenonT(30)
  <2>2. UNCHANGED exitc
    BY <1>2, ZenonT(30) DEF JobsStep, CreateRead, CreatePins, RequestSecret, DockerSecret, BindSecret,
      PrepareCapture, PrepareRun, Launch, RequestService, DockerService, BindService, CleanupDiscover,
      CleanupMark, CleanupRemove, CleanupDone, RemoveSecret, CleanupSecret, Leave, HelperRaises
  <2> QED
    BY <1>0, <1>1, <2>1, <2>2, RecordKeepsRest, ZenonT(30)
<1>3. CASE VerifyWorkers \/ HelperDies
  <2>1. /\ UNCHANGED <<phase, job, secret, svc, exitc, held>>
        /\ (host' = host \/ (host' = Idle /\ host # Idle))
    BY <1>3, ZenonT(30) DEF VerifyWorkers, HelperDies
  <2>2. Applying \/ host' = host
    BY <1>0, <2>1, ZenonT(30) DEF JobInv, GateInv
  <2>3. host' = host \/ host'.op \notin {"create", "secret"}
    BY <2>1, IdleOp, ZenonT(30)
  <2>4. JobInv'
    BY <1>0, <2>1, <2>2, <2>3, HostMoves, ZenonT(30)
  <2> QED
    BY <1>0, <1>1, <2>1, <2>4, RecordKeepsRest, ZenonT(30)
<1>4. CASE \E st \in Stage : ContainerStops(st)
  <2>1. PICK st \in Stage : ContainerStops(st)
    BY <1>4, ZenonT(30)
  <2>2. JobInv'
    BY <1>0, <2>1, ServiceSteps, ZenonT(30)
  <2>3. exitc' = [exitc EXCEPT ![st] = "failed"] /\ DOMAIN exitc = Stage
    BY <1>0, <2>1, ZenonT(30) DEF ContainerStops, JobInv, JobShape
  <2>4. \A x \in Stage : exitc'[x] = "ok" => exitc[x] = "ok"
    BY <2>3, ZenonT(30)
  <2>5. (Succeeds' => Succeeds) /\ (exitc'["current"] = "ok" => exitc["current"] = "ok")
    BY <1>0, <2>4, ZenonT(30) DEF Succeeds, Stage
  <2>6. AllGone => AllGone'
    BY <1>0, ZenonT(30) DEF AllGone
  <2>7. GoneInv'
    BY <1>0, <2>5, <2>6, GoneKept, ZenonT(30) DEF GoneInv
  <2> QED
    BY <1>1, <2>2, <2>7, ZenonT(30) DEF ReconcileInv
<1> QED
  BY <1>2, <1>3, <1>4, ZenonT(30)

-----------------------------------------------------------------------------
(* The theorems. *)

LEMMA Starts ==
    ASSUME Init  PROVE ReconcileInv
<1>0. /\ cons \in [Consumer -> {"absent", "active", "idle"}] /\ live = Leased /\ pinned = {}
      /\ rec = NoRecord /\ tail = NoFrame /\ reply = 0 /\ ctl = Started
      /\ evals = [s \in Stream |-> 0]
      /\ phase = "FORWARD_APPLYING" /\ host = Idle
      /\ job = [st \in Stage |-> NoJob] /\ secret = [k \in Key |-> "none"]
      /\ svc = [st \in Stage |-> "none"] /\ exitc = [st \in Stage |-> "none"]
      /\ held = [k \in Key |-> "none"]
  BY ChainsAreApart, ZenonT(30) DEF Init, JobsInit
<1>1. JobInv
  <2>1. PICK f : f = FALSE
    BY ZenonT(30)
  <2>2. PICK n : n = [state |-> "none", bound |-> f, task |-> f, exit |-> "none", result |-> f]
    BY ZenonT(30)
  <2>3. n = NoJob
    BY <2>1, <2>2, ZenonT(30) DEF NoJob
  <2>4. DOMAIN n = JobField /\ n.state = "none" /\ n.result = f
    BY <2>2, ZenonT(30) DEF JobField
  <2>5. DOMAIN job = Stage /\ \A st \in Stage : job[st] = n
    BY <1>0, <2>3, ZenonT(30)
  <2>6. /\ DOMAIN secret = Key /\ DOMAIN exitc = Stage
        /\ svc \in [Stage -> {"none", "requested", "up", "stopping", "gone"}]
        /\ held \in [Key -> {"none", "requested", "up", "gone"}]
        /\ \A st \in Stage : svc[st] = "none" /\ \A k \in Key : held[k] = "none"
    BY <1>0, ZenonT(30)
  <2>7. JobShape
    BY <2>4, <2>5, <2>6, ZenonT(30) DEF JobShape
  <2>8. \A x : host # Op("create", x) /\ host # Op("secret", x)
    BY <1>0, OpsDiffer, SMTT(30) DEF Idle
  <2>9. \A st \in Stage : StageInv(st)
    BY <2>1, <2>4, <2>5, <2>6, <2>8, ZenonT(30) DEF StageInv
  <2>10. \A k \in Key : SecretInv(k)
    <3>1. \A k \in Key : held[k] = "none"
      BY <1>0, ZenonT(30)
    <3> QED
      BY <2>8, <3>1, ZenonT(30) DEF SecretInv
  <2>11. GateInv
    <3>1. "run" \in Stage
      BY ZenonT(30) DEF Stage
    <3> QED
      BY <1>0, <2>4, <2>5, <3>1, ZenonT(30) DEF GateInv, Applying
  <2> QED
    BY <2>7, <2>9, <2>10, <2>11, ZenonT(30) DEF JobInv
<1>2. GoneInv
  <2>1. exitc["current"] = "none" /\ exitc["run"] = "none"
    BY <1>0, ZenonT(30) DEF Stage
  <2>2. ctl.pc = "begin"
    BY <1>0, ZenonT(30) DEF Started
  <2>3. DOMAIN cons = Consumer
    BY <1>0, ZenonT(30)
  <2> QED
    BY <1>0, <2>1, <2>2, <2>3, ZenonT(30) DEF GoneInv, Succeeds
<1>3. CtlInv
  <2>1. PICK f : f = FALSE
    BY ZenonT(30)
  <2>2. PICK u : u = [s \in Stream |-> "unused"]
    BY ZenonT(30)
  <2>3. rec = [exists |-> f, attached |-> f, sequence |-> 0, streams |-> u, last |-> "none"]
    BY <1>0, <2>1, <2>2, ZenonT(30) DEF NoRecord
  <2>4. DOMAIN rec = RecField /\ rec.exists = f /\ rec.attached = f /\ rec.sequence = 0 /\ rec.streams = u
    BY <2>3, ZenonT(30) DEF RecField
  <2>5. ctl = [pc |-> "begin", next |-> "none", sequence |-> 0, todo |-> {}, attempted |-> {},
               poisoned |-> f, uncertain |-> "none", outcome |-> "none"]
    BY <1>0, <2>1, ZenonT(30) DEF Started
  <2>6. /\ DOMAIN ctl = CtlField /\ ctl.pc = "begin" /\ ctl.next = "none" /\ ctl.sequence = 0
        /\ ctl.todo = {} /\ ctl.poisoned = f /\ ctl.outcome = "none"
    BY <2>5, ZenonT(30) DEF CtlField
  <2>7. /\ evals \in [Stream -> Nat] /\ (\A s \in Stream : evals[s] = 0) /\ DOMAIN u = Stream
        /\ reply \in Nat /\ ctl.sequence \in Nat /\ rec.sequence \in Nat /\ reply <= rec.sequence
    BY <1>0, <2>2, <2>4, <2>6, SMTT(30)
  <2>8. CtlShape
    BY <1>0, <2>4, <2>6, <2>7, ZenonT(30) DEF CtlShape
  <2>9. NumberInv
    BY <1>0, <2>1, <2>2, <2>4, <2>6, <2>7, ZenonT(30) DEF NumberInv
  <2>10. tail.action # "after_eval"
    BY <1>0, ZenonT(30) DEF NoFrame
  <2>11. EvalInv
    BY <2>6, <2>7, <2>10, ZenonT(30) DEF EvalInv, Asks
  <2>12. EvalIsJournaled
    <3>1. \A s \in Stream : evals[s] <= 1 /\ evals[s] # 1
      BY <2>7, SMTT(30)
    <3> QED
      BY <3>1, ZenonT(30) DEF EvalIsJournaled
  <2> QED
    BY <2>8, <2>9, <2>11, <2>12, ZenonT(30) DEF CtlInv
<1> QED
  BY <1>1, <1>2, <1>3, ZenonT(30) DEF ReconcileInv

LEMMA StepsKeepInv ==
    ASSUME ReconcileInv, [Next]_vars  PROVE ReconcileInv'
<1>0. JobInv /\ GoneInv /\ CtlInv
  BY ZenonT(30) DEF ReconcileInv
<1>1. CASE UNCHANGED vars
  <2>1. UNCHANGED <<phase, job, secret, svc, exitc, held, host, cons, live, pinned, rec, tail, reply, ctl,
                    evals>>
    BY <1>1, ZenonT(30) DEF vars, jobVars, redisVars, fileVars
  <2>2. JobInv' /\ CtlInv'
    BY <1>0, <2>1, JobsKept, CtlKept, ZenonT(30)
  <2> QED
    BY <2>1, <2>2, RecordKeepsRest, ZenonT(30)
<1>2. CASE /\ Alone
           /\ JobsStep \/ VerifyWorkers \/ HelperDies \/ \E st \in Stage : ContainerStops(st)
  BY <1>2, AloneSteps, ZenonT(30)
<1>3. ASSUME NEW st \in Stage, Capture(st)  PROVE ReconcileInv'
  <2>1. UNCHANGED <<rec, tail, reply, ctl, evals>>
    BY <1>3, ZenonT(30) DEF Capture, fileVars
  <2> QED
    BY <1>0, <1>3, <2>1, CaptureSteps, CtlKept, ZenonT(30) DEF ReconcileInv
<1>4. CASE Host
  BY <1>4, HostSteps, ZenonT(30)
<1>5. CASE Controller \/ Breaks \/ EvalAnswerLost
  BY <1>5, ControllerSteps, ZenonT(30)
<1>6. CASE \/ \E c \in Consumer : \/ OldReads(c) \/ OldAcks(c) \/ Ages(c) \/ LeaseExpires(c)
           \/ \E s \in Stream : CurrentRestarts(s)
  <2>1. /\ UNCHANGED <<phase, job, secret, svc, exitc, held, host, pinned, rec, tail, reply, ctl, evals>>
        /\ \/ \E c \in Consumer : \/ OldReads(c) \/ OldAcks(c) \/ Ages(c) \/ LeaseExpires(c)
           \/ UNCHANGED <<cons, live>>
    BY <1>6, ZenonT(30) DEF OldReads, OldAcks, Ages, LeaseExpires, CurrentRestarts, envFrame, jobVars,
      fileVars
  <2>2. JobInv' /\ CtlInv'
    BY <1>0, <2>1, JobsKept, CtlKept, ZenonT(30)
  <2>3. GoneInv'
    BY <1>0, <2>1, ConsumerSteps, ZenonT(30)
  <2> QED
    BY <2>2, <2>3, ZenonT(30) DEF ReconcileInv
<1> QED
  BY <1>1, <1>2, <1>3, <1>4, <1>5, <1>6, ZenonT(30) DEF Next

\* The inductive invariant: the journal accounts for what Docker has, frames,
\* record and replies are numbered alike, and success is reported only with
\* every replaced worker's consumer gone.
THEOREM ReconcileInvariant == Spec => []ReconcileInv
  BY Starts, StepsKeepInv, PTL DEF Spec

\* A stream gets at most one EVAL, and the record had said so before it was
\* sent: whichever of controller, helper or host dies in between.
THEOREM EvalsAreJournaled == Spec => []EvalIsJournaled
<1>1. ReconcileInv => EvalIsJournaled
  BY ZenonT(30) DEF ReconcileInv, CtlInv
<1> QED
  BY <1>1, ReconcileInvariant, PTL

\* A verified transaction has no consumer of a replaced worker left in Redis.
THEOREM VerifiedIsRetired == Spec => []SuccessMeansRetired
<1>1. ASSUME ReconcileInv  PROVE SuccessMeansRetired
  <2>1. SUFFICES ASSUME phase = "FORWARD_VERIFIED"  PROVE \A c \in Consumer : cons[c] = "absent"
    BY ZenonT(30) DEF SuccessMeansRetired
  <2>2. "run" \in Stage
    BY ZenonT(30) DEF Stage
  <2>3. job["run"].result
    BY <1>1, <2>1, <2>2, ZenonT(30) DEF ReconcileInv, JobInv, GateInv, Gate, Captured
  <2>4. exitc["run"] = "ok"
    BY <1>1, <2>2, <2>3, ZenonT(30) DEF ReconcileInv, JobInv, StageInv
  <2> QED
    BY <1>1, <2>4, ZenonT(30) DEF ReconcileInv, GoneInv, Succeeds, AllGone
<1> QED
  BY <1>1, ReconcileInvariant, PTL

\* Behind a transaction that has left FORWARD_APPLYING nothing of its jobs is in
\* Docker, and nothing a late request could bring is either.
THEOREM LeavesNothing == Spec => []NothingLeftBehind
<1>1. ASSUME ReconcileInv  PROVE NothingLeftBehind
  <2>1. SUFFICES ASSUME ~Applying
                 PROVE  /\ \A st \in Stage : svc[st] \in {"none", "gone"}
                        /\ \A k \in Key : held[k] \in {"none", "gone"}
    BY ZenonT(30) DEF NothingLeftBehind
  <2>2. Gate(FALSE) /\ JobShape /\ (\A st \in Stage : StageInv(st)) /\ \A k \in Key : SecretInv(k)
    BY <1>1, <2>1, ZenonT(30) DEF ReconcileInv, JobInv, GateInv
  <2>3. ASSUME NEW st \in Stage  PROVE svc[st] \in {"none", "gone"}
    <3>1. /\ job[st].state \in {"none", "removed"} /\ StageInv(st)
          /\ svc[st] \in {"none", "requested", "up", "stopping", "gone"}
      BY <2>2, <2>3, ZenonT(30) DEF Gate, Settled, JobShape
    <3> QED
      BY <3>1, ZenonT(30) DEF StageInv
  <2>4. ASSUME NEW k \in Key  PROVE held[k] \in {"none", "gone"}
    <3>1. secret[k] \in {"none", "removed"} /\ SecretInv(k) /\ held[k] \in {"none", "requested", "up", "gone"}
      BY <2>2, <2>4, ZenonT(30) DEF Gate, JobShape
    <3> QED
      BY <3>1, ZenonT(30) DEF SecretInv
  <2> QED
    BY <2>3, <2>4, ZenonT(30)
<1> QED
  BY <1>1, ReconcileInvariant, PTL

==============================================================================
