-------------------------- MODULE DiscoveryIngestion --------------------------
(***************************************************************************)
(* Trend discovery, split between the Go runner and the Python API:        *)
(* HandleIngestDiscovery (handlers.go) calls, under its queue lease,       *)
(* DiscoveryIngestionService.ingest (services/discovery_ingestion.py).     *)
(*                                                                         *)
(* The call outlives the caller: the runner's HTTP timeout, or its crash,  *)
(* leaves the Python request running.  Python commits the claim of a run   *)
(* (with a generation, discovery_ingestion_runs.attempt_count) before it   *)
(* searches, and the signals it found together with the run's success.     *)
(***************************************************************************)
EXTENDS OpsQueue

VARIABLES
    gen,      \* attempt_count of the item's run
    calls,    \* ingest requests in flight in the Python API
    ingested  \* history: how often signals were committed for the item

discoveryVars == <<queueVars, gen, calls, ingested>>
pythonVars == <<gen, calls, ingested>>

\* The identity of the lease travels with the request; gen is 0 until the
\* request has claimed the run.
Call == [item : Item, by : Worker, at : Nat, attempts : Nat, gen : Nat]

DiscoveryTypeOK ==
    /\ QueueTypeOK
    /\ gen \in [Item -> Nat]
    /\ calls \in SUBSET Call
    /\ ingested \in [Item -> Nat]

DiscoveryInit ==
    /\ QueueInit
    /\ gen = [i \in Item |-> 0]
    /\ calls = {}
    /\ ingested = [i \in Item |-> 0]

-----------------------------------------------------------------------------
(* The runner's side *)

\* The first phase checks fence and lease; then the request is sent.
SendIngest(r) ==
    /\ pc[r] = "handling"
    /\ held[r].item \in Discovery
    /\ HasLease(r)
    /\ Fenced(r)
    /\ calls' = calls \cup {[item |-> held[r].item, by |-> held[r].by,
                             at |-> held[r].at, attempts |-> held[r].attempts,
                             gen |-> 0]}
    /\ Goto(r, "waiting")
    /\ UNCHANGED <<itemVars, loopVars, faults, gen, ingested>>

\* Mutant: the timeout is taken for an answer.
TimeoutObserved(r) ==
    /\ pc[r] = "waiting"
    /\ Goto(r, "observed")
    /\ UNCHANGED <<leadershipVars, itemVars, loopVars, faults, pythonVars>>

\* CHANNELOPS_DISCOVERY_TIMEOUT_SECONDS passes, or the connection breaks.
IngestTimesOut(r) ==
    /\ pc[r] = "waiting"
    /\ Goto(r, "failed")
    /\ UNCHANGED <<leadershipVars, itemVars, loopVars, faults, pythonVars>>

\* The second phase checks fence and lease again.
ObserveIngest(r) ==
    /\ pc[r] = "observed"
    /\ HasLease(r)
    /\ Fenced(r)
    /\ Goto(r, "committed")
    /\ UNCHANGED <<itemVars, loopVars, faults, pythonVars>>

-----------------------------------------------------------------------------
(* The Python side *)

Caller(c, r) ==
    /\ pc[r] = "waiting"
    /\ held[r].item = c.item /\ held[r].by = c.by /\ held[r].at = c.at

\* The answer reaches the runner that still waits for it, or is lost.
Answer(c, label) ==
    \/ UNCHANGED pc
    \/ \E r \in Runner : Caller(c, r) /\ Goto(r, label)

\* _same_queue_authority
QueueAuthority(c) ==
    LET rec == q[c.item] IN
    /\ rec.status = "running"
    /\ rec.attempts = c.attempts /\ rec.by = c.by /\ rec.at = c.at

\* Mutant: _claim_existing does not look at the status of the run.
ClaimableAlways(c) == c.gen = 0 /\ QueueAuthority(c)

\* A run that is running may be reclaimed once it is 15 minutes old.
Claimable(c) == c.gen = 0 /\ QueueAuthority(c) /\ run[c.item] # "succeeded"

\* _claim_run commits the generation before the provider is contacted.
ClaimRun(c) ==
    /\ Claimable(c)
    /\ run' = [run EXCEPT ![c.item] = "running"]
    /\ gen' = [gen EXCEPT ![c.item] = @ + 1]
    /\ calls' = (calls \ {c}) \cup {[c EXCEPT !.gen = gen'[c.item]]}
    /\ UNCHANGED <<leadershipVars, q, stamp, effect, unacked, lost, picked, pc,
                   loopVars, faults, ingested>>

\* The lease changed, a recent run is in progress, or the channel or its
\* policy refuses: a conflict, nothing written.
RefuseIngest(c) ==
    /\ c.gen = 0
    /\ run[c.item] # "succeeded" \/ ~QueueAuthority(c)
    /\ calls' = calls \ {c}
    /\ Answer(c, "failed")
    /\ UNCHANGED <<leadershipVars, itemVars, loopVars, faults, gen, ingested>>

\* An earlier attempt's success is returned without a search.
ReplaySuccess(c) ==
    /\ c.gen = 0
    /\ QueueAuthority(c)
    /\ run[c.item] = "succeeded"
    /\ calls' = calls \ {c}
    /\ Answer(c, "observed")
    /\ UNCHANGED <<leadershipVars, itemVars, loopVars, faults, gen, ingested>>

\* Mutants: the run is finished without locking it; its status is compared
\* and its generation is not.
ClaimedOnce(c) == c.gen # 0
RunIsRunning(c) == c.gen # 0 /\ run[c.item] = "running"

\* _lock_owned_run
OwnsRun(c) ==
    c.gen # 0 /\ run[c.item] = "running" /\ gen[c.item] = c.gen

\* The signals and the run's success commit in one transaction.
FinishRun(c) ==
    /\ OwnsRun(c)
    /\ run' = [run EXCEPT ![c.item] = "succeeded"]
    /\ ingested' = [ingested EXCEPT ![c.item] = @ + 1]
    /\ calls' = calls \ {c}
    /\ Answer(c, "observed")
    /\ UNCHANGED <<leadershipVars, q, stamp, effect, unacked, lost, picked,
                   loopVars, faults, gen>>

\* The provider fails, or the channel was halted meanwhile.
FailRun(c) ==
    /\ OwnsRun(c)
    /\ run' = [run EXCEPT ![c.item] = "failed"]
    /\ calls' = calls \ {c}
    /\ Answer(c, "failed")
    /\ UNCHANGED <<leadershipVars, q, stamp, effect, unacked, lost, picked,
                   loopVars, faults, gen, ingested>>

\* Another generation or a recovery took the run: a conflict, signals rolled
\* back.
RunAuthorityChanged(c) ==
    /\ c.gen # 0
    /\ ~OwnsRun(c)
    /\ calls' = calls \ {c}
    /\ Answer(c, "failed")
    /\ UNCHANGED <<leadershipVars, itemVars, loopVars, faults, gen, ingested>>

\* The API process dies with a request: its open transaction is rolled back,
\* a claim it committed stays.
ApiDies(c) ==
    /\ Fault
    /\ calls' = calls \ {c}
    /\ UNCHANGED <<leadershipVars, itemVars, pc, loopVars, gen, ingested>>

-----------------------------------------------------------------------------
(* Specification *)

PythonStep(c) ==
    \/ ClaimRun(c)
    \/ RefuseIngest(c)
    \/ ReplaySuccess(c)
    \/ FinishRun(c)
    \/ FailRun(c)
    \/ RunAuthorityChanged(c)

RunnerStep(r) ==
    \/ SendIngest(r)
    \/ IngestTimesOut(r)
    \/ ObserveIngest(r)
    \/ (RunScheduler(r) \/ LoopStep(r) \/ Handler(r)) /\ UNCHANGED pythonVars

DiscoveryNext ==
    \/ \E r \in Runner : RunnerStep(r)
    \/ \E r \in Runner : LeaderStep(r) /\ UNCHANGED pythonVars
    \/ \E c \in calls : PythonStep(c) \/ ApiDies(c)

DiscoverySpec == DiscoveryInit /\ [][DiscoveryNext]_discoveryVars

\* As QueueFairness; the API finishes the requests it has, and a lease that
\* stays is 15 minutes old eventually.
DiscoveryFairness ==
    /\ \A r \in Runner :
        /\ WF_discoveryVars(RunnerStep(r))
        /\ SF_discoveryVars(\E i \in Item :
                                ClaimNext(r, i) /\ UNCHANGED pythonVars)
        /\ SF_discoveryVars(\E stale \in (SUBSET Discovery) \ {{}} :
                                RecoverStale(r, stale) /\ UNCHANGED pythonVars)
    /\ WF_discoveryVars(\E r \in Runner : TakeOver(r) /\ UNCHANGED pythonVars)

DiscoveryFairSpec == DiscoverySpec /\ DiscoveryFairness

-----------------------------------------------------------------------------
(* Properties *)

\* The signals of a bucket are committed once, whatever timeouts, lost
\* answers, recoveries and late requests surround the run.
IngestedOnce ==
    \A i \in Item : ingested[i] = IF run[i] = "succeeded" THEN 1 ELSE 0

\* A succeeded run is never reopened: "the next queue attempt observes the
\* succeeded run and performs no second search"
\* (2026-07-21-youtube-discovery-scheduler-design.md).
NoSearchAfterSuccess ==
    [][\A i \in Item : run[i] = "succeeded" =>
            run'[i] = "succeeded" /\ gen'[i] = gen[i]]_discoveryVars

\* A discovery item is completed only for a run that succeeded.
CompletedMeansIngested ==
    \A i \in Discovery : q[i].status = "succeeded" => run[i] = "succeeded"

\* At most one request in flight may still finish the run of an item.
OneRunOwner ==
    \A c, d \in calls : OwnsRun(c) /\ OwnsRun(d) /\ c.item = d.item => c = d

\* When faults stop, every queued discovery item settles, even one whose
\* holder crashed: recoverStaleDiscoveryLeases finds it.
DiscoverySettles ==
    \A i \in Discovery : q[i].status = "queued" ~> q[i].status \in Terminal
==============================================================================
