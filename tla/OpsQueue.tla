------------------------------- MODULE OpsQueue -------------------------------
(***************************************************************************)
(* The ChannelOps work queue and the runner loop that drains it            *)
(* (internal/channelops/queue.go, queue_claim_cleanup.go,                  *)
(* execution_fence.go and Runner.runOnce of runner.go).                    *)
(*                                                                         *)
(* A fenced transaction holds the leader row FOR SHARE and the queue row   *)
(* FOR UPDATE from its checks to its commit, so it is one step here; that  *)
(* no takeover fits inside is what LeaderEpoch shows.  A lease is the pair *)
(* (locked_by, locked_at); locked_at is NOW(), a stamp that grows with     *)
(* every claim.  The due time and the executability of a channel decide    *)
(* whether a queued item can be claimed; a claim pass may find nothing.    *)
(***************************************************************************)
EXTENDS Leadership, Faults

CONSTANTS
    HolderId,     \* the holder_id of each runner; they may coincide
    Item,         \* queue items, one per idempotency key
    Discovery,    \* the items of kind ingest_discovery
    MaxAttempts,  \* max_attempts of an item
    NoClaim       \* a runner without a claimed item, a run without a lease

ASSUME QueueAssumption ==
    /\ NoRunner \notin Runner
    /\ Discovery \subseteq Item
    /\ MaxAttempts \in Nat \ {0}
    /\ MaxFaults \in Nat

VARIABLES
    q,        \* the channel_ops_queue_items rows
    stamp,    \* per item, the last value of NOW() written to locked_at
    run,      \* status of the item's discovery_ingestion_runs row
    pc,       \* where each runner's loop is
    pass,     \* the epoch its current pass of runOnce started with
    held,     \* the QueueItemRow it claimed
    effect,   \* history: how often the item's work was committed
    unacked,  \* history: how many of those commits the runner saw fail
    lost,     \* history: items a process held when it exited
    picked    \* the items an open reject request has read as queued

queueVars == <<row, auth, written, q, stamp, run, pc, pass, held, effect,
               unacked, lost, picked, faults>>

Worker == {HolderId[r] : r \in Runner} \X Nat
Terminal == {"succeeded", "dead_lettered", "cancelled"}
Status == {"absent", "queued", "running"} \cup Terminal

Claim == [item : Item, by : Worker, at : Nat, attempts : Nat]

ASSUME ClaimAssumption == NoClaim \notin Claim

QueueTypeOK ==
    /\ row \in [epoch : Nat, holder : Runner \cup {NoRunner},
                released : BOOLEAN]
    /\ auth \in [Runner -> Nat]
    /\ written \in Nat
    /\ q \in [Item -> [status : Status, by : Worker \cup {NoClaim}, at : Nat,
                       attempts : Nat]]
    /\ stamp \in [Item -> Nat]
    /\ run \in [Item -> {"none", "running", "failed", "succeeded"}]
    /\ pc \in [Runner -> {"idle", "active", "recover", "claim", "claimed",
                          "handling", "waiting", "observed", "committed",
                          "failed", "reject", "release"}]
    /\ pass \in [Runner -> Nat]
    /\ held \in [Runner -> Claim \cup {NoClaim}]
    /\ effect \in [Item -> Nat]
    /\ unacked \in [Item -> Nat]
    /\ lost \in SUBSET Item
    /\ picked \in SUBSET Item
    /\ faults \in 0..MaxFaults

QueueInit ==
    /\ LeadershipInit
    /\ q = [i \in Item |-> [status |-> "absent", by |-> NoClaim, at |-> 0,
                            attempts |-> 0]]
    /\ stamp = [i \in Item |-> 0]
    /\ run = [i \in Item |-> "none"]
    /\ pc = [r \in Runner |-> "idle"]
    /\ pass = [r \in Runner |-> 0]
    /\ held = [r \in Runner |-> NoClaim]
    /\ effect = [i \in Item |-> 0]
    /\ unacked = [i \in Item |-> 0]
    /\ lost = {}
    /\ picked = {}
    /\ faults = 0

-----------------------------------------------------------------------------
(* Leadership as the loop sees it *)

\* The heartbeat, and the fence of a transaction, pass.
Active(r) ==
    /\ auth[r] # 0
    /\ row.epoch = auth[r] /\ row.holder = r /\ ~row.released

Fenced(r) == Active(r) /\ FencedWrite(r)

\* Heartbeat and fence reject the cached authority, and clear it.
Rejected(r) == ~Active(r) /\ Forget(r)

Goto(r, label) == pc' = [pc EXCEPT ![r] = label]

\* The pass ends; its local variables die with it.
EndPass(r) ==
    /\ Goto(r, "idle")
    /\ pass' = [pass EXCEPT ![r] = 0]
    /\ held' = [held EXCEPT ![r] = NoClaim]

loopVars == <<pass, held>>
itemVars == <<q, stamp, run, effect, unacked, lost, picked>>

\* EnsureActive, called to start a pass and after a claim, acquires: at once
\* when nobody leads, else the leader's lock session was dropped under it,
\* which is a fault.
TakeOver(r) ==
    /\ pc[r] \in {"idle", "claimed"}
    /\ auth[r] = 0
    /\ IF \E s \in Runner : Active(s) THEN Fault ELSE UNCHANGED faults
    /\ Takeover(r)
    /\ auth'[r] # 0
    /\ UNCHANGED <<itemVars, pc, loopVars>>

\* A heartbeat or a readiness check fails and drops a good lease.
LoseAuthority(r) ==
    /\ auth[r] # 0
    /\ Fault
    /\ Forget(r)
    /\ UNCHANGED <<itemVars, pc, loopVars>>

\* The process exits, by a crash or because runOnce returned an error, and is
\* restarted; what it had claimed stays claimed in the database.
Exit(r) ==
    /\ Fault
    /\ Forget(r)
    /\ EndPass(r)
    /\ lost' = IF held[r] = NoClaim THEN lost ELSE lost \cup {held[r].item}
    /\ UNCHANGED <<q, stamp, run, effect, unacked, picked>>

\* A clean shutdown between passes releases the leader row.
Close(r) ==
    /\ pc[r] = "idle"
    /\ Active(r)
    /\ Fault
    /\ Resign(r)
    /\ UNCHANGED <<itemVars, pc, loopVars>>

-----------------------------------------------------------------------------
(* One pass of runOnce: lead, schedule, recover, claim *)

StartPass(r) ==
    /\ pc[r] = "idle"
    /\ Active(r)
    /\ pass' = [pass EXCEPT ![r] = auth[r]]
    /\ Goto(r, "active")
    /\ UNCHANGED <<leadershipVars, itemVars, held, faults>>

\* Enqueue is INSERT ... ON CONFLICT (idempotency_key): an item that exists,
\* in whatever status, is left alone.
Enqueued(i) ==
    IF q[i].status = "absent" THEN [q EXCEPT ![i].status = "queued"] ELSE q

RunScheduler(r) ==
    /\ pc[r] = "active"
    /\ Fenced(r)
    /\ \E i \in Item : q' = Enqueued(i)
    /\ Goto(r, "recover")
    /\ UNCHANGED <<stamp, run, effect, unacked, lost, picked, loopVars,
                   faults>>

\* ShouldRunScheduler is false: the poll interval has not passed.
SkipScheduler(r) ==
    /\ pc[r] = "active"
    /\ Goto(r, "recover")
    /\ UNCHANGED <<leadershipVars, itemVars, loopVars, faults>>

\* Mutant: the lease is cleared and the status forgotten.
UnlockedOnly(status, attempts) ==
    [status |-> "running", by |-> NoClaim, at |-> 0, attempts |-> attempts]

\* SET status = ..., locked_by = NULL, locked_at = NULL
Unlocked(status, attempts) ==
    [status |-> status, by |-> NoClaim, at |-> 0, attempts |-> attempts]

\* Mutants: recovery retries an item without attempts left; it forgets the item.
RecoveredAlways(i) ==
    Unlocked(IF run[i] = "succeeded" THEN "succeeded" ELSE "queued",
             q[i].attempts)
NotRecovered(i) == q[i]

\* What recoverStaleDiscoveryLeases makes of a stale item.
Recovered(i) ==
    Unlocked(IF run[i] = "succeeded" THEN "succeeded"
             ELSE IF q[i].attempts < MaxAttempts THEN "queued"
             ELSE "dead_lettered",
             q[i].attempts)

\* Any discovery lease may have become 15 minutes old by now.
RecoverStale(r, stale) ==
    /\ pc[r] = "recover"
    /\ \A i \in stale : q[i].status = "running"
    /\ Fenced(r)
    /\ q' = [i \in Item |-> IF i \in stale THEN Recovered(i) ELSE q[i]]
    /\ run' = [i \in Item |-> IF i \in stale /\ run[i] = "running"
                              THEN "failed" ELSE run[i]]
    /\ Goto(r, "claim")
    /\ UNCHANGED <<stamp, effect, unacked, lost, picked, loopVars, faults>>

\* Mutant: locked_by names the process instead of its holder_id.
WorkerIdOfProcess(r) == <<r, pass[r]>>

\* locked_by is "<holder>:epoch:<epoch the pass started with>".
WorkerId(r) == <<HolderId[r], pass[r]>>

ClaimNext(r, i) ==
    /\ pc[r] = "claim"
    /\ q[i].status = "queued"
    /\ Fenced(r)
    /\ stamp' = [stamp EXCEPT ![i] = @ + 1]
    /\ q' = [q EXCEPT ![i] = [status |-> "running", by |-> WorkerId(r),
                              at |-> stamp'[i], attempts |-> @.attempts + 1]]
    /\ held' = [held EXCEPT ![r] = [item |-> i, by |-> WorkerId(r),
                                    at |-> stamp'[i],
                                    attempts |-> q'[i].attempts]]
    /\ Goto(r, "claimed")
    /\ UNCHANGED <<run, effect, unacked, lost, picked, pass, faults>>

\* Nothing is due, or no channel is executable.
ClaimsNothing(r) ==
    /\ pc[r] = "claim"
    /\ Fenced(r)
    /\ EndPass(r)
    /\ UNCHANGED <<itemVars, faults>>

\* A fence or heartbeat that rejects ends the pass before anything is held.
PassRejected(r) ==
    /\ pc[r] \in {"idle", "active", "recover", "claim"}
    /\ auth[r] # 0 \/ pc[r] # "idle"
    /\ Rejected(r)
    /\ EndPass(r)
    /\ UNCHANGED <<itemVars, faults>>

-----------------------------------------------------------------------------
(* Handling a claimed item *)

HasLease(r) ==
    LET rec == q[held[r].item] IN
    rec.status = "running" /\ rec.by = held[r].by /\ rec.at = held[r].at

\* The second EnsureActive of the pass must see the same epoch.
ConfirmAuthority(r) ==
    /\ pc[r] = "claimed"
    /\ Active(r) /\ auth[r] = pass[r]
    /\ Goto(r, "handling")
    /\ UNCHANGED <<leadershipVars, itemVars, loopVars, faults>>

AuthorityChanged(r) ==
    /\ pc[r] = "claimed"
    /\ \/ Rejected(r)
       \/ Active(r) /\ auth[r] # pass[r] /\ UNCHANGED leadershipVars
    /\ Goto(r, "release")
    /\ UNCHANGED <<itemVars, loopVars, faults>>

\* Mutant: the fence checks the channel without locking it.
ChannelNotLocked(r) == TRUE

\* WithQueueExecutionFence locks the item's channel last, after the leader row
\* and the lease; an open reject request holds that lock.
ChannelFree(r) == held[r].item \notin picked

\* The last transaction of a handler, under WithQueueExecutionFence, commits.
HandlerCommits(r) ==
    /\ pc[r] = "handling"
    /\ held[r].item \notin Discovery
    /\ HasLease(r)
    /\ ChannelFree(r)
    /\ Fenced(r)
    /\ effect' = [effect EXCEPT ![held[r].item] = @ + 1]
    /\ Goto(r, "committed")
    /\ UNCHANGED <<q, stamp, run, unacked, lost, picked, loopVars, faults>>

\* It commits, but the answer to COMMIT is lost: an error to the runner, or
\* a cancellation.
HandlerCommitUnacknowledged(r) ==
    /\ pc[r] = "handling"
    /\ held[r].item \notin Discovery
    /\ HasLease(r)
    /\ ChannelFree(r)
    /\ Fault
    /\ Fenced(r)
    /\ effect' = [effect EXCEPT ![held[r].item] = @ + 1]
    /\ unacked' = [unacked EXCEPT ![held[r].item] = @ + 1]
    /\ \E label \in {"failed", "release"} : Goto(r, label)
    /\ UNCHANGED <<q, stamp, run, lost, picked, loopVars>>

\* A collaborator, a blocked channel or a stale snapshot fails the handler; a
\* queue row that does not resolve to its channel is rejected for good.
HandlerFails(r) ==
    /\ pc[r] \in {"handling", "observed"}
    /\ \/ Goto(r, "failed")
       \/ Active(r) /\ HasLease(r) /\ Goto(r, "reject")
    /\ UNCHANGED <<leadershipVars, itemVars, loopVars, faults>>

\* Mutant: work that has committed is still released when the fence closes.
HandlerFencedLate(r) ==
    /\ pc[r] \in {"handling", "observed", "committed"}
    /\ \/ Rejected(r) /\ UNCHANGED faults
       \/ Fault /\ UNCHANGED leadershipVars
    /\ Goto(r, "release")
    /\ UNCHANGED <<itemVars, loopVars>>

\* A phase of the handler finds the leader fence closed, or is cancelled.
HandlerFenced(r) ==
    /\ pc[r] \in {"handling", "observed"}
    /\ \/ Rejected(r) /\ UNCHANGED faults
       \/ Fault /\ UNCHANGED leadershipVars
    /\ Goto(r, "release")
    /\ UNCHANGED <<itemVars, loopVars>>

\* A phase of the handler finds its lease gone: the item is dropped untouched.
HandlerLeaseLost(r) ==
    /\ pc[r] \in {"handling", "observed"}
    /\ Active(r)
    /\ ~HasLease(r)
    /\ EndPass(r)
    /\ UNCHANGED <<leadershipVars, itemVars, faults>>

-----------------------------------------------------------------------------
(* Completion: every UPDATE names the exact lease *)

\* Mutant: the UPDATE names the item and not the lease.
UpdateItem(r, rec) == q' = [q EXCEPT ![held[r].item] = rec]

\* An UPDATE guarded by the lease changes the row, or no row at all.
UnderLease(r, rec) ==
    q' = IF HasLease(r) THEN [q EXCEPT ![held[r].item] = rec] ELSE q

ItemOf(r) == q[held[r].item]

\* Mutant: the handler's error is not looked at.
MarkQueueDoneAnyway(r) ==
    /\ pc[r] \in {"committed", "failed"}
    /\ UnderLease(r, Unlocked("succeeded", ItemOf(r).attempts))
    /\ EndPass(r)
    /\ UNCHANGED <<leadershipVars, stamp, run, effect, unacked, lost, picked,
                   faults>>

\* completeCommittedQueueClaim needs the lease, not the leader fence.
MarkQueueDone(r) ==
    /\ pc[r] = "committed"
    /\ UnderLease(r, Unlocked("succeeded", ItemOf(r).attempts))
    /\ EndPass(r)
    /\ UNCHANGED <<leadershipVars, stamp, run, effect, unacked, lost, picked,
                   faults>>

\* Mutant: one attempt too many.
ShouldDeadLetterLate(attempts) == attempts > MaxAttempts

ShouldDeadLetter(attempts) == attempts >= MaxAttempts

MarkQueueFailedOrRetry(r) ==
    /\ pc[r] = "failed"
    /\ Fenced(r)
    /\ UnderLease(r, Unlocked(IF ShouldDeadLetter(held[r].attempts)
                              THEN "dead_lettered" ELSE "queued",
                              ItemOf(r).attempts))
    /\ EndPass(r)
    /\ UNCHANGED <<stamp, run, effect, unacked, lost, picked, faults>>

MarkQueueRejected(r) ==
    /\ pc[r] = "reject"
    /\ Fenced(r)
    /\ UnderLease(r, Unlocked("dead_lettered", ItemOf(r).attempts))
    /\ EndPass(r)
    /\ UNCHANGED <<stamp, run, effect, unacked, lost, picked, faults>>

\* The fence of a failure's completion rejects, or the completion times out:
\* give the claim back instead.
CompletionFenced(r) ==
    /\ pc[r] \in {"failed", "reject"}
    /\ \/ Rejected(r) /\ UNCHANGED faults
       \/ Fault /\ UNCHANGED leadershipVars
    /\ Goto(r, "release")
    /\ UNCHANGED <<itemVars, loopVars>>

Refunded(attempts) == IF attempts = 0 THEN 0 ELSE attempts - 1

\* Releasing needs the lease, not the fence, and refunds the attempt.
ReleaseQueueClaim(r) ==
    /\ pc[r] = "release"
    /\ UnderLease(r, Unlocked("queued", Refunded(ItemOf(r).attempts)))
    /\ EndPass(r)
    /\ UNCHANGED <<leadershipVars, stamp, run, effect, unacked, lost, picked,
                   faults>>

-----------------------------------------------------------------------------
(* The operator *)

\* _cancel_queued_publication_items writes the status and leaves the lease.
Cancelled(items) ==
    [i \in Item |-> IF i \in items THEN [q[i] EXCEPT !.status = "cancelled"]
                    ELSE q[i]]

\* reject_publication locks the channel and then reads, without a lock on
\* them, the queued items of the publication.
OperatorSelects(items) ==
    /\ picked = {}
    /\ items # {}
    /\ \A i \in items : q[i].status = "queued"
    /\ picked' = items
    /\ UNCHANGED <<leadershipVars, q, stamp, run, effect, unacked, lost, pc,
                   loopVars, faults>>

\* It writes by primary key, whatever a runner made of the items since: claimed
\* them, gave them back, or dead-lettered them before it came to the channel.
OperatorCancels ==
    /\ picked # {}
    /\ q' = Cancelled(picked)
    /\ picked' = {}
    /\ UNCHANGED <<leadershipVars, stamp, run, effect, unacked, lost, pc,
                   loopVars, faults>>

\* The request fails: a runner that holds the queue row waits for the channel,
\* and PostgreSQL breaks the deadlock, or the connection is lost.
OperatorAborts ==
    /\ picked # {}
    /\ picked' = {}
    /\ UNCHANGED <<leadershipVars, q, stamp, run, effect, unacked, lost, pc,
                   loopVars, faults>>

-----------------------------------------------------------------------------
(* Specification *)

LoopStep(r) ==
    \/ StartPass(r)
    \/ SkipScheduler(r)
    \/ \E stale \in SUBSET Discovery : RecoverStale(r, stale)
    \/ \E i \in Item : ClaimNext(r, i)
    \/ ClaimsNothing(r)
    \/ PassRejected(r)
    \/ ConfirmAuthority(r)
    \/ AuthorityChanged(r)
    \/ HandlerFenced(r)
    \/ HandlerLeaseLost(r)
    \/ MarkQueueDone(r)
    \/ MarkQueueFailedOrRetry(r)
    \/ MarkQueueRejected(r)
    \/ CompletionFenced(r)
    \/ ReleaseQueueClaim(r)

Handler(r) ==
    \/ HandlerCommits(r)
    \/ HandlerCommitUnacknowledged(r)
    \/ HandlerFails(r)

LeaderStep(r) ==
    TakeOver(r) \/ LoseAuthority(r) \/ Exit(r) \/ Close(r)

QueueNext ==
    \/ \E r \in Runner :
        RunScheduler(r) \/ LoopStep(r) \/ Handler(r) \/ LeaderStep(r)
    \/ \E items \in SUBSET (Item \ Discovery) : OperatorSelects(items)
    \/ OperatorCancels \/ OperatorAborts

QueueSpec == QueueInit /\ [][QueueNext]_queueVars

\* The loop polls for ever.  An item that stays queued is claimed eventually:
\* its run_after passes, and its channel is assumed executable by then.
QueueFairness ==
    /\ \A r \in Runner :
        /\ WF_queueVars(LoopStep(r) \/ HandlerCommits(r) \/ HandlerFails(r))
        /\ SF_queueVars(\E i \in Item : ClaimNext(r, i))
        /\ SF_queueVars(\E stale \in SUBSET Discovery :
                            stale # {} /\ RecoverStale(r, stale))
    /\ WF_queueVars(\E r \in Runner : TakeOver(r))
    /\ WF_queueVars(OperatorCancels \/ OperatorAborts)

QueueFairSpec == QueueSpec /\ QueueFairness

-----------------------------------------------------------------------------
(* Properties *)

\* Claims, retries, refunds and recoveries keep attempt_count within
\* max_attempts, and an item that waits has an attempt left.
AttemptsBounded ==
    \A i \in Item :
        /\ q[i].status = "queued" => q[i].attempts < MaxAttempts
        /\ q[i].status = "running" => q[i].attempts \in 1..MaxAttempts

\* The work of an item is committed and acknowledged at most once, and then
\* the item is never queued again or dead-lettered, whoever leads meanwhile.
AcknowledgedWorkIsKept ==
    \A i \in Item \ Discovery :
        effect[i] > unacked[i] =>
            /\ effect[i] = unacked[i] + 1
            /\ q[i].status \in {"running", "succeeded"}

\* MarkQueueDone is reached only after the work of the item was committed.
SucceededMeansCommitted ==
    \A i \in Item \ Discovery : q[i].status = "succeeded" => effect[i] > 0

\* No late completion, release, recovery or cancellation revives a settled
\* item or takes its success back.  One change is left: a reject request that
\* read the item as queued overwrites the dead letter it became meanwhile.
SettledIsFinal ==
    [][\A i \in Item : q[i].status \in Terminal =>
            \/ q'[i] = q[i]
            \/ /\ q[i].status = "dead_lettered" /\ i \in picked
               /\ q'[i] = [q[i] EXCEPT !.status = "cancelled"]]_queueVars

\* When faults stop, every queued item settles, unless a process exited while
\* it held the item: only ingest_discovery leases are ever recovered.
QueuedItemsSettle ==
    \A i \in Item :
        q[i].status = "queued" ~> (q[i].status \in Terminal \/ i \in lost)
==============================================================================
