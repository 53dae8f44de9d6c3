---------------------------- MODULE OpsQueueProofs ----------------------------
(***************************************************************************)
(* Proofs about the queue and the two handlers with a module of their own, *)
(* for any runners, items, attempts and faults.                            *)
(*                                                                         *)
(* OpsQueue.  A stamp and an item identify one claim, so whoever still     *)
(* holds the lease is the only one that may settle its item.               *)
(*                                                                         *)
(* DiscoveryIngestion.  A generation of a run belongs to one request, and  *)
(* signals are committed under the newest generation of a run that is not  *)
(* over; late requests find theirs superseded.                             *)
(*                                                                         *)
(* Promotion.  The operation never returns to "reserved", so the step from *)
(* there to "submitting" is taken once; and a snapshot that is still fresh *)
(* proves that the rows are those the handler accepted when it prepared.   *)
(***************************************************************************)
EXTENDS DiscoveryIngestion, Promotion, TLAPS

USE QueueAssumption

(***************************************************************************)
(* The type invariant.                                                     *)
(***************************************************************************)

LeadershipTypeOK ==
    /\ row \in [epoch : Nat, holder : Runner \cup {NoRunner},
                released : BOOLEAN]
    /\ auth \in [Runner -> Nat]
    /\ written \in Nat

\* The four abstract leadership steps keep their types.
LEMMA LeadershipTypes ==
  ASSUME LeadershipTypeOK, NEW r \in Runner,
         Takeover(r) \/ Forget(r) \/ Resign(r) \/ FencedWrite(r)
         \/ UNCHANGED leadershipVars
  PROVE  LeadershipTypeOK'
<1> USE DEF LeadershipTypeOK
<1>1. CASE Takeover(r)
  BY <1>1, SMTT(30) DEF Takeover
<1>2. CASE Forget(r)
  BY <1>2, ZenonT(30) DEF Forget
<1>3. CASE Resign(r)
  BY <1>3, ZenonT(30) DEF Resign
<1>4. CASE FencedWrite(r)
  BY <1>4, ZenonT(30) DEF FencedWrite
<1>5. CASE UNCHANGED leadershipVars
  BY <1>5, ZenonT(30) DEF leadershipVars
<1> QED
  BY <1>1, <1>2, <1>3, <1>4, <1>5, ZenonT(30)

Record == [status : Status, by : Worker \cup {NoClaim}, at : Nat,
           attempts : Nat]

Label == {"idle", "active", "recover", "claim", "claimed", "handling",
          "waiting", "observed", "committed", "failed", "reject", "release"}

\* Counting one more keeps a counter a counter.
LEMMA Counted ==
  ASSUME NEW f \in [Item -> Nat], NEW i \in Item
  PROVE  [f EXCEPT ![i] = @ + 1] \in [Item -> Nat]
  BY SMTT(30)

\* The rows that completions, releases and recoveries build are rows.
LEMMA UnlockedRecord ==
  ASSUME NEW status \in Status, NEW attempts \in Nat
  PROVE  Unlocked(status, attempts) \in Record
  BY ZenonT(30) DEF Record, Unlocked

\* An UPDATE of the status alone leaves a row.
LEMMA StatusRecord ==
  ASSUME NEW rec \in Record, NEW status \in Status
  PROVE  [rec EXCEPT !.status = status] \in Record
  BY SMTT(30) DEF Record

\* An UPDATE under the lease keeps the table a table.
LEMMA LeaseWrite ==
  ASSUME q \in [Item -> Record], NEW r \in Runner, NEW rec \in Record,
         UnderLease(r, rec)
  PROVE  q' \in [Item -> Record]
  BY ZenonT(30) DEF UnderLease

\* A runner past its claim holds one.
Holding ==
    \A r \in Runner :
        pc[r] \notin {"idle", "active", "recover", "claim"} =>
            held[r] \in Claim

\* A fault stays within the bound on faults.
LEMMA FaultBound ==
  ASSUME faults \in 0..MaxFaults, faults' = faults \/ Fault
  PROVE  faults' \in 0..MaxFaults
  BY SMTT(30) DEF Fault

\* The label of one runner moves, and only a runner that holds a claim moves
\* to a label past the claim.
LEMMA LabelMoves ==
  ASSUME pc \in [Runner -> Label], Holding, held' = held, NEW r \in Runner,
         \/ pc' = pc
         \/ \E l \in {"active", "recover"} : Goto(r, l)
         \/ /\ pc[r] \notin {"idle", "active", "recover", "claim"}
            /\ \E l \in {"handling", "release", "failed", "reject"} : Goto(r, l)
  PROVE  pc' \in [Runner -> Label] /\ Holding'
<1>1. CASE pc' = pc
  BY <1>1, ZenonT(30) DEF Holding
<1>2. CASE \E l \in {"active", "recover"} : Goto(r, l)
  <2>1. PICK l \in {"active", "recover"} : pc' = [pc EXCEPT ![r] = l]
    BY <1>2, ZenonT(30) DEF Goto
  <2>2. l \in Label
    BY <2>1, ZenonT(30) DEF Label
  <2>3. pc' \in [Runner -> Label] /\ pc'[r] = l /\ \A s \in Runner : s # r => pc'[s] = pc[s]
    BY <2>1, <2>2, ZenonT(30)
  <2> QED
    BY <2>1, <2>3, ZenonT(30) DEF Holding
<1>3. CASE /\ pc[r] \notin {"idle", "active", "recover", "claim"}
           /\ \E l \in {"handling", "release", "failed", "reject"} : Goto(r, l)
  <2>1. PICK l \in {"handling", "release", "failed", "reject"} : pc' = [pc EXCEPT ![r] = l]
    BY <1>3, ZenonT(30) DEF Goto
  <2>2. l \in Label
    BY <2>1, ZenonT(30) DEF Label
  <2>3. pc' \in [Runner -> Label] /\ \A s \in Runner : s # r => pc'[s] = pc[s]
    BY <2>1, <2>2, ZenonT(30)
  <2>4. held[r] \in Claim
    BY <1>3, ZenonT(30) DEF Holding
  <2> QED
    BY <2>3, <2>4, ZenonT(30) DEF Holding
<1> QED
  BY <1>1, <1>2, <1>3, ZenonT(30)

\* A pass that ends leaves its runner idle, with nothing held.
LEMMA PassEnds ==
  ASSUME pc \in [Runner -> Label], pass \in [Runner -> Nat],
         held \in [Runner -> Claim \cup {NoClaim}], Holding, NEW r \in Runner, EndPass(r)
  PROVE  /\ pc' \in [Runner -> Label] /\ pass' \in [Runner -> Nat]
         /\ held' \in [Runner -> Claim \cup {NoClaim}] /\ Holding'
<1>1. "idle" \in Label /\ 0 \in Nat
  BY SMTT(30) DEF Label
<1>2. /\ pc' = [pc EXCEPT ![r] = "idle"] /\ pass' = [pass EXCEPT ![r] = 0]
      /\ held' = [held EXCEPT ![r] = NoClaim]
  BY ZenonT(30) DEF EndPass, Goto
<1>3. pc' \in [Runner -> Label] /\ pc'[r] = "idle" /\ \A s \in Runner : s # r => pc'[s] = pc[s]
  BY <1>1, <1>2, ZenonT(30)
<1>4. held' \in [Runner -> Claim \cup {NoClaim}] /\ \A s \in Runner : s # r => held'[s] = held[s]
  BY <1>2, ZenonT(30)
<1>5. pass' \in [Runner -> Nat]
  BY <1>1, <1>2, ZenonT(30)
<1>6. Holding'
  BY <1>3, <1>4, ZenonT(30) DEF Holding
<1> QED
  BY <1>3, <1>4, <1>5, <1>6, ZenonT(30)

Typed == QueueTypeOK /\ Holding

\* The runners leave the operator's selection alone.
LEMMA RunnersPickNothing ==
  ASSUME NEW r \in Runner,
         RunScheduler(r) \/ LoopStep(r) \/ Handler(r) \/ LeaderStep(r)
  PROVE  picked' = picked
<1>1. CASE RunScheduler(r) \/ Handler(r) \/ LeaderStep(r)
  BY <1>1, ZenonT(30) DEF RunScheduler, Handler, LeaderStep, HandlerCommits, HandlerCommitUnacknowledged,
    HandlerFails, TakeOver, LoseAuthority, Exit, Close, itemVars
<1>2. CASE LoopStep(r)
  BY <1>2, ZenonT(30) DEF LoopStep, StartPass, SkipScheduler, RecoverStale, ClaimNext, ClaimsNothing,
    PassRejected, ConfirmAuthority, AuthorityChanged, HandlerFenced, HandlerLeaseLost, MarkQueueDone,
    MarkQueueFailedOrRetry, MarkQueueRejected, CompletionFenced, ReleaseQueueClaim, itemVars
<1> QED
  BY <1>1, <1>2, ZenonT(30)

\* Typed is inductive.
LEMMA TypedStep == Typed /\ [QueueNext]_queueVars => Typed'
<1> SUFFICES ASSUME Typed, [QueueNext]_queueVars  PROVE Typed'
  BY ZenonT(30)
<1> USE DEF Typed, QueueTypeOK, Holding
<1>1. CASE UNCHANGED queueVars
  BY <1>1, ZenonT(30) DEF queueVars, Claim
<1>0. ASSUME OperatorCancels  PROVE Typed'
  <2>1. /\ q' = [j \in Item |-> IF j \in picked THEN [q[j] EXCEPT !.status = "cancelled"] ELSE q[j]]
        /\ UNCHANGED <<row, auth, written, stamp, run, effect, unacked, lost, pc, pass, held, faults>>
        /\ picked' \in SUBSET Item
    BY <1>0, ZenonT(30) DEF OperatorCancels, Cancelled, leadershipVars, loopVars
  <2>2. q \in [Item -> Record] /\ "cancelled" \in Status
    BY ZenonT(30) DEF Record, Status, Terminal
  <2>3. \A j \in Item : [q[j] EXCEPT !.status = "cancelled"] \in Record /\ q[j] \in Record
    BY <2>2, StatusRecord, ZenonT(30)
  <2>4. q' \in [Item -> Record]
    BY <2>1, <2>3, ZenonT(30)
  <2> QED
    BY <2>1, <2>4, ZenonT(30) DEF Record
<1>0a. ASSUME (\E items \in SUBSET (Item \ Discovery) : OperatorSelects(items)) \/ OperatorAborts
       PROVE  Typed'
  <2>1. UNCHANGED <<row, auth, written, q, stamp, run, effect, unacked, lost, pc, pass, held, faults>>
    BY <1>0a, ZenonT(30) DEF OperatorSelects, OperatorAborts, leadershipVars, loopVars
  <2>2. (\E items \in SUBSET (Item \ Discovery) : picked' = items) \/ picked' = {}
    BY <1>0a, ZenonT(30) DEF OperatorSelects, OperatorAborts
  <2>3. picked' \in SUBSET Item
    BY <2>2, SMTT(30)
  <2> QED
    BY <2>1, <2>3, ZenonT(30) DEF Claim
<1> SUFFICES ASSUME NEW r \in Runner,
                    RunScheduler(r) \/ LoopStep(r) \/ Handler(r)
                    \/ LeaderStep(r)
             PROVE  Typed'
  BY <1>0, <1>0a, <1>1, ZenonT(30) DEF QueueNext
<1>1a. picked' \in SUBSET Item
  BY RunnersPickNothing, ZenonT(30)
<1>2. LeadershipTypeOK'
  <2>1. LeadershipTypeOK
    BY ZenonT(30) DEF LeadershipTypeOK
  <2>2. \/ Takeover(r) \/ Forget(r) \/ Resign(r) \/ FencedWrite(r)
        \/ UNCHANGED leadershipVars
    BY ZenonT(30) DEF RunScheduler, LoopStep, Handler, LeaderStep, StartPass, SkipScheduler, RecoverStale,
      ClaimNext, ClaimsNothing, PassRejected, ConfirmAuthority, AuthorityChanged, HandlerFenced,
      HandlerLeaseLost, MarkQueueDone, MarkQueueFailedOrRetry, MarkQueueRejected, CompletionFenced,
      ReleaseQueueClaim, HandlerCommits, HandlerCommitUnacknowledged, HandlerFails, TakeOver, LoseAuthority,
      Exit, Close, Fenced, Rejected
  <2> QED
    BY <2>1, <2>2, LeadershipTypes, ZenonT(30)
<1> DEFINE LoopTypeOK == /\ pc \in [Runner -> Label]
                         /\ pass \in [Runner -> Nat]
                         /\ held \in [Runner -> Claim \cup {NoClaim}]
                         /\ Holding
                         /\ faults \in 0..MaxFaults
           ItemTypeOK == /\ q \in [Item -> Record]
                         /\ stamp \in [Item -> Nat]
                         /\ run \in [Item -> {"none", "running", "failed",
                                              "succeeded"}]
                         /\ effect \in [Item -> Nat]
                         /\ unacked \in [Item -> Nat]
                         /\ lost \in SUBSET Item
<1>3. LoopTypeOK /\ ItemTypeOK
  BY ZenonT(30) DEF Label, Record
<1> SUFFICES LoopTypeOK' /\ ItemTypeOK'
  BY <1>2, <1>1a, ZenonT(30) DEF LeadershipTypeOK, Record, Label
<1>4. ASSUME UNCHANGED itemVars,
             \/ StartPass(r) \/ SkipScheduler(r) \/ ConfirmAuthority(r)
             \/ AuthorityChanged(r) \/ HandlerFenced(r)
             \/ CompletionFenced(r) \/ HandlerFails(r) \/ TakeOver(r)
             \/ LoseAuthority(r) \/ Close(r)
      PROVE  LoopTypeOK' /\ ItemTypeOK'
  <2>1. /\ UNCHANGED <<q, stamp, run, effect, unacked, lost, held>>
        /\ pass' = pass \/ pass' = [pass EXCEPT ![r] = auth[r]]
        /\ faults' = faults \/ Fault
        /\ \/ pc' = pc
           \/ \E l \in {"active", "recover"} : Goto(r, l)
           \/ /\ pc[r] \notin {"idle", "active", "recover", "claim"}
              /\ \E l \in {"handling", "release", "failed", "reject"} : Goto(r, l)
    <3>1. CASE StartPass(r) \/ SkipScheduler(r)
      BY <1>4, <3>1, ZenonT(30) DEF StartPass, SkipScheduler, loopVars, itemVars
    <3>2. CASE ConfirmAuthority(r) \/ AuthorityChanged(r)
      <4>1. pc[r] \notin {"idle", "active", "recover", "claim"}
        BY <3>2, ZenonT(30) DEF ConfirmAuthority, AuthorityChanged
      <4> QED
        BY <1>4, <3>2, <4>1, ZenonT(30) DEF ConfirmAuthority, AuthorityChanged, loopVars, itemVars
    <3>3. CASE HandlerFenced(r) \/ HandlerFails(r) \/ CompletionFenced(r)
      <4>1. pc[r] \notin {"idle", "active", "recover", "claim"}
        BY <3>3, ZenonT(30) DEF HandlerFenced, HandlerFails, CompletionFenced
      <4> QED
        BY <1>4, <3>3, <4>1, ZenonT(30) DEF HandlerFenced, HandlerFails, CompletionFenced, loopVars, itemVars
    <3>4. CASE TakeOver(r) \/ LoseAuthority(r) \/ Close(r)
      BY <1>4, <3>4, ZenonT(30) DEF TakeOver, LoseAuthority, Close, loopVars, itemVars
    <3> QED
      BY <1>4, <3>1, <3>2, <3>3, <3>4, ZenonT(30)
  <2>2. pass' \in [Runner -> Nat]
    BY <1>3, <2>1, ZenonT(30)
  <2>3. faults' \in 0..MaxFaults
    BY <1>3, <2>1, FaultBound
  <2>4. pc' \in [Runner -> Label] /\ Holding'
    BY <1>3, <2>1, LabelMoves, ZenonT(30)
  <2> QED
    BY <1>3, <2>1, <2>2, <2>3, <2>4, ZenonT(30)
<1>5. ASSUME ClaimsNothing(r) \/ PassRejected(r) \/ HandlerLeaseLost(r)
             \/ Exit(r)
      PROVE  LoopTypeOK' /\ ItemTypeOK'
  <2>1. /\ EndPass(r) /\ UNCHANGED <<q, stamp, run, effect, unacked>>
        /\ faults' = faults \/ Fault
        /\ lost' = lost \/ (held[r] # NoClaim /\ lost' = lost \cup {held[r].item})
    BY <1>5, ZenonT(30) DEF ClaimsNothing, PassRejected, HandlerLeaseLost, Exit, itemVars
  <2>2. faults' \in 0..MaxFaults
    BY <1>3, <2>1, FaultBound
  <2>3. lost' \in SUBSET Item
    <3>1. held[r] # NoClaim => held[r].item \in Item
      BY <1>3, SMTT(30) DEF Claim
    <3> QED
      BY <1>3, <2>1, <3>1, ZenonT(30)
  <2>4. /\ pc' \in [Runner -> Label] /\ pass' \in [Runner -> Nat]
        /\ held' \in [Runner -> Claim \cup {NoClaim}] /\ Holding'
    BY <1>3, <2>1, PassEnds, ZenonT(30)
  <2> QED
    BY <1>3, <2>1, <2>2, <2>3, <2>4, ZenonT(30)
<1>6. CASE RunScheduler(r)
  <2>1. PICK i \in Item : q' = Enqueued(i)
    BY <1>6, ZenonT(30) DEF RunScheduler
  <2>2. UNCHANGED <<stamp, run, effect, unacked, lost, pass, held, faults>> /\ Goto(r, "recover")
    BY <1>6, ZenonT(30) DEF RunScheduler, loopVars
  <2>3. [q[i] EXCEPT !.status = "queued"] \in Record
    <3>1. q[i] \in Record /\ "queued" \in Status
      BY <1>3, ZenonT(30) DEF Status
    <3> QED
      BY <3>1, StatusRecord, ZenonT(30)
  <2>4. q' = q \/ q' = [q EXCEPT ![i] = [q[i] EXCEPT !.status = "queued"]]
    BY <2>1, ZenonT(30) DEF Enqueued
  <2>5. q' \in [Item -> Record]
    BY <1>3, <2>3, <2>4, ZenonT(30)
  <2>6. pc' \in [Runner -> Label] /\ Holding'
    BY <1>3, <2>2, LabelMoves, ZenonT(30)
  <2> QED
    BY <1>3, <2>2, <2>5, <2>6, ZenonT(30)
<1>7. ASSUME NEW stale \in SUBSET Discovery, RecoverStale(r, stale)
      PROVE  LoopTypeOK' /\ ItemTypeOK'
  <2>1. \A i \in Item : Recovered(i) \in Record
    BY <1>3, UnlockedRecord, ZenonT(30) DEF Recovered, Status, Terminal, Record
  <2> QED
    BY <1>3, <1>7, <2>1, ZenonT(30) DEF RecoverStale, Goto, loopVars, Label
<1>8. ASSUME NEW i \in Item, ClaimNext(r, i)
      PROVE  LoopTypeOK' /\ ItemTypeOK'
  <2>1. WorkerId(r) \in Worker
    BY <1>3, ZenonT(30) DEF WorkerId, Worker
  <2>2. stamp' \in [Item -> Nat] /\ q' \in [Item -> Record]
    BY <1>3, <1>8, <2>1, SMTT(30) DEF ClaimNext, Record, Status
  <2>3. held' \in [Runner -> Claim \cup {NoClaim}] /\ held'[r] \in Claim
    BY <1>3, <1>8, <2>1, <2>2, SMTT(30) DEF ClaimNext, Claim, Record
  <2> QED
    BY <1>3, <1>8, <2>2, <2>3, ZenonT(30) DEF ClaimNext, Goto, Label
<1>9. ASSUME \/ MarkQueueDone(r) \/ MarkQueueFailedOrRetry(r)
             \/ MarkQueueRejected(r) \/ ReleaseQueueClaim(r)
      PROVE  LoopTypeOK' /\ ItemTypeOK'
  <2>1. held[r] \in Claim
    BY <1>3, <1>9, ZenonT(30) DEF MarkQueueDone, MarkQueueFailedOrRetry, MarkQueueRejected, ReleaseQueueClaim
  <2>2. ItemOf(r).attempts \in Nat /\ Refunded(ItemOf(r).attempts) \in Nat
    BY <1>3, <2>1, SMTT(30) DEF ItemOf, Refunded, Claim, Record
  <2>3. \E status \in Status, attempts \in Nat :
            UnderLease(r, Unlocked(status, attempts))
    BY <1>9, <2>2, ZenonT(30) DEF MarkQueueDone, MarkQueueFailedOrRetry, MarkQueueRejected, ReleaseQueueClaim,
      Status, Terminal
  <2>4. q' \in [Item -> Record]
    BY <1>3, <2>3, UnlockedRecord, LeaseWrite, ZenonT(30)
  <2>5. EndPass(r) /\ UNCHANGED <<stamp, run, effect, unacked, lost, faults>>
    BY <1>9, ZenonT(30) DEF MarkQueueDone, MarkQueueFailedOrRetry, MarkQueueRejected, ReleaseQueueClaim
  <2> QED
    BY <1>3, <2>4, <2>5, ZenonT(30) DEF EndPass, Goto, Label, Claim
<1>10. ASSUME HandlerCommits(r) \/ HandlerCommitUnacknowledged(r)
       PROVE  LoopTypeOK' /\ ItemTypeOK'
  <2>1. /\ effect' = [effect EXCEPT ![held[r].item] = @ + 1]
        /\ \/ UNCHANGED unacked
           \/ unacked' = [unacked EXCEPT ![held[r].item] = @ + 1]
    BY <1>10, ZenonT(30) DEF HandlerCommits, HandlerCommitUnacknowledged
  <2>2. /\ UNCHANGED <<q, stamp, run, lost, pass, held>>
        /\ faults' \in 0..MaxFaults
    BY <1>3, <1>10, SMTT(30) DEF HandlerCommits, HandlerCommitUnacknowledged, Fault, loopVars
  <2>3. /\ pc[r] = "handling"
        /\ \E label \in Label : pc' = [pc EXCEPT ![r] = label]
    BY <1>10, ZenonT(30) DEF HandlerCommits, HandlerCommitUnacknowledged, Goto, Label
  <2> QED
    <3>1. held[r].item \in Item
      BY <1>3, <2>3, ZenonT(30) DEF Claim
    <3>2. effect' \in [Item -> Nat] /\ unacked' \in [Item -> Nat]
      <4>1. effect' \in [Item -> Nat]
        BY <1>3, <2>1, <3>1, Counted, SMTT(30)
      <4>2. [unacked EXCEPT ![held[r].item] = @ + 1] \in [Item -> Nat]
        BY <1>3, <3>1, Counted, SMTT(30)
      <4> QED
        BY <1>3, <2>1, <4>1, <4>2, ZenonT(30)
    <3>3. LoopTypeOK'
      BY <1>3, <2>2, <2>3, SMTT(30)
    <3> QED
      BY <1>3, <2>2, <3>1, <3>2, <3>3, ZenonT(30)
<1> QED
  BY <1>4, <1>5, <1>6, <1>7, <1>8, <1>9, <1>10, ZenonT(30) DEF LoopStep, Handler, LeaderStep, StartPass,
    SkipScheduler, ConfirmAuthority, AuthorityChanged, HandlerFenced, CompletionFenced, HandlerFails,
    TakeOver, LoseAuthority, Close

\* QueueTypeOK: rows, loops and claims keep their shape in every behaviour.
THEOREM QueueTypeCorrect == QueueSpec => []QueueTypeOK
<1>1. QueueInit => Typed
  BY SMTT(30) DEF QueueInit, LeadershipInit, NoRow, Typed, QueueTypeOK, Holding, Status, Terminal
<1>2. Typed => QueueTypeOK
  BY ZenonT(30) DEF Typed
<1> QED
  BY <1>1, <1>2, TypedStep, PTL DEF QueueSpec

(***************************************************************************)
(* Leases.  Stamps only grow, so a lease (locked_by, locked_at) identifies *)
(* one claim of one runner; whoever has it knows the row's attempt_count,  *)
(* and may complete the item without asking who leads.                     *)
(***************************************************************************)

RowOK(i) ==
    /\ q[i].at <= stamp[i]
    /\ q[i].status = "absent" => q[i].attempts = 0

HeldOK(r) ==
    held[r] \in Claim =>
        /\ held[r].at <= stamp[held[r].item]
        /\ HasLease(r) => held[r].attempts = q[held[r].item].attempts

Apart(r, s) ==
    /\ held[r] \in Claim /\ held[s] \in Claim
    /\ held[r].item = held[s].item /\ held[r].at = held[s].at
    => r = s

LeaseInv ==
    /\ \A i \in Item : RowOK(i)
    /\ \A r \in Runner : HeldOK(r)
    /\ \A r, s \in Runner : Apart(r, s)

\* An item that was committed and acknowledged is held by a runner that will
\* mark it done, if its lease is held at all.
CommitRow(i) ==
    /\ effect[i] >= unacked[i]
    /\ effect[i] > unacked[i] =>
        effect[i] = unacked[i] + 1 /\ q[i].status \in {"running", "succeeded"}
    /\ q[i].status = "succeeded" => effect[i] > unacked[i]

CommitHeld(r, i) ==
    held[r] \in Claim /\ held[r].item = i /\ HasLease(r) =>
        (pc[r] = "committed" <=> effect[i] > unacked[i])

CommitInv ==
    \A i \in Item \ Discovery :
        CommitRow(i) /\ \A r \in Runner : CommitHeld(r, i)

\* What an open reject request has read is not done, and while it holds the
\* channel nobody can do it.
PickedInv ==
    /\ picked \subseteq Item \ Discovery
    /\ \A i \in picked : ~(effect[i] > unacked[i])

QueueInv == Typed /\ LeaseInv /\ AttemptsBounded /\ CommitInv /\ PickedInv

\* The types the arguments below need.
Shapes ==
    /\ pc \in [Runner -> Label]
    /\ held \in [Runner -> Claim \cup {NoClaim}]
    /\ q \in [Item -> Record]
    /\ stamp \in [Item -> Nat]
    /\ effect \in [Item -> Nat]
    /\ unacked \in [Item -> Nat]
    /\ Holding

LEMMA TypedShapes == Typed => Shapes
  BY ZenonT(30) DEF Typed, QueueTypeOK, Shapes, Label, Record

\* A claim names an item, a stamp and a number of attempts.
LEMMA ClaimFields ==
  ASSUME NEW c \in Claim
  PROVE  c.item \in Item /\ c.at \in Nat /\ c.attempts \in Nat
  BY ZenonT(30) DEF Claim

\* NoClaim is no claim.
LEMMA StillClaimed ==
  ASSUME NEW h, h = NoClaim  PROVE h \notin Claim
  BY ClaimAssumption, ZenonT(30)

(***************************************************************************)
(* Every step but a claim hands out no lease: claims stay or go, and a row *)
(* that changes is not running afterwards.                                 *)
(***************************************************************************)

ClaimsStay == \A s \in Runner : held'[s] \in Claim => held'[s] = held[s]

RowsUnlocked ==
    \A i \in Item :
        \/ q'[i] = q[i]
        \/ /\ q'[i].at \in {0, q[i].at}
           /\ q'[i].status \notin {"running", "absent"}
           /\ q'[i].status = "queued" => q'[i].attempts < MaxAttempts

\* Who has its lease after such a step had it before.
LEMMA LeaseKept ==
  ASSUME Shapes, ClaimsStay, RowsUnlocked,
         NEW s \in Runner, held'[s] \in Claim, HasLease(s)'
  PROVE  /\ HasLease(s) /\ held[s] = held'[s]
         /\ q'[held[s].item] = q[held[s].item]
<1>1. held'[s] = held[s] /\ held[s].item \in Item
  BY ClaimFields, ZenonT(30) DEF ClaimsStay
<1>2. q'[held[s].item].status = "running"
  BY <1>1, ZenonT(30) DEF HasLease
<1>3. q'[held[s].item] = q[held[s].item]
  BY <1>1, <1>2, ZenonT(30) DEF RowsUnlocked
<1> QED
  BY <1>1, <1>3, ZenonT(30) DEF HasLease

\* Such a step keeps leases and attempts in order.
LEMMA LeaseFrame ==
  ASSUME Shapes, LeaseInv, AttemptsBounded, ClaimsStay, RowsUnlocked,
         stamp' = stamp
  PROVE  LeaseInv' /\ AttemptsBounded'
<1>1. ASSUME NEW i \in Item  PROVE RowOK(i)'
  <2>1. RowOK(i) /\ stamp[i] \in Nat
    BY ZenonT(30) DEF LeaseInv, Shapes
  <2>2. CASE q'[i] = q[i]
    BY <2>1, <2>2, ZenonT(30) DEF RowOK
  <2>3. CASE q'[i].at \in {0, q[i].at} /\ q'[i].status # "absent"
    BY <2>1, <2>3, SMTT(30) DEF RowOK
  <2> QED
    BY <2>2, <2>3, ZenonT(30) DEF RowsUnlocked
<1>2. ASSUME NEW s \in Runner  PROVE HeldOK(s)'
  <2> SUFFICES ASSUME held'[s] \in Claim
               PROVE  /\ held'[s].at <= stamp'[held'[s].item]
                      /\ HasLease(s)' =>
                            held'[s].attempts = q'[held'[s].item].attempts
    BY ZenonT(30) DEF HeldOK
  <2>1. held'[s] = held[s] /\ HeldOK(s)
    BY ZenonT(30) DEF ClaimsStay, LeaseInv
  <2>2. held'[s].at <= stamp'[held'[s].item]
    BY <2>1, ZenonT(30) DEF HeldOK
  <2>3. ASSUME HasLease(s)'
        PROVE  held'[s].attempts = q'[held'[s].item].attempts
    <3>1. HasLease(s) /\ q'[held[s].item] = q[held[s].item]
      BY <2>3, LeaseKept, ZenonT(30)
    <3> QED
      BY <2>1, <3>1, ZenonT(30) DEF HeldOK
  <2> QED
    BY <2>2, <2>3, ZenonT(30)
<1>3. ASSUME NEW r \in Runner, NEW s \in Runner  PROVE Apart(r, s)'
  BY ZenonT(30) DEF Apart, LeaseInv, ClaimsStay
<1>4. AttemptsBounded'
  <2> SUFFICES ASSUME NEW i \in Item
               PROVE  /\ q'[i].status = "queued" =>
                            q'[i].attempts < MaxAttempts
                      /\ q'[i].status = "running" =>
                            q'[i].attempts \in 1..MaxAttempts
    BY ZenonT(30) DEF AttemptsBounded
  <2>1. CASE q'[i] = q[i]
    BY <2>1, ZenonT(30) DEF AttemptsBounded
  <2>2. CASE /\ q'[i].status # "running"
             /\ q'[i].status = "queued" => q'[i].attempts < MaxAttempts
    BY <2>2, ZenonT(30)
  <2> QED
    BY <2>1, <2>2, ZenonT(30) DEF RowsUnlocked
<1> QED
  BY <1>1, <1>2, <1>3, <1>4, ZenonT(30) DEF LeaseInv

\* It keeps committed work in order too, if it commits nothing and settles an
\* acknowledged item only as succeeded.
LEMMA CommitFrame ==
  ASSUME Shapes, CommitInv, ClaimsStay, RowsUnlocked,
         effect' = effect, unacked' = unacked,
         \A s \in Runner : held'[s] \in Claim =>
            (pc'[s] = "committed" <=> pc[s] = "committed"),
         \A i \in Item \ Discovery : q'[i] # q[i] =>
            /\ effect[i] > unacked[i] => q'[i].status = "succeeded"
            /\ q'[i].status = "succeeded" => effect[i] > unacked[i]
  PROVE  CommitInv'
<1>1. ASSUME NEW i \in Item \ Discovery  PROVE CommitRow(i)'
  <2>1. CommitRow(i)
    BY ZenonT(30) DEF CommitInv
  <2>2. CASE q'[i] = q[i]
    BY <2>1, <2>2, ZenonT(30) DEF CommitRow
  <2>3. CASE q'[i] # q[i]
    <3>1. /\ effect[i] > unacked[i] => q'[i].status = "succeeded"
          /\ q'[i].status = "succeeded" => effect[i] > unacked[i]
      BY <2>3, ZenonT(30)
    <3> QED
      BY <2>1, <3>1, ZenonT(30) DEF CommitRow
  <2> QED
    BY <2>2, <2>3, ZenonT(30)
<1>2. ASSUME NEW i \in Item \ Discovery, NEW s \in Runner
      PROVE  CommitHeld(s, i)'
  <2> SUFFICES ASSUME held'[s] \in Claim, held'[s].item = i, HasLease(s)'
               PROVE  pc'[s] = "committed" <=> effect[i] > unacked[i]
    BY ZenonT(30) DEF CommitHeld
  <2>1. CommitHeld(s, i) /\ held[s] = held'[s]
    BY ZenonT(30) DEF CommitInv, ClaimsStay
  <2>2. HasLease(s)
    BY LeaseKept, ZenonT(30)
  <2>3. pc[s] = "committed" <=> effect[i] > unacked[i]
    BY <2>1, <2>2, ZenonT(30) DEF CommitHeld
  <2>4. pc'[s] = "committed" <=> pc[s] = "committed"
    BY ZenonT(30)
  <2> QED
    BY <2>3, <2>4, ZenonT(30)
<1> QED
  BY <1>1, <1>2, ZenonT(30) DEF CommitInv

\* Steps that leave items and claims alone, whatever they do to the labels.
LEMMA QuietStep ==
  ASSUME Shapes, LeaseInv, AttemptsBounded, CommitInv, ClaimsStay,
         UNCHANGED <<q, stamp, effect, unacked>>,
         \A s \in Runner : held'[s] \in Claim =>
            (pc'[s] = "committed" <=> pc[s] = "committed")
  PROVE  LeaseInv' /\ AttemptsBounded' /\ CommitInv'
<1>1. RowsUnlocked
  BY ZenonT(30) DEF RowsUnlocked
<1>2. LeaseInv' /\ AttemptsBounded'
  BY <1>1, LeaseFrame, ZenonT(30)
<1>3. CommitInv'
  <2>1. q' = q /\ effect' = effect /\ unacked' = unacked
    BY ZenonT(30)
  <2> QED
    BY <1>1, <2>1, CommitFrame, ZenonT(30)
<1> QED
  BY <1>2, <1>3, ZenonT(30)

(***************************************************************************)
(* A claim writes a new stamp, which no other runner holds.                *)
(***************************************************************************)

\* What a claim does to rows, stamps and runners.
LEMMA ClaimEffect ==
  ASSUME Shapes, NEW r \in Runner, NEW i \in Item, ClaimNext(r, i)
  PROVE  /\ q[i].status = "queued"
         /\ q'[i].status = "running" /\ q'[i].at = stamp[i] + 1
         /\ q'[i].attempts = q[i].attempts + 1
         /\ stamp'[i] = stamp[i] + 1
         /\ \A j \in Item : j # i => q'[j] = q[j] /\ stamp'[j] = stamp[j]
         /\ \A s \in Runner : s # r => held'[s] = held[s] /\ pc'[s] = pc[s]
         /\ held'[r].item = i /\ held'[r].at = stamp[i] + 1
         /\ held'[r].attempts = q[i].attempts + 1
         /\ pc'[r] = "claimed"
         /\ effect' = effect /\ unacked' = unacked
<1>1. stamp' = [stamp EXCEPT ![i] = @ + 1]
  BY ZenonT(30) DEF ClaimNext
<1>2. stamp'[i] = stamp[i] + 1 /\ \A j \in Item : j # i => stamp'[j] = stamp[j]
  BY <1>1, ZenonT(30) DEF Shapes
<1>3. q' = [q EXCEPT ![i] = [status |-> "running", by |-> WorkerId(r),
                             at |-> stamp'[i], attempts |-> @.attempts + 1]]
  BY ZenonT(30) DEF ClaimNext
<1>4. /\ q'[i].status = "running" /\ q'[i].at = stamp'[i]
      /\ q'[i].attempts = q[i].attempts + 1
      /\ \A j \in Item : j # i => q'[j] = q[j]
  BY <1>3, ZenonT(30) DEF Shapes
<1>5. held' = [held EXCEPT ![r] = [item |-> i, by |-> WorkerId(r),
                                   at |-> stamp'[i],
                                   attempts |-> q'[i].attempts]]
  BY ZenonT(30) DEF ClaimNext
<1>6. /\ held'[r].item = i /\ held'[r].at = stamp'[i]
      /\ held'[r].attempts = q'[i].attempts
      /\ \A s \in Runner : s # r => held'[s] = held[s]
  BY <1>5, ZenonT(30) DEF Shapes
<1>7. pc'[r] = "claimed" /\ \A s \in Runner : s # r => pc'[s] = pc[s]
  BY ZenonT(30) DEF ClaimNext, Goto, Shapes
<1>8. q[i].status = "queued" /\ effect' = effect /\ unacked' = unacked
  BY ZenonT(30) DEF ClaimNext
<1> QED
  BY <1>2, <1>4, <1>6, <1>7, <1>8, ZenonT(30)

\* Another runner's claim has an older stamp, and so loses a claimed item.
LEMMA OthersAreOlder ==
  ASSUME Shapes, LeaseInv, NEW r \in Runner, NEW i \in Item, ClaimNext(r, i),
         NEW s \in Runner, s # r, held'[s] \in Claim
  PROVE  /\ held'[s] = held[s] /\ held[s].item \in Item
         /\ held[s].at <= stamp[held[s].item]
         /\ held[s].item = i => held[s].at # stamp[i] + 1
         /\ HasLease(s)' => HasLease(s) /\ held[s].item # i
<1>1. held'[s] = held[s] /\ held[s].item \in Item /\ held[s].at \in Nat
  BY ClaimEffect, ClaimFields, SMTT(30)
<1>2. held[s].at <= stamp[held[s].item] /\ stamp[held[s].item] \in Nat
  BY <1>1, ZenonT(30) DEF LeaseInv, HeldOK, Shapes
<1>3. held[s].item = i => held[s].at # stamp[i] + 1
  BY <1>1, <1>2, SMTT(30)
<1>4. HasLease(s)' => held[s].item # i
  <2>1. q'[i].at = stamp[i] + 1
    BY ClaimEffect, SMTT(30)
  <2> QED
    BY <1>1, <1>3, <2>1, ZenonT(30) DEF HasLease
<1>5. HasLease(s)' => HasLease(s)
  <2>1. held[s].item # i => q'[held[s].item] = q[held[s].item]
    BY <1>1, ClaimEffect, SMTT(30)
  <2> QED
    BY <1>1, <1>4, <2>1, ZenonT(30) DEF HasLease
<1> QED
  BY <1>1, <1>2, <1>3, <1>4, <1>5, ZenonT(30)

\* A claim keeps leases and attempts in order.
LEMMA ClaimKeepsLeases ==
  ASSUME Shapes, LeaseInv, AttemptsBounded, NEW r \in Runner, NEW i \in Item,
         ClaimNext(r, i)
  PROVE  LeaseInv' /\ AttemptsBounded'
<1>0. stamp[i] \in Nat /\ q[i].attempts \in Nat
  BY ZenonT(30) DEF Shapes, Record
<1>1. ASSUME NEW j \in Item  PROVE RowOK(j)'
  <2>1. CASE j = i
    <3>1. q'[i].at = stamp'[i] /\ stamp'[i] \in Nat /\ q'[i].status = "running"
      BY <1>0, ClaimEffect, SMTT(30)
    <3> QED
      BY <2>1, <3>1, SMTT(30) DEF RowOK
  <2>2. CASE j # i
    <3>1. q'[j] = q[j] /\ stamp'[j] = stamp[j] /\ RowOK(j)
      BY <2>2, ClaimEffect, SMTT(30) DEF LeaseInv
    <3> QED
      BY <3>1, ZenonT(30) DEF RowOK
  <2> QED
    BY <2>1, <2>2, ZenonT(30)
<1>2. ASSUME NEW s \in Runner  PROVE HeldOK(s)'
  <2>1. CASE s = r
    <3>1. /\ held'[r].item = i /\ held'[r].at = stamp'[i]
          /\ held'[r].attempts = q'[i].attempts /\ stamp'[i] \in Nat
      BY <1>0, ClaimEffect, SMTT(30)
    <3> QED
      BY <2>1, <3>1, SMTT(30) DEF HeldOK
  <2>2. CASE s # r
    <3> SUFFICES ASSUME held'[s] \in Claim
                 PROVE  /\ held'[s].at <= stamp'[held'[s].item]
                        /\ HasLease(s)' =>
                              held'[s].attempts = q'[held'[s].item].attempts
      BY ZenonT(30) DEF HeldOK
    <3>1. /\ held'[s] = held[s] /\ held[s].item \in Item
          /\ held[s].at <= stamp[held[s].item]
          /\ HasLease(s)' => HasLease(s) /\ held[s].item # i
      BY <2>2, OthersAreOlder, ZenonT(60)
    <3>2. HasLease(s) => held[s].attempts = q[held[s].item].attempts
      BY <3>1, ZenonT(30) DEF LeaseInv, HeldOK
    <3>3. HasLease(s)' => q'[held[s].item] = q[held[s].item]
      BY <3>1, ClaimEffect, SMTT(30)
    <3>4. held[s].at <= stamp'[held[s].item]
      <4>1. CASE held[s].item = i
        <5>1. stamp'[i] = stamp[i] + 1 /\ held[s].at <= stamp[i]
          BY <3>1, <4>1, ClaimEffect, SMTT(30)
        <5>2. held[s].at \in Nat
          BY <3>1, ClaimFields, ZenonT(30)
        <5> QED
          BY <1>0, <4>1, <5>1, <5>2, SMTT(30)
      <4>2. CASE held[s].item # i
        BY <3>1, <4>2, ClaimEffect, SMTT(30)
      <4> QED
        BY <4>1, <4>2, ZenonT(30)
    <3> QED
      BY <3>1, <3>2, <3>3, <3>4, ZenonT(30)
  <2> QED
    BY <2>1, <2>2, ZenonT(30)
<1>3. ASSUME NEW s \in Runner, NEW t \in Runner  PROVE Apart(s, t)'
  <2> SUFFICES ASSUME held'[s] \in Claim, held'[t] \in Claim,
                      held'[s].item = held'[t].item,
                      held'[s].at = held'[t].at
               PROVE  s = t
    BY ZenonT(30) DEF Apart
  <2>1. held'[r].item = i /\ held'[r].at = stamp[i] + 1
    BY ClaimEffect, SMTT(30)
  <2>2. \A u \in Runner : u # r /\ held'[u] \in Claim =>
            /\ held'[u] = held[u]
            /\ held[u].item = i => held[u].at # stamp[i] + 1
    BY OthersAreOlder, SMTT(30)
  <2>3. CASE s # r /\ t # r
    <3>1. Apart(s, t)
      BY ZenonT(30) DEF LeaseInv
    <3> QED
      BY <2>2, <2>3, <3>1, ZenonT(30) DEF Apart
  <2>4. CASE s = r \/ t = r
    BY <2>1, <2>2, <2>4, ZenonT(30)
  <2> QED
    BY <2>3, <2>4, ZenonT(30)
<1>4. AttemptsBounded'
  <2> SUFFICES ASSUME NEW j \in Item
               PROVE  /\ q'[j].status = "queued" =>
                            q'[j].attempts < MaxAttempts
                      /\ q'[j].status = "running" =>
                            q'[j].attempts \in 1..MaxAttempts
    BY ZenonT(30) DEF AttemptsBounded
  <2>1. CASE j = i
    <3>1. q[i].attempts < MaxAttempts
      BY ClaimEffect, SMTT(30) DEF AttemptsBounded
    <3>2. q'[i].status = "running" /\ q'[i].attempts = q[i].attempts + 1
      BY ClaimEffect, SMTT(30)
    <3> QED
      BY <1>0, <2>1, <3>1, <3>2, SMTT(30)
  <2>2. CASE j # i
    <3>1. q'[j] = q[j]
      BY <2>2, ClaimEffect, SMTT(30)
    <3> QED
      BY <3>1, ZenonT(30) DEF AttemptsBounded
  <2> QED
    BY <2>1, <2>2, ZenonT(30)
<1> QED
  BY <1>1, <1>2, <1>3, <1>4, ZenonT(30) DEF LeaseInv

\* A claimed item was not committed and acknowledged.
LEMMA ClaimKeepsCommits ==
  ASSUME Shapes, LeaseInv, CommitInv, NEW r \in Runner, NEW i \in Item,
         ClaimNext(r, i)
  PROVE  CommitInv'
<1>1. /\ q[i].status = "queued" /\ q'[i].status = "running"
      /\ effect' = effect /\ unacked' = unacked /\ pc'[r] = "claimed"
      /\ held'[r].item = i
  BY ClaimEffect, SMTT(30)
<1>2. ASSUME NEW j \in Item \ Discovery
      PROVE  /\ CommitRow(j)'
             /\ j = i => ~(effect[j] > unacked[j])
  <2>1. CommitRow(j)
    BY ZenonT(30) DEF CommitInv
  <2>2. CASE j = i
    BY <1>1, <2>1, <2>2, ZenonT(30) DEF CommitRow
  <2>3. CASE j # i
    <3>1. q'[j] = q[j]
      BY <2>3, ClaimEffect, SMTT(30)
    <3> QED
      BY <1>1, <2>1, <2>3, <3>1, ZenonT(30) DEF CommitRow
  <2> QED
    BY <2>2, <2>3, ZenonT(30)
<1>3. ASSUME NEW j \in Item \ Discovery, NEW s \in Runner
      PROVE  CommitHeld(s, j)'
  <2> SUFFICES ASSUME held'[s] \in Claim, held'[s].item = j, HasLease(s)'
               PROVE  pc'[s] = "committed" <=> effect[j] > unacked[j]
    BY <1>1, ZenonT(30) DEF CommitHeld
  <2>1. CASE s = r
    <3>1. ~(effect[j] > unacked[j])
      BY <1>1, <1>2, <2>1, ZenonT(30)
    <3> QED
      BY <1>1, <2>1, <3>1, ZenonT(30)
  <2>2. CASE s # r
    <3>1. /\ held'[s] = held[s] /\ HasLease(s)' => HasLease(s)
      BY <2>2, OthersAreOlder, ZenonT(30)
    <3>2. held'[s] = held[s] /\ pc'[s] = pc[s] /\ CommitHeld(s, j)
      BY <2>2, ClaimEffect, SMTT(30) DEF CommitInv
    <3> QED
      BY <3>1, <3>2, ZenonT(30) DEF CommitHeld
  <2> QED
    BY <2>1, <2>2, ZenonT(30)
<1> QED
  BY <1>2, <1>3, ZenonT(30) DEF CommitInv

(***************************************************************************)
(* A handler's commit happens under the lease, before any other.           *)
(***************************************************************************)

\* What a handler's commit does.
LEMMA CommitEffect ==
  ASSUME Shapes, NEW r \in Runner,
         HandlerCommits(r) \/ HandlerCommitUnacknowledged(r)
  PROVE  /\ q' = q /\ stamp' = stamp /\ held' = held
         /\ pc[r] = "handling" /\ held[r] \in Claim
         /\ held[r].item \in Item \ Discovery /\ HasLease(r)
         /\ effect'[held[r].item] = effect[held[r].item] + 1
         /\ \A j \in Item : j # held[r].item =>
                effect'[j] = effect[j] /\ unacked'[j] = unacked[j]
         /\ \A s \in Runner : s # r => pc'[s] = pc[s]
         /\ \/ /\ unacked'[held[r].item] = unacked[held[r].item]
               /\ pc'[r] = "committed"
            \/ /\ unacked'[held[r].item] = unacked[held[r].item] + 1
               /\ pc'[r] # "committed"
<1>1. /\ q' = q /\ stamp' = stamp /\ held' = held
      /\ pc[r] = "handling" /\ held[r].item \notin Discovery /\ HasLease(r)
  BY ZenonT(30) DEF HandlerCommits, HandlerCommitUnacknowledged, loopVars
<1>2. held[r] \in Claim /\ held[r].item \in Item
  BY <1>1, ClaimFields, ZenonT(30) DEF Shapes, Holding
<1>3. effect' = [effect EXCEPT ![held[r].item] = @ + 1]
  BY ZenonT(30) DEF HandlerCommits, HandlerCommitUnacknowledged
<1>4. \/ unacked' = unacked /\ pc' = [pc EXCEPT ![r] = "committed"]
      \/ /\ unacked' = [unacked EXCEPT ![held[r].item] = @ + 1]
         /\ \E label \in {"failed", "release"} :
                pc' = [pc EXCEPT ![r] = label]
  BY ZenonT(30) DEF HandlerCommits, HandlerCommitUnacknowledged, Goto
<1>5. /\ effect'[held[r].item] = effect[held[r].item] + 1
      /\ \A j \in Item : j # held[r].item => effect'[j] = effect[j]
  BY <1>2, <1>3, ZenonT(30) DEF Shapes
<1>6. /\ \A j \in Item : j # held[r].item => unacked'[j] = unacked[j]
      /\ \A s \in Runner : s # r => pc'[s] = pc[s]
  BY <1>2, <1>4, ZenonT(30) DEF Shapes
<1>7. \/ /\ unacked'[held[r].item] = unacked[held[r].item]
         /\ pc'[r] = "committed"
      \/ /\ unacked'[held[r].item] = unacked[held[r].item] + 1
         /\ pc'[r] # "committed"
  BY <1>2, <1>4, ZenonT(30) DEF Shapes
<1> QED
  BY <1>1, <1>2, <1>5, <1>6, <1>7, ZenonT(30)

\* Two runners never have the lease of one item.
LEMMA OneLease ==
  ASSUME LeaseInv, NEW r \in Runner, NEW s \in Runner,
         held[r] \in Claim, held[s] \in Claim, HasLease(r), HasLease(s),
         held[r].item = held[s].item
  PROVE  r = s
<1>1. Apart(r, s)
  BY ZenonT(30) DEF LeaseInv
<1>2. held[r].at = held[s].at
  BY ZenonT(30) DEF HasLease
<1> QED
  BY <1>1, <1>2, ZenonT(30) DEF Apart

\* A handler's commit keeps committed work in order.
LEMMA CommitKeepsCommits ==
  ASSUME Shapes, LeaseInv, CommitInv, NEW r \in Runner,
         HandlerCommits(r) \/ HandlerCommitUnacknowledged(r)
  PROVE  CommitInv'
<1> DEFINE i == held[r].item
<1>1. /\ q' = q /\ held' = held /\ pc[r] = "handling" /\ held[r] \in Claim
      /\ i \in Item \ Discovery /\ HasLease(r)
      /\ effect'[i] = effect[i] + 1
      /\ \/ unacked'[i] = unacked[i] /\ pc'[r] = "committed"
         \/ unacked'[i] = unacked[i] + 1 /\ pc'[r] # "committed"
  BY CommitEffect, ZenonT(30)
<1>2. effect[i] \in Nat /\ unacked[i] \in Nat
  BY <1>1, ZenonT(30) DEF Shapes
<1>3. effect[i] = unacked[i] /\ q[i].status = "running"
  <2>1. CommitRow(i) /\ CommitHeld(r, i)
    BY <1>1, ZenonT(30) DEF CommitInv
  <2>2. effect[i] >= unacked[i]
    BY <2>1, ZenonT(30) DEF CommitRow
  <2>3. ~(effect[i] > unacked[i])
    BY <1>1, <2>1, ZenonT(30) DEF CommitHeld
  <2>4. q[i].status = "running"
    BY <1>1, ZenonT(30) DEF HasLease
  <2> QED
    BY <1>2, <2>2, <2>3, <2>4, SMTT(30)
<1>4. /\ effect'[i] >= unacked'[i]
      /\ effect'[i] > unacked'[i] => effect'[i] = unacked'[i] + 1
      /\ pc'[r] = "committed" <=> effect'[i] > unacked'[i]
  BY <1>1, <1>2, <1>3, SMTT(30)
<1>5. ASSUME NEW j \in Item \ Discovery  PROVE CommitRow(j)'
  <2>1. CASE j = i
    BY <1>1, <1>3, <1>4, <2>1, ZenonT(30) DEF CommitRow
  <2>2. CASE j # i
    <3>1. effect'[j] = effect[j] /\ unacked'[j] = unacked[j] /\ CommitRow(j)
      BY <2>2, CommitEffect, ZenonT(30) DEF CommitInv
    <3> QED
      BY <1>1, <3>1, ZenonT(30) DEF CommitRow
  <2> QED
    BY <2>1, <2>2, ZenonT(30)
<1>6. ASSUME NEW j \in Item \ Discovery, NEW s \in Runner
      PROVE  CommitHeld(s, j)'
  <2> SUFFICES ASSUME held[s] \in Claim, held[s].item = j, HasLease(s)
               PROVE  pc'[s] = "committed" <=> effect'[j] > unacked'[j]
    BY <1>1, ZenonT(30) DEF CommitHeld, HasLease
  <2>1. CASE j = i
    <3>1. s = r
      BY <1>1, <2>1, OneLease, ZenonT(30)
    <3> QED
      BY <1>4, <2>1, <3>1, ZenonT(30)
  <2>2. CASE j # i
    <3>1. /\ effect'[j] = effect[j] /\ unacked'[j] = unacked[j]
          /\ pc'[s] = pc[s]
      BY <2>2, CommitEffect, ZenonT(30)
    <3>2. CommitHeld(s, j)
      BY ZenonT(30) DEF CommitInv
    <3> QED
      BY <3>1, <3>2, ZenonT(30) DEF CommitHeld
  <2> QED
    BY <2>1, <2>2, ZenonT(30)
<1> QED
  BY <1>5, <1>6, ZenonT(30) DEF CommitInv

(***************************************************************************)
(* A completion writes under the lease and drops the claim.                *)
(***************************************************************************)

\* The end of a pass drops one claim and keeps the others.
LEMMA EndPassClaims ==
  ASSUME Shapes, NEW r \in Runner, EndPass(r)
  PROVE  /\ ClaimsStay
         /\ \A s \in Runner : held'[s] \in Claim => s # r /\ pc'[s] = pc[s]
<1>1. held'[r] = NoClaim /\ pc'[r] = "idle"
  BY ZenonT(30) DEF EndPass, Goto, Shapes
<1>2. \A s \in Runner : s # r => held'[s] = held[s] /\ pc'[s] = pc[s]
  BY ZenonT(30) DEF EndPass, Goto, Shapes
<1> QED
  BY <1>1, <1>2, StillClaimed, ZenonT(30) DEF ClaimsStay

\* Any completion keeps the invariant.
LEMMA Completion ==
  ASSUME Shapes, LeaseInv, AttemptsBounded, CommitInv,
         NEW r \in Runner, NEW rec \in Record,
         UnderLease(r, rec), EndPass(r),
         UNCHANGED <<stamp, effect, unacked>>, held[r] \in Claim,
         rec.at = 0, rec.status \notin {"running", "absent"},
         HasLease(r) /\ rec.status = "queued" => rec.attempts < MaxAttempts,
         pc[r] = "committed" <=> rec.status = "succeeded"
  PROVE  LeaseInv' /\ AttemptsBounded' /\ CommitInv'
<1>1. held[r].item \in Item
  BY ClaimFields, ZenonT(30)
<1>2. \A i \in Item :
        \/ q'[i] = q[i]
        \/ HasLease(r) /\ i = held[r].item /\ q'[i] = rec
  BY <1>1, ZenonT(30) DEF UnderLease, Shapes
<1>3. RowsUnlocked
  BY <1>2, ZenonT(30) DEF RowsUnlocked
<1>4. ClaimsStay /\ \A s \in Runner : held'[s] \in Claim => pc'[s] = pc[s]
  BY EndPassClaims, ZenonT(30)
<1>5. LeaseInv' /\ AttemptsBounded'
  <2>1. stamp' = stamp
    BY ZenonT(30)
  <2> QED
    BY <1>3, <1>4, <2>1, LeaseFrame, ZenonT(30)
<1>6. ASSUME NEW i \in Item \ Discovery, q'[i] # q[i]
      PROVE  /\ effect[i] > unacked[i] => q'[i].status = "succeeded"
             /\ q'[i].status = "succeeded" => effect[i] > unacked[i]
  <2>1. HasLease(r) /\ i = held[r].item /\ q'[i] = rec
    BY <1>2, <1>6, ZenonT(30)
  <2>2. CommitHeld(r, i)
    BY ZenonT(30) DEF CommitInv
  <2>3. pc[r] = "committed" <=> effect[i] > unacked[i]
    BY <2>1, <2>2, ZenonT(30) DEF CommitHeld
  <2> QED
    BY <2>1, <2>3, ZenonT(30)
<1>7. CommitInv'
  <2>1. effect' = effect /\ unacked' = unacked
    BY ZenonT(30)
  <2> QED
    BY <1>3, <1>4, <1>6, <2>1, CommitFrame, ZenonT(30)
<1> QED
  BY <1>5, <1>7, ZenonT(30)

\* The attempts of a leased row.
LEMMA LeasedAttempts ==
  ASSUME Shapes, LeaseInv, AttemptsBounded, NEW r \in Runner,
         held[r] \in Claim
  PROVE  /\ ItemOf(r).attempts \in Nat
         /\ HasLease(r) => /\ ItemOf(r).attempts \in 1..MaxAttempts
                           /\ ItemOf(r).attempts = held[r].attempts
<1>1. held[r].item \in Item
  BY ClaimFields, ZenonT(30)
<1>2. ItemOf(r).attempts \in Nat
  BY <1>1, ZenonT(30) DEF ItemOf, Shapes, Record
<1>3. HasLease(r) => ItemOf(r).attempts = held[r].attempts
  BY ZenonT(30) DEF LeaseInv, HeldOK, ItemOf
<1>4. HasLease(r) => ItemOf(r).attempts \in 1..MaxAttempts
  BY <1>1, ZenonT(30) DEF HasLease, ItemOf, AttemptsBounded
<1> QED
  BY <1>2, <1>3, <1>4, ZenonT(30)

\* The fields of an unlocked row.
LEMMA UnlockedFields ==
  ASSUME NEW status, NEW attempts
  PROVE  /\ Unlocked(status, attempts).at = 0
         /\ Unlocked(status, attempts).status = status
         /\ Unlocked(status, attempts).attempts = attempts
  BY ZenonT(30) DEF Unlocked

\* Done, retried, rejected or released: each completion keeps the invariant.
LEMMA CompletionSteps ==
  ASSUME Shapes, LeaseInv, AttemptsBounded, CommitInv, NEW r \in Runner,
         \/ MarkQueueDone(r) \/ MarkQueueFailedOrRetry(r)
         \/ MarkQueueRejected(r) \/ ReleaseQueueClaim(r)
  PROVE  LeaseInv' /\ AttemptsBounded' /\ CommitInv'
<1>1. held[r] \in Claim
  BY ZenonT(30) DEF MarkQueueDone, MarkQueueFailedOrRetry, MarkQueueRejected, ReleaseQueueClaim, Shapes,
    Holding
<1>2. EndPass(r) /\ UNCHANGED <<stamp, effect, unacked>>
  BY ZenonT(30) DEF MarkQueueDone, MarkQueueFailedOrRetry, MarkQueueRejected, ReleaseQueueClaim
<1>3. ItemOf(r).attempts \in Nat
  BY <1>1, LeasedAttempts, ZenonT(30)
<1>4. ASSUME NEW status \in Status \ {"running", "absent"},
             NEW attempts \in Nat,
             UnderLease(r, Unlocked(status, attempts)),
             HasLease(r) /\ status = "queued" => attempts < MaxAttempts,
             pc[r] = "committed" <=> status = "succeeded"
      PROVE  LeaseInv' /\ AttemptsBounded' /\ CommitInv'
  <2>1. Unlocked(status, attempts) \in Record
    BY UnlockedRecord, ZenonT(30)
  <2> QED
    BY <1>1, <1>2, <1>4, <2>1, UnlockedFields, Completion, SMTT(30)
<1>5. CASE MarkQueueDone(r)
  <2>1. /\ UnderLease(r, Unlocked("succeeded", ItemOf(r).attempts))
        /\ pc[r] = "committed"
    BY <1>5, ZenonT(30) DEF MarkQueueDone
  <2>2. "succeeded" \in Status \ {"running", "absent"}
    BY ZenonT(30) DEF Status, Terminal
  <2> QED
    BY <1>3, <1>4, <2>1, <2>2, ZenonT(30)
<1>6. CASE MarkQueueFailedOrRetry(r)
  <2> DEFINE status == IF ShouldDeadLetter(held[r].attempts)
                       THEN "dead_lettered" ELSE "queued"
  <2>1. /\ UnderLease(r, Unlocked(status, ItemOf(r).attempts))
        /\ pc[r] # "committed"
    BY <1>6, ZenonT(30) DEF MarkQueueFailedOrRetry
  <2>2. status \in Status \ {"running", "absent"} /\ status # "succeeded"
    BY ZenonT(30) DEF Status, Terminal
  <2>3. HasLease(r) /\ status = "queued" => ItemOf(r).attempts < MaxAttempts
    <3>1. ASSUME HasLease(r), status = "queued"
          PROVE  ItemOf(r).attempts < MaxAttempts
      <4>1. /\ ItemOf(r).attempts \in 1..MaxAttempts
            /\ ItemOf(r).attempts = held[r].attempts
        BY <1>1, <3>1, LeasedAttempts, ZenonT(30)
      <4>2. ~(held[r].attempts >= MaxAttempts)
        BY <3>1, ZenonT(30) DEF ShouldDeadLetter
      <4> QED
        BY <4>1, <4>2, SMTT(30)
    <3> QED
      BY <3>1, ZenonT(30)
  <2> HIDE DEF status
  <2> QED
    BY <1>3, <1>4, <2>1, <2>2, <2>3, ZenonT(30)
<1>7. CASE MarkQueueRejected(r)
  <2>1. /\ UnderLease(r, Unlocked("dead_lettered", ItemOf(r).attempts))
        /\ pc[r] # "committed"
    BY <1>7, ZenonT(30) DEF MarkQueueRejected
  <2>2. "dead_lettered" \in Status \ {"running", "absent"}
    BY ZenonT(30) DEF Status, Terminal
  <2> QED
    BY <1>3, <1>4, <2>1, <2>2, ZenonT(30)
<1>8. CASE ReleaseQueueClaim(r)
  <2>1. /\ UnderLease(r, Unlocked("queued", Refunded(ItemOf(r).attempts)))
        /\ pc[r] # "committed"
    BY <1>8, ZenonT(30) DEF ReleaseQueueClaim
  <2>2. "queued" \in Status \ {"running", "absent"}
    BY ZenonT(30) DEF Status, Terminal
  <2>3. Refunded(ItemOf(r).attempts) \in Nat
    BY <1>3, SMTT(30) DEF Refunded
  <2>4. HasLease(r) => Refunded(ItemOf(r).attempts) < MaxAttempts
    <3>1. HasLease(r) => ItemOf(r).attempts \in 1..MaxAttempts
      BY <1>1, LeasedAttempts, ZenonT(30)
    <3> QED
      BY <3>1, SMTT(30) DEF Refunded
  <2> QED
    BY <1>4, <2>1, <2>2, <2>3, <2>4, ZenonT(30)
<1> QED
  BY <1>5, <1>6, <1>7, <1>8, ZenonT(30)

(***************************************************************************)
(* The remaining writes of rows.                                           *)
(***************************************************************************)

\* Enqueueing touches absent rows only.
LEMMA EnqueueStep ==
  ASSUME Shapes, LeaseInv, AttemptsBounded, CommitInv, NEW r \in Runner,
         RunScheduler(r)
  PROVE  LeaseInv' /\ AttemptsBounded' /\ CommitInv'
<1>1. stamp' = stamp /\ effect' = effect /\ unacked' = unacked /\ held' = held
  BY ZenonT(30) DEF RunScheduler, loopVars
<1>2. \A s \in Runner : pc'[s] = "committed" <=> pc[s] = "committed"
  BY ZenonT(30) DEF RunScheduler, Goto, Shapes
<1>3. PICK i \in Item : q' = Enqueued(i)
  BY ZenonT(30) DEF RunScheduler
<1>4. \A j \in Item :
        \/ q'[j] = q[j]
        \/ /\ q[j].status = "absent" /\ q'[j].status = "queued"
           /\ q'[j].at = q[j].at /\ q'[j].attempts = q[j].attempts
  BY <1>3, ZenonT(60) DEF Enqueued, Shapes, Record
<1>5. RowsUnlocked
  <2>1. \A j \in Item : q[j].status = "absent" => q[j].attempts = 0
    BY ZenonT(30) DEF LeaseInv, RowOK
  <2> QED
    BY <1>4, <2>1, SMTT(30) DEF RowsUnlocked
<1>6. ClaimsStay
  BY <1>1, ZenonT(30) DEF ClaimsStay
<1>7. LeaseInv' /\ AttemptsBounded'
  BY <1>1, <1>5, <1>6, LeaseFrame, ZenonT(30)
<1>8. ASSUME NEW j \in Item \ Discovery, q'[j] # q[j]
      PROVE  ~(effect[j] > unacked[j]) /\ q'[j].status # "succeeded"
  <2>1. CommitRow(j) /\ q[j].status = "absent" /\ q'[j].status = "queued"
    BY <1>4, <1>8, ZenonT(30) DEF CommitInv
  <2> QED
    BY <2>1, ZenonT(30) DEF CommitRow
<1>9. CommitInv'
  BY <1>1, <1>2, <1>5, <1>6, <1>8, CommitFrame, ZenonT(30)
<1> QED
  BY <1>7, <1>9, ZenonT(30)

\* Recovery touches discovery rows only.
LEMMA RecoverStep ==
  ASSUME Shapes, LeaseInv, AttemptsBounded, CommitInv, NEW r \in Runner,
         NEW stale \in SUBSET Discovery, RecoverStale(r, stale)
  PROVE  LeaseInv' /\ AttemptsBounded' /\ CommitInv'
<1>1. stamp' = stamp /\ effect' = effect /\ unacked' = unacked /\ held' = held
  BY ZenonT(30) DEF RecoverStale, loopVars
<1>2. \A s \in Runner : pc'[s] = "committed" <=> pc[s] = "committed"
  BY ZenonT(30) DEF RecoverStale, Goto, Shapes
<1>3. \A i \in Item : q'[i] = IF i \in stale THEN Recovered(i) ELSE q[i]
  BY ZenonT(30) DEF RecoverStale
<1>4. \A i \in Item :
        /\ Recovered(i).at = 0
        /\ Recovered(i).status \notin {"running", "absent"}
        /\ Recovered(i).status = "queued" => Recovered(i).attempts < MaxAttempts
  BY ZenonT(30) DEF Recovered, Unlocked
<1>5. RowsUnlocked
  BY <1>3, <1>4, ZenonT(30) DEF RowsUnlocked
<1>6. ClaimsStay
  BY <1>1, ZenonT(30) DEF ClaimsStay
<1>7. LeaseInv' /\ AttemptsBounded'
  BY <1>1, <1>5, <1>6, LeaseFrame, ZenonT(30)
<1>8. \A j \in Item \ Discovery : q'[j] = q[j]
  BY <1>3, ZenonT(30)
<1>9. CommitInv'
  BY <1>1, <1>2, <1>5, <1>6, <1>8, CommitFrame, ZenonT(30)
<1> QED
  BY <1>7, <1>9, ZenonT(30)

\* The operator cancels nothing that was committed and acknowledged.
LEMMA CancelStep ==
  ASSUME Shapes, LeaseInv, AttemptsBounded, CommitInv, PickedInv, OperatorCancels
  PROVE  LeaseInv' /\ AttemptsBounded' /\ CommitInv'
<1>1. /\ stamp' = stamp /\ effect' = effect /\ unacked' = unacked
      /\ held' = held /\ pc' = pc
  BY ZenonT(30) DEF OperatorCancels, loopVars
<1>2. \A j \in Item :
        \/ q'[j] = q[j]
        \/ j \in picked /\ q'[j].status = "cancelled" /\ q'[j].at = q[j].at
  BY ZenonT(30) DEF OperatorCancels, Cancelled, Shapes, Record
<1>3. RowsUnlocked
  BY <1>2, ZenonT(30) DEF RowsUnlocked
<1>4. ClaimsStay
  BY <1>1, ZenonT(30) DEF ClaimsStay
<1>5. LeaseInv' /\ AttemptsBounded'
  BY <1>1, <1>3, <1>4, LeaseFrame, ZenonT(30)
<1>6. \A j \in Item \ Discovery : q'[j] # q[j] =>
            /\ effect[j] > unacked[j] => q'[j].status = "succeeded"
            /\ q'[j].status = "succeeded" => effect[j] > unacked[j]
  BY <1>2, ZenonT(30) DEF PickedInv
<1>7. CommitInv'
  BY <1>1, <1>3, <1>4, <1>6, CommitFrame, ZenonT(30)
<1> QED
  BY <1>5, <1>7, ZenonT(30)

\* What is read as queued is not done.
LEMMA SelectPicks ==
  ASSUME CommitInv, NEW items \in SUBSET (Item \ Discovery), OperatorSelects(items)
  PROVE  PickedInv'
<1>1. /\ picked' = items /\ effect' = effect /\ unacked' = unacked
      /\ \A i \in items : q[i].status = "queued"
  BY ZenonT(30) DEF OperatorSelects
<1>2. \A i \in items : CommitRow(i)
  BY ZenonT(30) DEF CommitInv
<1>3. \A i \in items : ~(effect[i] > unacked[i])
  BY <1>1, <1>2, ZenonT(30) DEF CommitRow
<1> QED
  BY <1>1, <1>3, ZenonT(30) DEF PickedInv

\* The end of the request leaves nothing selected.
LEMMA RequestEnds ==
  ASSUME OperatorCancels \/ OperatorAborts
  PROVE  PickedInv'
<1>1. picked' = {}
  BY ZenonT(30) DEF OperatorCancels, OperatorAborts
<1> QED
  BY <1>1, ZenonT(30) DEF PickedInv

\* A handler waits for the channel, so nothing selected is done meanwhile.
LEMMA RunnersKeepPicked ==
  ASSUME Shapes, PickedInv, NEW r \in Runner,
         RunScheduler(r) \/ LoopStep(r) \/ Handler(r) \/ LeaderStep(r)
  PROVE  PickedInv'
<1>1. picked' = picked
  BY RunnersPickNothing, ZenonT(30)
<1>2. \A i \in picked : effect'[i] = effect[i] /\ unacked'[i] = unacked[i]
  <2>1. CASE HandlerCommits(r) \/ HandlerCommitUnacknowledged(r)
    <3>1. held[r].item \notin picked
      BY <2>1, ZenonT(30) DEF HandlerCommits, HandlerCommitUnacknowledged, ChannelFree
    <3>2. \A j \in Item : j # held[r].item => effect'[j] = effect[j] /\ unacked'[j] = unacked[j]
      BY <2>1, CommitEffect, ZenonT(30)
    <3> QED
      BY <3>1, <3>2, ZenonT(30) DEF PickedInv
  <2>2. CASE RunScheduler(r) \/ HandlerFails(r) \/ LeaderStep(r)
    BY <2>2, ZenonT(30) DEF RunScheduler, LeaderStep, HandlerFails, TakeOver, LoseAuthority, Exit, Close,
      itemVars
  <2>3. CASE LoopStep(r)
    BY <2>3, ZenonT(30) DEF LoopStep, StartPass, SkipScheduler, RecoverStale, ClaimNext, ClaimsNothing,
      PassRejected, ConfirmAuthority, AuthorityChanged, HandlerFenced, HandlerLeaseLost, MarkQueueDone,
      MarkQueueFailedOrRetry, MarkQueueRejected, CompletionFenced, ReleaseQueueClaim, itemVars
  <2> QED
    BY <2>1, <2>2, <2>3, ZenonT(30) DEF Handler
<1> QED
  BY <1>1, <1>2, ZenonT(30) DEF PickedInv

\* Steps of the loop that only move a label.
LEMMA LabelSteps ==
  ASSUME Shapes, LeaseInv, AttemptsBounded, CommitInv, NEW r \in Runner,
         \/ StartPass(r) \/ SkipScheduler(r) \/ ConfirmAuthority(r)
         \/ AuthorityChanged(r) \/ HandlerFenced(r) \/ CompletionFenced(r)
         \/ HandlerFails(r) \/ TakeOver(r) \/ LoseAuthority(r) \/ Close(r)
  PROVE  LeaseInv' /\ AttemptsBounded' /\ CommitInv'
<1>1. UNCHANGED itemVars /\ held' = held
  BY ZenonT(30) DEF StartPass, SkipScheduler, ConfirmAuthority, AuthorityChanged, HandlerFenced,
    CompletionFenced, HandlerFails, TakeOver, LoseAuthority, Close, loopVars
<1>2. \/ pc' = pc
      \/ /\ pc[r] # "committed"
         /\ \E label \in Label \ {"committed"} : pc' = [pc EXCEPT ![r] = label]
  BY ZenonT(30) DEF StartPass, SkipScheduler, ConfirmAuthority, AuthorityChanged, HandlerFenced,
    CompletionFenced, HandlerFails, TakeOver, LoseAuthority, Close, Goto, Label
<1>3. \A s \in Runner : pc'[s] = "committed" <=> pc[s] = "committed"
  BY <1>2, ZenonT(30) DEF Shapes
<1>4. UNCHANGED <<q, stamp, effect, unacked>> /\ ClaimsStay
  BY <1>1, ZenonT(30) DEF itemVars, ClaimsStay
<1> QED
  BY <1>3, <1>4, QuietStep, ZenonT(30)

\* Steps that end a pass without writing.
LEMMA DroppingSteps ==
  ASSUME Shapes, LeaseInv, AttemptsBounded, CommitInv, NEW r \in Runner,
         ClaimsNothing(r) \/ PassRejected(r) \/ HandlerLeaseLost(r) \/ Exit(r)
  PROVE  LeaseInv' /\ AttemptsBounded' /\ CommitInv'
<1>1. UNCHANGED <<q, stamp, effect, unacked>> /\ EndPass(r)
  BY ZenonT(30) DEF ClaimsNothing, PassRejected, HandlerLeaseLost, Exit, itemVars
<1>2. ClaimsStay /\ \A s \in Runner : held'[s] \in Claim => pc'[s] = pc[s]
  BY <1>1, EndPassClaims, ZenonT(30)
<1> QED
  BY <1>1, <1>2, QuietStep, ZenonT(30)

\* QueueInv is inductive.
LEMMA QueueInvStep == QueueInv /\ [QueueNext]_queueVars => QueueInv'
<1> SUFFICES ASSUME QueueInv, [QueueNext]_queueVars  PROVE QueueInv'
  BY ZenonT(30)
<1> DEFINE Goal == LeaseInv' /\ AttemptsBounded' /\ CommitInv'
<1>1. Typed' /\ Shapes
  BY TypedStep, TypedShapes, ZenonT(30) DEF QueueInv
<1>2. LeaseInv /\ AttemptsBounded /\ CommitInv /\ PickedInv
  BY ZenonT(30) DEF QueueInv
<1>3. CASE UNCHANGED queueVars
  <2>1. UNCHANGED <<q, stamp, effect, unacked, held, pc, picked>>
    BY <1>3, ZenonT(30) DEF queueVars
  <2>2. ClaimsStay /\ PickedInv'
    BY <1>2, <2>1, ZenonT(30) DEF ClaimsStay, PickedInv
  <2> QED
    BY <1>1, <1>2, <2>1, <2>2, QuietStep, ZenonT(30) DEF QueueInv
<1>4. ASSUME OperatorCancels  PROVE Goal
  BY <1>1, <1>2, <1>4, CancelStep, ZenonT(30)
<1>4a. ASSUME (\E items \in SUBSET (Item \ Discovery) : OperatorSelects(items)) \/ OperatorAborts
       PROVE  Goal
  <2>1. UNCHANGED <<q, stamp, effect, unacked, held, pc>>
    BY <1>4a, ZenonT(30) DEF OperatorSelects, OperatorAborts, loopVars
  <2>2. ClaimsStay
    BY <2>1, ZenonT(30) DEF ClaimsStay
  <2> QED
    BY <1>1, <1>2, <2>1, <2>2, QuietStep, ZenonT(30)
<1>4b. QueueNext => PickedInv'
  BY <1>1, <1>2, RunnersKeepPicked, SelectPicks, RequestEnds, ZenonT(30) DEF QueueNext
<1>5. ASSUME NEW r \in Runner, RunScheduler(r)  PROVE Goal
  BY <1>1, <1>2, <1>5, EnqueueStep, ZenonT(30)
<1>6. ASSUME NEW r \in Runner, LoopStep(r)  PROVE Goal
  <2>1. ASSUME NEW stale \in SUBSET Discovery, RecoverStale(r, stale)
        PROVE  Goal
    BY <1>1, <1>2, <2>1, RecoverStep, ZenonT(30)
  <2>2. ASSUME NEW i \in Item, ClaimNext(r, i)  PROVE Goal
    BY <1>1, <1>2, <2>2, ClaimKeepsLeases, ClaimKeepsCommits, ZenonT(30)
  <2>3. CASE \/ StartPass(r) \/ SkipScheduler(r) \/ ConfirmAuthority(r)
             \/ AuthorityChanged(r) \/ HandlerFenced(r) \/ CompletionFenced(r)
    BY <1>1, <1>2, <2>3, LabelSteps, ZenonT(30)
  <2>4. CASE ClaimsNothing(r) \/ PassRejected(r) \/ HandlerLeaseLost(r)
    BY <1>1, <1>2, <2>4, DroppingSteps, ZenonT(30)
  <2>5. CASE \/ MarkQueueDone(r) \/ MarkQueueFailedOrRetry(r)
             \/ MarkQueueRejected(r) \/ ReleaseQueueClaim(r)
    BY <1>1, <1>2, <2>5, CompletionSteps, ZenonT(30)
  <2> HIDE DEF Goal
  <2> QED
    BY <1>6, <2>1, <2>2, <2>3, <2>4, <2>5, ZenonT(30) DEF LoopStep
<1>7. ASSUME NEW r \in Runner, Handler(r)  PROVE Goal
  <2>1. CASE HandlerCommits(r) \/ HandlerCommitUnacknowledged(r)
    <3>1. CommitInv'
      BY <1>1, <1>2, <2>1, CommitKeepsCommits, ZenonT(30)
    <3>2. ClaimsStay /\ RowsUnlocked /\ stamp' = stamp
      BY <1>1, <2>1, CommitEffect, ZenonT(30) DEF ClaimsStay, RowsUnlocked
    <3> QED
      BY <1>1, <1>2, <3>1, <3>2, LeaseFrame, ZenonT(30)
  <2>2. CASE HandlerFails(r)
    BY <1>1, <1>2, <2>2, LabelSteps, ZenonT(30)
  <2> QED
    BY <1>7, <2>1, <2>2, ZenonT(30) DEF Handler
<1>8. ASSUME NEW r \in Runner, LeaderStep(r)  PROVE Goal
  <2>1. CASE TakeOver(r) \/ LoseAuthority(r) \/ Close(r)
    BY <1>1, <1>2, <2>1, LabelSteps, ZenonT(30)
  <2>2. CASE Exit(r)
    BY <1>1, <1>2, <2>2, DroppingSteps, ZenonT(30)
  <2> QED
    BY <1>8, <2>1, <2>2, ZenonT(30) DEF LeaderStep
<1> HIDE DEF Goal
<1>9. QueueNext => Goal
  BY <1>4, <1>4a, <1>5, <1>6, <1>7, <1>8, ZenonT(30) DEF QueueNext
<1>10. QueueNext => LeaseInv' /\ AttemptsBounded' /\ CommitInv'
  BY <1>9, ZenonT(30) DEF Goal
<1> QED
  BY <1>1, <1>3, <1>10, <1>4b, ZenonT(30) DEF QueueInv

\* The inductive invariant holds throughout.
THEOREM QueueInvariant == QueueSpec => []QueueInv
<1>1. QueueInit => QueueInv
  <2> SUFFICES ASSUME QueueInit  PROVE QueueInv
    BY ZenonT(30)
  <2> USE DEF QueueInit
  <2>1. Typed
    BY SMTT(30) DEF LeadershipInit, NoRow, Typed, QueueTypeOK, Holding, Status, Terminal
  <2>2. LeaseInv
    BY ClaimAssumption, SMTT(30) DEF LeaseInv, RowOK, HeldOK, Apart
  <2>3. AttemptsBounded
    BY ZenonT(30) DEF AttemptsBounded
  <2>4. CommitInv
    BY ClaimAssumption, SMTT(30) DEF CommitInv, CommitRow, CommitHeld
  <2>5. PickedInv
    BY ZenonT(30) DEF PickedInv
  <2> QED
    BY <2>1, <2>2, <2>3, <2>4, <2>5, ZenonT(30) DEF QueueInv
<1> QED
  BY <1>1, QueueInvStep, PTL DEF QueueSpec

\* AttemptsBounded: no sequence of claims, retries, refunds and recoveries
\* gives an item more than max_attempts.
THEOREM AttemptsStayBounded == QueueSpec => []AttemptsBounded
<1>1. QueueInv => AttemptsBounded
  BY ZenonT(30) DEF QueueInv
<1> QED
  BY <1>1, QueueInvariant, PTL

\* AcknowledgedWorkIsKept: committed and acknowledged work is never repeated,
\* whoever leads when it completes.
THEOREM AcknowledgedOnce == QueueSpec => []AcknowledgedWorkIsKept
<1>1. QueueInv => AcknowledgedWorkIsKept
  BY ZenonT(30) DEF QueueInv, CommitInv, CommitRow, AcknowledgedWorkIsKept
<1> QED
  BY <1>1, QueueInvariant, PTL

\* SucceededMeansCommitted: no item succeeds without its work committed.
THEOREM SuccessIsCommitted == QueueSpec => []SucceededMeansCommitted
<1>1. ASSUME QueueInv, NEW i \in Item \ Discovery, q[i].status = "succeeded"
      PROVE  effect[i] > 0
  <2>1. effect[i] \in Nat /\ unacked[i] \in Nat
    BY <1>1, ZenonT(30) DEF QueueInv, Typed, QueueTypeOK
  <2>2. effect[i] > unacked[i]
    BY <1>1, ZenonT(30) DEF QueueInv, CommitInv, CommitRow
  <2> QED
    BY <2>1, <2>2, SMTT(30)
<1>2. QueueInv => SucceededMeansCommitted
  BY <1>1, ZenonT(30) DEF SucceededMeansCommitted
<1> QED
  BY <1>2, QueueInvariant, PTL

\* SettledIsFinal: whatever completes, releases, recovers or cancels late, a
\* settled item stays settled and a success stays a success; all that can be
\* overwritten is the dead letter of an item an open reject request had read.
THEOREM SettledForGood == QueueSpec => SettledIsFinal
<1> DEFINE Kept == \A i \in Item : q[i].status \in Terminal =>
                        \/ q'[i] = q[i]
                        \/ /\ q[i].status = "dead_lettered" /\ i \in picked
                           /\ q'[i] = [q[i] EXCEPT !.status = "cancelled"]
<1>1. ASSUME QueueInv, [QueueNext]_queueVars  PROVE Kept
  <2>1. q \in [Item -> Record]
    BY <1>1, ZenonT(30) DEF QueueInv, Typed, QueueTypeOK, Record
  <2>2. CASE UNCHANGED q
    BY <2>2, ZenonT(30)
  <2>3. ASSUME NEW r \in Runner, RunScheduler(r)  PROVE Kept
    BY <2>1, <2>3, ZenonT(30) DEF RunScheduler, Enqueued, Terminal
  <2>4. ASSUME NEW r \in Runner, NEW stale \in SUBSET Discovery,
               RecoverStale(r, stale)
        PROVE  Kept
    BY <2>4, ZenonT(30) DEF RecoverStale, Terminal
  <2>5. ASSUME NEW r \in Runner, NEW i \in Item, ClaimNext(r, i)  PROVE Kept
    BY <2>1, <2>5, ZenonT(30) DEF ClaimNext, Terminal
  <2>6. ASSUME NEW r \in Runner, NEW rec, UnderLease(r, rec)  PROVE Kept
    BY <2>1, <2>6, ZenonT(30) DEF UnderLease, HasLease, Terminal
  <2>7. ASSUME NEW r \in Runner,
               \/ MarkQueueDone(r) \/ MarkQueueFailedOrRetry(r)
               \/ MarkQueueRejected(r) \/ ReleaseQueueClaim(r)
        PROVE  Kept
    BY <2>6, <2>7, ZenonT(30) DEF MarkQueueDone, MarkQueueFailedOrRetry, MarkQueueRejected, ReleaseQueueClaim
  <2>8. CASE OperatorCancels
    <3>1. \A i \in Item : q'[i] = IF i \in picked THEN [q[i] EXCEPT !.status = "cancelled"] ELSE q[i]
      BY <2>8, ZenonT(30) DEF OperatorCancels, Cancelled
    <3>2. \A i \in picked : q[i].status # "succeeded"
      <4>1. \A i \in picked : i \in Item \ Discovery /\ ~(effect[i] > unacked[i])
        BY <1>1, ZenonT(30) DEF QueueInv, PickedInv
      <4> QED
        BY <1>1, <4>1, ZenonT(30) DEF QueueInv, CommitInv, CommitRow
    <3>3. \A i \in Item : q[i].status = "cancelled" => [q[i] EXCEPT !.status = "cancelled"] = q[i]
      BY <2>1, SMTT(30) DEF Record
    <3> QED
      BY <3>1, <3>2, <3>3, ZenonT(30) DEF Terminal
  <2> HIDE DEF Kept
  <2> QED
    BY <1>1, <2>2, <2>3, <2>4, <2>5, <2>7, <2>8, ZenonT(30) DEF QueueNext, queueVars, LoopStep, Handler,
      LeaderStep, StartPass, SkipScheduler, ClaimsNothing, PassRejected, ConfirmAuthority, AuthorityChanged,
      HandlerFenced, HandlerLeaseLost, CompletionFenced, HandlerCommits, HandlerCommitUnacknowledged,
      HandlerFails, TakeOver, LoseAuthority, Exit, Close, OperatorSelects, OperatorAborts, itemVars
<1>2. QueueInv /\ [QueueNext]_queueVars => [Kept]_queueVars
  BY <1>1, ZenonT(30)
<1> QED
  BY <1>2, QueueInvariant, PTL DEF QueueSpec, SettledIsFinal

-----------------------------------------------------------------------------
(* DiscoveryIngestion: a handler that outlives its runner's claim. *)

Shape ==
    /\ DOMAIN q = Item /\ \A i \in Item : DOMAIN q[i] = {"status", "by", "at", "attempts"}
    /\ DOMAIN run = Item /\ DOMAIN pc = Runner /\ DOMAIN held = Runner
    /\ gen \in [Item -> Nat] /\ ingested \in [Item -> Nat]

\* A runner that was told of a success, or has committed after it, works for
\* a run that did succeed.
ToldTheTruth ==
    \A r \in Runner :
        (pc[r] \in {"observed", "committed"} /\ held[r].item \in Discovery) => run[held[r].item] = "succeeded"

\* A generation is claimed by one request.
Generations ==
    /\ \A c \in calls : c.item \in Item /\ c.gen \in Nat /\ c.gen <= gen[c.item]
    /\ \A c \in calls : DOMAIN c = {"item", "by", "at", "attempts", "gen"}
    /\ \A c, d \in calls : (c.item = d.item /\ c.gen = d.gen /\ c.gen # 0) => c = d

DiscoveryInv == Shape /\ IngestedOnce /\ CompletedMeansIngested /\ ToldTheTruth /\ Generations

-----------------------------------------------------------------------------
(* The runner's loop. *)

\* What the loop may do to the queue, the runs and where the runners are.
QueueQuiet ==
    /\ DOMAIN q' = Item /\ \A i \in Item : DOMAIN q'[i] = {"status", "by", "at", "attempts"}
    /\ \A i \in Discovery : q'[i].status = "succeeded" => (q[i].status = "succeeded" \/ run[i] = "succeeded")
RunQuiet ==
    /\ DOMAIN run' = Item
    /\ \A i \in Item : run'[i] = "succeeded" <=> run[i] = "succeeded"
RunnersQuiet ==
    /\ DOMAIN pc' = Runner /\ DOMAIN held' = Runner
    /\ \A r \in Runner : (pc'[r] \in {"observed", "committed"} /\ held'[r].item \in Discovery) =>
            pc[r] \in {"observed", "committed"} /\ held'[r] = held[r]

LEMMA UnlockedShape ==
    ASSUME NEW status, NEW attempts
    PROVE  /\ DOMAIN Unlocked(status, attempts) = {"status", "by", "at", "attempts"}
           /\ Unlocked(status, attempts).status = status
  BY ZenonT(30) DEF Unlocked

\* A pass that ends holds nothing.
LEMMA EndPassQuiet == ASSUME Shape, NEW r \in Runner, EndPass(r)  PROVE RunnersQuiet
  BY ZenonT(30) DEF EndPass, Goto, Shape, RunnersQuiet

LEMMA GotoQuiet ==
    ASSUME Shape, NEW r \in Runner, NEW label, Goto(r, label), UNCHANGED held,
           label \notin {"observed", "committed"} \/ held[r].item \notin Discovery
    PROVE  RunnersQuiet
  BY ZenonT(30) DEF Goto, Shape, RunnersQuiet

\* A completion writes at most the row of the item that is held.
LEMMA LeaseQuiet ==
    ASSUME Shape, NEW r \in Runner, NEW status, NEW attempts, UnderLease(r, Unlocked(status, attempts)),
           (status = "succeeded" /\ held[r].item \in Discovery) => run[held[r].item] = "succeeded"
    PROVE  QueueQuiet
<1>1. CASE UNCHANGED q
  BY <1>1, ZenonT(30) DEF Shape, QueueQuiet
<1>2. CASE q' = [q EXCEPT ![held[r].item] = Unlocked(status, attempts)]
  BY <1>2, UnlockedShape, SMTT(30) DEF Shape, QueueQuiet
<1> QED
  BY <1>1, <1>2, ZenonT(30) DEF UnderLease

LEMMA LoopQuiet ==
    ASSUME Shape, ToldTheTruth, NEW r \in Runner,
           RunScheduler(r) \/ LoopStep(r) \/ Handler(r) \/ LeaderStep(r)
    PROVE  QueueQuiet /\ RunQuiet /\ RunnersQuiet
<1>0. /\ UNCHANGED q => QueueQuiet
      /\ UNCHANGED run => RunQuiet
      /\ UNCHANGED <<pc, held>> => RunnersQuiet
  BY ZenonT(30) DEF Shape, QueueQuiet, RunQuiet, RunnersQuiet
<1>1. CASE RunScheduler(r)
  <2>1. UNCHANGED <<run, held>> /\ Goto(r, "recover") /\ \E i \in Item : q' = Enqueued(i)
    BY <1>1, ZenonT(30) DEF RunScheduler, loopVars
  <2>2. QueueQuiet
    BY <2>1, SMTT(30) DEF Enqueued, Shape, QueueQuiet
  <2> QED
    BY <1>0, <2>1, <2>2, GotoQuiet, ZenonT(30)
<1>2. ASSUME NEW stale \in SUBSET Discovery, RecoverStale(r, stale)  PROVE QueueQuiet /\ RunQuiet /\ RunnersQuiet
  <2>1. /\ q' = [i \in Item |-> IF i \in stale THEN Recovered(i) ELSE q[i]]
        /\ run' = [i \in Item |-> IF i \in stale /\ run[i] = "running" THEN "failed" ELSE run[i]]
        /\ Goto(r, "claim") /\ UNCHANGED held
    BY <1>2, ZenonT(30) DEF RecoverStale, loopVars
  <2>2. RunQuiet
    BY <2>1, ZenonT(30) DEF RunQuiet
  <2>3. \A i : /\ DOMAIN Recovered(i) = {"status", "by", "at", "attempts"}
               /\ Recovered(i).status = "succeeded" => run[i] = "succeeded"
    BY UnlockedShape, SMTT(30) DEF Recovered
  <2>4. QueueQuiet
    BY <2>1, <2>3, ZenonT(30) DEF QueueQuiet, Shape
  <2> QED
    BY <2>1, <2>2, <2>4, GotoQuiet, ZenonT(30)
<1>3. ASSUME NEW i \in Item, ClaimNext(r, i)  PROVE QueueQuiet /\ RunQuiet /\ RunnersQuiet
  <2>1. /\ \E x, y, z : q' = [q EXCEPT ![i] = [status |-> "running", by |-> x, at |-> y, attempts |-> z]]
        /\ Goto(r, "claimed") /\ UNCHANGED run
        /\ \E c : held' = [held EXCEPT ![r] = c]
    BY <1>3, ZenonT(30) DEF ClaimNext
  <2>2. QueueQuiet
    BY <2>1, SMTT(30) DEF QueueQuiet, Shape
  <2>3. RunnersQuiet
    BY <2>1, ZenonT(30) DEF RunnersQuiet, Goto, Shape
  <2> QED
    BY <1>0, <2>1, <2>2, <2>3, ZenonT(30)
<1>4. CASE \/ ClaimsNothing(r) \/ PassRejected(r) \/ HandlerLeaseLost(r) \/ Exit(r)
  BY <1>0, <1>4, EndPassQuiet, ZenonT(30) DEF ClaimsNothing, PassRejected, HandlerLeaseLost, Exit, itemVars
<1>5. CASE StartPass(r) \/ SkipScheduler(r) \/ ConfirmAuthority(r) \/ AuthorityChanged(r)
           \/ HandlerFenced(r) \/ CompletionFenced(r) \/ HandlerFails(r) \/ HandlerCommitUnacknowledged(r)
  <2>1. /\ UNCHANGED <<q, run, held>>
        /\ \E label \in {"active", "recover", "handling", "release", "failed", "reject"} : Goto(r, label)
    BY <1>5, ZenonT(30) DEF StartPass, SkipScheduler, ConfirmAuthority, AuthorityChanged, HandlerFenced,
      CompletionFenced, HandlerFails, HandlerCommitUnacknowledged, itemVars, loopVars
  <2>2. PICK label \in {"active", "recover", "handling", "release", "failed", "reject"} : Goto(r, label)
    BY <2>1, ZenonT(30)
  <2> QED
    BY <1>0, <2>1, <2>2, GotoQuiet, ZenonT(30)
<1>6. CASE HandlerCommits(r)
  <2>1. UNCHANGED <<q, run, held>> /\ Goto(r, "committed") /\ held[r].item \notin Discovery
    BY <1>6, ZenonT(30) DEF HandlerCommits, loopVars
  <2> QED
    BY <1>0, <2>1, GotoQuiet, ZenonT(30)
<1>7. CASE MarkQueueDone(r)
  <2>1. /\ pc[r] = "committed" /\ EndPass(r) /\ UNCHANGED run
        /\ UnderLease(r, Unlocked("succeeded", ItemOf(r).attempts))
    BY <1>7, ZenonT(30) DEF MarkQueueDone
  <2>2. QueueQuiet
    BY <2>1, LeaseQuiet, ZenonT(30) DEF ToldTheTruth
  <2> QED
    BY <1>0, <2>1, <2>2, EndPassQuiet, ZenonT(30)
<1>8. CASE MarkQueueFailedOrRetry(r) \/ MarkQueueRejected(r) \/ ReleaseQueueClaim(r)
  <2>1. /\ EndPass(r) /\ UNCHANGED run
        /\ \E status \in {"dead_lettered", "queued"} : \E attempts : UnderLease(r, Unlocked(status, attempts))
    BY <1>8, ZenonT(30) DEF MarkQueueFailedOrRetry, MarkQueueRejected, ReleaseQueueClaim
  <2>2. PICK status \in {"dead_lettered", "queued"} : \E attempts : UnderLease(r, Unlocked(status, attempts))
    BY <2>1, ZenonT(30)
  <2>3. PICK attempts : UnderLease(r, Unlocked(status, attempts))
    BY <2>2, ZenonT(30)
  <2>4. QueueQuiet
    BY <2>2, <2>3, LeaseQuiet, ZenonT(30)
  <2> QED
    BY <1>0, <2>1, <2>4, EndPassQuiet, ZenonT(30)
<1>9. CASE TakeOver(r) \/ LoseAuthority(r) \/ Close(r)
  BY <1>0, <1>9, ZenonT(30) DEF TakeOver, LoseAuthority, Close, itemVars, loopVars
<1> QED
  BY <1>1, <1>2, <1>3, <1>4, <1>5, <1>6, <1>7, <1>8, <1>9, ZenonT(30) DEF LoopStep, Handler, LeaderStep

\* Whatever is quiet keeps the invariant, as long as requests only end.
LEMMA QuietKeeps ==
    ASSUME DiscoveryInv, QueueQuiet, RunQuiet, RunnersQuiet, UNCHANGED <<gen, ingested>>, calls' \subseteq calls
    PROVE  DiscoveryInv'
<1>1. Shape'
  BY ZenonT(30) DEF DiscoveryInv, Shape, QueueQuiet, RunQuiet, RunnersQuiet
<1>2. IngestedOnce' /\ CompletedMeansIngested'
  BY ZenonT(30) DEF DiscoveryInv, IngestedOnce, CompletedMeansIngested, QueueQuiet, RunQuiet
<1>3. ToldTheTruth'
  BY ZenonT(30) DEF DiscoveryInv, ToldTheTruth, RunQuiet, RunnersQuiet
<1>4. Generations'
  BY ZenonT(30) DEF DiscoveryInv, Generations
<1> QED
  BY <1>1, <1>2, <1>3, <1>4, ZenonT(30) DEF DiscoveryInv

-----------------------------------------------------------------------------
(* The requests. *)

\* An answer moves only a runner that waits for it.
LEMMA AnswerMoves ==
    ASSUME Shape, NEW c, NEW label, Answer(c, label), UNCHANGED held,
           \/ label \notin {"observed", "committed"}
           \/ run'[c.item] = "succeeded",
           \A i \in Item : run[i] = "succeeded" => run'[i] = "succeeded",
           ToldTheTruth
    PROVE  DOMAIN pc' = Runner /\ DOMAIN held' = Runner /\ ToldTheTruth'
<1>1. CASE UNCHANGED pc
  BY <1>1, ZenonT(30) DEF Shape, ToldTheTruth
<1>2. ASSUME NEW r \in Runner, Caller(c, r), Goto(r, label)
      PROVE  DOMAIN pc' = Runner /\ DOMAIN held' = Runner /\ ToldTheTruth'
  <2>1. pc' = [pc EXCEPT ![r] = label] /\ held[r].item = c.item
    BY <1>2, ZenonT(30) DEF Caller, Goto
  <2> QED
    BY <2>1, ZenonT(30) DEF Shape, ToldTheTruth
<1> QED
  BY <1>1, <1>2, ZenonT(30) DEF Answer

\* A request that ends without having written leaves everything as it is.
LEMMA Refusal ==
    ASSUME DiscoveryInv, NEW c \in calls, calls' = calls \ {c}, UNCHANGED <<q, run, held, gen, ingested>>,
           UNCHANGED pc \/ Answer(c, "failed") \/ (Answer(c, "observed") /\ run[c.item] = "succeeded")
    PROVE  DiscoveryInv'
<1>0. Shape /\ ToldTheTruth
  BY ZenonT(30) DEF DiscoveryInv
<1>1. DOMAIN pc' = Runner /\ ToldTheTruth'
  <2>1. CASE UNCHANGED pc
    BY <1>0, <2>1, ZenonT(30) DEF Shape, ToldTheTruth
  <2>2. CASE Answer(c, "failed")
    BY <1>0, <2>2, AnswerMoves, ZenonT(30)
  <2>3. CASE Answer(c, "observed") /\ run[c.item] = "succeeded"
    BY <1>0, <2>3, AnswerMoves, ZenonT(30)
  <2> QED
    BY <2>1, <2>2, <2>3, ZenonT(30)
<1>2. Shape'
  BY <1>0, <1>1, ZenonT(30) DEF Shape
<1>3. IngestedOnce' /\ CompletedMeansIngested'
  BY ZenonT(30) DEF DiscoveryInv, IngestedOnce, CompletedMeansIngested
<1>4. Generations'
  BY ZenonT(30) DEF DiscoveryInv, Generations
<1> QED
  BY <1>1, <1>2, <1>3, <1>4, ZenonT(30) DEF DiscoveryInv

LEMMA Requests == ASSUME DiscoveryInv, NEW c \in calls, PythonStep(c) \/ ApiDies(c)  PROVE DiscoveryInv'
<1>0. Shape /\ ToldTheTruth /\ Generations /\ IngestedOnce /\ CompletedMeansIngested
  BY ZenonT(30) DEF DiscoveryInv
<1>1. c.item \in Item /\ c.gen \in Nat /\ c.gen <= gen[c.item] /\ DOMAIN c = {"item", "by", "at", "attempts", "gen"}
  BY <1>0, ZenonT(30) DEF Generations
<1>2. CASE RefuseIngest(c) \/ ReplaySuccess(c) \/ RunAuthorityChanged(c) \/ ApiDies(c)
  <2>1. /\ calls' = calls \ {c} /\ UNCHANGED <<q, run, held, gen, ingested>>
        /\ UNCHANGED pc \/ Answer(c, "failed") \/ (Answer(c, "observed") /\ run[c.item] = "succeeded")
    BY <1>2, ZenonT(30) DEF RefuseIngest, ReplaySuccess, RunAuthorityChanged, ApiDies, itemVars, loopVars
  <2> QED
    BY <2>1, Refusal, ZenonT(30)
<1>3. CASE ClaimRun(c)
  <2> DEFINE g == gen[c.item] + 1
             d == [c EXCEPT !.gen = g]
  <2>1. /\ run[c.item] # "succeeded" /\ c.gen = 0
        /\ run' = [run EXCEPT ![c.item] = "running"]
        /\ gen' = [gen EXCEPT ![c.item] = @ + 1]
        /\ calls' = (calls \ {c}) \cup {[c EXCEPT !.gen = gen'[c.item]]}
        /\ UNCHANGED <<q, pc, held, ingested>>
    BY <1>3, ZenonT(30) DEF ClaimRun, Claimable, loopVars
  <2>2. gen' \in [Item -> Nat] /\ gen'[c.item] = g /\ \A i \in Item : gen[i] <= gen'[i]
    BY <1>0, <1>1, <2>1, SMTT(30) DEF Shape
  <2>3. calls' = (calls \ {c}) \cup {d}
    BY <2>1, <2>2, ZenonT(30)
  <2>4. RunQuiet
    BY <1>0, <1>1, <2>1, ZenonT(30) DEF Shape, RunQuiet
  <2>5. Shape'
    BY <1>0, <2>1, <2>2, <2>4, ZenonT(30) DEF Shape, RunQuiet
  <2>6. IngestedOnce' /\ CompletedMeansIngested' /\ ToldTheTruth'
    <3>1. IngestedOnce' /\ CompletedMeansIngested'
      BY <1>0, <2>1, <2>4, ZenonT(30) DEF RunQuiet, IngestedOnce, CompletedMeansIngested
    <3>2. ToldTheTruth'
      BY <1>0, <2>1, <2>4, ZenonT(30) DEF RunQuiet, ToldTheTruth
    <3> QED
      BY <3>1, <3>2, ZenonT(30)
  <2>7. d.item = c.item /\ d.gen = g /\ DOMAIN d = {"item", "by", "at", "attempts", "gen"} /\ g \in Nat
    BY <1>0, <1>1, SMTT(30) DEF Shape
  <2> HIDE DEF g, d
  <2>8. \A e \in calls : e.item = c.item => e.gen # g
    BY <1>0, <1>1, <2>7, SMTT(30) DEF Generations, Shape, g
  <2>9. Generations'
    BY <1>0, <1>1, <2>2, <2>3, <2>7, <2>8, SMTT(30) DEF Generations, Shape
  <2> QED
    BY <2>5, <2>6, <2>9, ZenonT(30) DEF DiscoveryInv
<1>4. ASSUME NEW st \in {"succeeded", "failed"}, NEW label,
             OwnsRun(c), run' = [run EXCEPT ![c.item] = st], calls' = calls \ {c}, Answer(c, label),
             UNCHANGED <<q, held, gen>>,
             label = "observed" => st = "succeeded",
             label \in {"observed", "failed"},
             ingested' = IF st = "succeeded" THEN [ingested EXCEPT ![c.item] = @ + 1] ELSE ingested
      PROVE  DiscoveryInv'
  <2>1. run[c.item] = "running"
    BY <1>4, ZenonT(30) DEF OwnsRun
  <2>2. DOMAIN run' = Item /\ run'[c.item] = st /\ \A i \in Item : i # c.item => run'[i] = run[i]
    BY <1>0, <1>1, <1>4, ZenonT(30) DEF Shape
  <2>3. \A i \in Item : run[i] = "succeeded" => run'[i] = "succeeded"
    BY <2>1, <2>2, ZenonT(30)
  <2>4. DOMAIN pc' = Runner /\ ToldTheTruth'
    BY <1>0, <1>4, <2>2, <2>3, AnswerMoves, ZenonT(30)
  <2>5. ingested' \in [Item -> Nat] /\ IngestedOnce'
    BY <1>0, <1>1, <1>4, <2>1, <2>2, SMTT(30) DEF Shape, IngestedOnce
  <2>6. Shape'
    BY <1>0, <1>4, <2>2, <2>4, <2>5, ZenonT(30) DEF Shape
  <2>7. CompletedMeansIngested'
    BY <1>0, <1>4, <2>3, ZenonT(30) DEF CompletedMeansIngested
  <2>8. Generations'
    BY <1>0, <1>4, ZenonT(30) DEF Generations
  <2> QED
    BY <2>4, <2>5, <2>6, <2>7, <2>8, ZenonT(30) DEF DiscoveryInv
<1>5. CASE FinishRun(c)
  <2>1. /\ OwnsRun(c) /\ run' = [run EXCEPT ![c.item] = "succeeded"] /\ calls' = calls \ {c}
        /\ Answer(c, "observed") /\ UNCHANGED <<q, held, gen>>
        /\ ingested' = [ingested EXCEPT ![c.item] = @ + 1]
    BY <1>5, ZenonT(30) DEF FinishRun, loopVars
  <2> QED
    BY <1>4, <2>1, ZenonT(30)
<1>6. CASE FailRun(c)
  <2>1. /\ OwnsRun(c) /\ run' = [run EXCEPT ![c.item] = "failed"] /\ calls' = calls \ {c}
        /\ Answer(c, "failed") /\ UNCHANGED <<q, held, gen, ingested>>
    BY <1>6, ZenonT(30) DEF FailRun, loopVars
  <2> QED
    BY <1>4, <2>1, ZenonT(30)
<1> QED
  BY <1>2, <1>3, <1>5, <1>6, ZenonT(30) DEF PythonStep

LEMMA Sending == ASSUME DiscoveryInv, NEW r \in Runner, SendIngest(r)  PROVE DiscoveryInv'
<1> DEFINE c == [item |-> held[r].item, by |-> held[r].by, at |-> held[r].at, attempts |-> held[r].attempts,
                 gen |-> 0]
<1>1. /\ held[r].item \in Item /\ calls' = calls \cup {c} /\ Goto(r, "waiting")
      /\ UNCHANGED <<q, run, held, gen, ingested>>
  BY ZenonT(30) DEF SendIngest, itemVars, loopVars
<1>2. c.item \in Item /\ c.gen = 0 /\ DOMAIN c = {"item", "by", "at", "attempts", "gen"}
  BY <1>1, ZenonT(30)
<1> HIDE DEF c
<1>3. Shape' /\ IngestedOnce' /\ CompletedMeansIngested'
  BY <1>1, ZenonT(30) DEF DiscoveryInv, Shape, IngestedOnce, CompletedMeansIngested, Goto
<1>4. ToldTheTruth'
  BY <1>1, ZenonT(30) DEF DiscoveryInv, Shape, ToldTheTruth, Goto
<1>5. Generations'
  BY <1>1, <1>2, SMTT(30) DEF DiscoveryInv, Generations, Shape
<1> QED
  BY <1>3, <1>4, <1>5, ZenonT(30) DEF DiscoveryInv

\* A runner that waits or goes on after an answer.
LEMMA Waiting ==
    ASSUME DiscoveryInv, NEW r \in Runner, IngestTimesOut(r) \/ ObserveIngest(r)  PROVE DiscoveryInv'
<1>1. /\ UNCHANGED <<q, run, held, gen, ingested, calls>>
      /\ Goto(r, "failed") \/ (pc[r] = "observed" /\ Goto(r, "committed"))
  BY ZenonT(30) DEF IngestTimesOut, ObserveIngest, itemVars, loopVars, pythonVars
<1>2. QueueQuiet /\ RunQuiet
  BY <1>1, ZenonT(30) DEF DiscoveryInv, Shape, QueueQuiet, RunQuiet
<1>3. RunnersQuiet
  BY <1>1, ZenonT(30) DEF DiscoveryInv, Shape, RunnersQuiet, Goto
<1> QED
  BY <1>1, <1>2, <1>3, QuietKeeps, ZenonT(30)

LEMMA DiscoveryStep == DiscoveryInv /\ [DiscoveryNext]_discoveryVars => DiscoveryInv'
<1> SUFFICES ASSUME DiscoveryInv, [DiscoveryNext]_discoveryVars  PROVE DiscoveryInv'
  BY ZenonT(30)
<1>1. ASSUME NEW r \in Runner, RunScheduler(r) \/ LoopStep(r) \/ Handler(r) \/ LeaderStep(r), UNCHANGED pythonVars
      PROVE  DiscoveryInv'
  <2>1. QueueQuiet /\ RunQuiet /\ RunnersQuiet
    BY <1>1, LoopQuiet, ZenonT(30) DEF DiscoveryInv
  <2> QED
    BY <1>1, <2>1, QuietKeeps, ZenonT(30) DEF pythonVars
<1>2. CASE UNCHANGED discoveryVars
  BY <1>2, ZenonT(30) DEF discoveryVars, queueVars, DiscoveryInv, Shape, IngestedOnce, CompletedMeansIngested,
    ToldTheTruth, Generations
<1> QED
  BY <1>1, <1>2, Requests, Sending, Waiting, ZenonT(30) DEF DiscoveryNext, RunnerStep

LEMMA DiscoveryStart == DiscoveryInit => DiscoveryInv
<1> SUFFICES ASSUME DiscoveryInit  PROVE DiscoveryInv
  BY ZenonT(30)
<1>1. /\ q = [i \in Item |-> [status |-> "absent", by |-> NoClaim, at |-> 0, attempts |-> 0]]
      /\ run = [i \in Item |-> "none"] /\ pc = [r \in Runner |-> "idle"] /\ held = [r \in Runner |-> NoClaim]
      /\ gen = [i \in Item |-> 0] /\ calls = {} /\ ingested = [i \in Item |-> 0]
  BY ZenonT(30) DEF DiscoveryInit, QueueInit
<1>2. Shape
  BY <1>1, ZenonT(30) DEF Shape
<1>3. IngestedOnce /\ CompletedMeansIngested /\ ToldTheTruth /\ Generations
  BY <1>1, ZenonT(30) DEF IngestedOnce, CompletedMeansIngested, ToldTheTruth, Generations
<1> QED
  BY <1>2, <1>3, ZenonT(30) DEF DiscoveryInv

-----------------------------------------------------------------------------

\* The invariant of discovery, and why it is inductive: a run that succeeded
\* stays so, and only the request that holds its generation can finish it.
THEOREM DiscoveryInvariant == DiscoverySpec => []DiscoveryInv
  BY DiscoveryStart, DiscoveryStep, PTL DEF DiscoverySpec

\* The signals of a bucket are committed exactly once for a run that
\* succeeded and never for another (_lock_owned_run and the commit of ingest).
THEOREM SignalsOnce == DiscoverySpec => []IngestedOnce
  BY DiscoveryInvariant, PTL DEF DiscoveryInv

\* A discovery item is marked succeeded, by MarkQueueDone or by the recovery
\* of stale leases, only when its run has succeeded.
THEOREM CompletionsAreTrue == DiscoverySpec => []CompletedMeansIngested
  BY DiscoveryInvariant, PTL DEF DiscoveryInv

\* No two requests in flight can both finish one run (_lock_owned_run).
THEOREM OneOwnerPerRun == DiscoverySpec => []OneRunOwner
<1>1. DiscoveryInv => OneRunOwner
  BY ZenonT(30) DEF DiscoveryInv, Generations, OneRunOwner, OwnsRun
<1> QED
  BY <1>1, DiscoveryInvariant, PTL

\* After a success no request searches again and no recovery reopens the run
\* (_claim_existing, recoverStaleDiscoveryLeases).
THEOREM SuccessEndsTheRun == DiscoverySpec => NoSearchAfterSuccess
<1> DEFINE Stays == \A i \in Item : run[i] = "succeeded" => run'[i] = "succeeded" /\ gen'[i] = gen[i]
<1>1. DiscoveryInv /\ DiscoveryNext => Stays
  <2> SUFFICES ASSUME DiscoveryInv, DiscoveryNext  PROVE Stays
    BY ZenonT(30)
  <2>0. Shape /\ ToldTheTruth /\ Generations
    BY ZenonT(30) DEF DiscoveryInv
  <2>1. ASSUME NEW r \in Runner, RunScheduler(r) \/ LoopStep(r) \/ Handler(r) \/ LeaderStep(r), UNCHANGED pythonVars
        PROVE  Stays
    BY <2>0, <2>1, LoopQuiet, ZenonT(30) DEF pythonVars, RunQuiet
  <2>2. ASSUME NEW r \in Runner, SendIngest(r) \/ IngestTimesOut(r) \/ ObserveIngest(r)  PROVE Stays
    BY <2>2, ZenonT(30) DEF SendIngest, IngestTimesOut, ObserveIngest, itemVars, pythonVars
  <2>3. ASSUME NEW c \in calls, PythonStep(c) \/ ApiDies(c)  PROVE Stays
    <3>0. c.item \in Item
      BY <2>0, ZenonT(30) DEF Generations
    <3>1. CASE ClaimRun(c)
      <4>1. run[c.item] # "succeeded" /\ run' = [run EXCEPT ![c.item] = "running"] /\ gen' = [gen EXCEPT ![c.item] = @ + 1]
        BY <3>1, ZenonT(30) DEF ClaimRun, Claimable
      <4> QED
        BY <2>0, <3>0, <4>1, ZenonT(30) DEF Shape
    <3>2. CASE FinishRun(c) \/ FailRun(c)
      <4>1. /\ UNCHANGED gen /\ run[c.item] = "running"
            /\ \E st : run' = [run EXCEPT ![c.item] = st]
        BY <3>2, ZenonT(30) DEF FinishRun, FailRun, OwnsRun
      <4> QED
        BY <2>0, <3>0, <4>1, ZenonT(30) DEF Shape
    <3>3. CASE RefuseIngest(c) \/ ReplaySuccess(c) \/ RunAuthorityChanged(c) \/ ApiDies(c)
      BY <3>3, ZenonT(30) DEF RefuseIngest, ReplaySuccess, RunAuthorityChanged, ApiDies, itemVars
    <3> QED
      BY <2>3, <3>1, <3>2, <3>3, ZenonT(30) DEF PythonStep
  <2> QED
    BY <2>1, <2>2, <2>3, ZenonT(30) DEF DiscoveryNext, RunnerStep
<1>2. DiscoveryInv /\ [DiscoveryNext]_discoveryVars => [Stays]_discoveryVars
  BY <1>1, ZenonT(30)
<1> HIDE DEF Stays
<1>3. DiscoverySpec => [][Stays]_discoveryVars
  BY <1>2, DiscoveryInvariant, PTL DEF DiscoverySpec
<1> QED
  BY <1>3, ZenonT(30) DEF Stays, NoSearchAfterSuccess

-----------------------------------------------------------------------------
(* Promotion. *)

\* The steps a handler reaches only once a submission has begun.
AfterBegin ==
    {"submit", "await", "reconcile", "status", "confirm", "uncertain", "hold"}

\* The variables of the saga have their shape.
SagaShape ==
    /\ op = [status |-> op.status, item |-> op.item]
    /\ op.status \in OpStatus
    /\ step \in [Runner -> {"none", "prepare", "decide", "begin", "finalize"}
                             \cup AfterBegin]
    /\ fresh \in SUBSET Runner
    /\ posts \in Nat

\* The task and its publication tell the same story.
RowsAgree ==
    /\ pub = "rejected" <=> task = "rejected"
    /\ pub = "scheduled" <=> task = "scheduled"
    /\ pub \in {"uploaded", "rejected", "scheduled"}

\* Nothing was submitted before the operation left "reserved".
Unsubmitted == op.status \in {"none", "reserved"}

SubmissionInv ==
    /\ Unsubmitted => posts = 0 /\ task # "held_uncertain"
    /\ \A r \in Runner : step[r] \in AfterBegin => ~Unsubmitted
    /\ \A r \in Runner : step[r] = "submit" => posts = 0
    /\ \A r, s \in Runner : step[r] = "submit" /\ step[s] = "submit" => r = s
    /\ posts <= 1

\* What the database says of the platform was seen there.
ObservationInv ==
    /\ op.status \in {"confirmed", "finalized"} => remote = "target"
    /\ pub = "scheduled" => remote = "target"
    /\ \A r \in Runner : step[r] = "confirm" => remote = "target"

\* A snapshot is taken of promotable rows only, and no row changes under it.
SnapshotInv ==
    /\ fresh # {} => Promotable
    /\ op.status = "finalized" => pub = "scheduled"

PromotionInv ==
    SagaShape /\ RowsAgree /\ SubmissionInv /\ ObservationInv /\ SnapshotInv

\* The upload leaves rows that satisfy the invariant.
LEMMA PromotionInvInit == PromotionInit => PromotionInv
<1> SUFFICES ASSUME PromotionInit  PROVE PromotionInv
  BY ZenonT(30)
<1> USE DEF PromotionInit
<1>1. SagaShape
  BY ZenonT(30) DEF SagaShape, OpStatus, AfterBegin
<1>2. RowsAgree
  BY ZenonT(30) DEF RowsAgree
<1>3. SubmissionInv
  BY SMTT(30) DEF SubmissionInv, Unsubmitted, AfterBegin
<1>4. ObservationInv
  BY ZenonT(30) DEF ObservationInv
<1>5. SnapshotInv
  BY ZenonT(30) DEF SnapshotInv
<1> QED
  BY <1>1, <1>2, <1>3, <1>4, <1>5, ZenonT(30) DEF PromotionInv

(***************************************************************************)
(* Every step preserves it.  LoopStep and LeaderStep write no row and can  *)
(* only start or leave a handler, so they are not opened.                  *)
(***************************************************************************)

\* PromotionInv is inductive.
LEMMA PromotionInvStep ==
  PromotionInv /\ [PromotionNext]_promotionVars => PromotionInv'
<1> SUFFICES ASSUME PromotionInv, [PromotionNext]_promotionVars
             PROVE  PromotionInv'
  BY ZenonT(30)
<1> USE DEF PromotionInv, SagaShape, RowsAgree, SubmissionInv, ObservationInv,
            SnapshotInv, Unsubmitted, AfterBegin, OpStatus, Promotable
<1>1. CASE UNCHANGED promotionVars
  BY <1>1, ZenonT(30) DEF promotionVars, rowVars, platformVars
<1>2. ASSUME NEW r \in Runner, PromotionLoop(r)  PROVE PromotionInv'
  BY <1>2, SMTT(30) DEF PromotionLoop, rowVars, platformVars
<1>3. ASSUME NEW r \in Runner, PrepareSkips(r)  PROVE PromotionInv'
  BY <1>3, ZenonT(30) DEF PrepareSkips, Return, Leave, rowVars, platformVars
<1>4. ASSUME NEW r \in Runner, PrepareResumes(r)  PROVE PromotionInv'
  BY <1>4, SMTT(30) DEF PrepareResumes, Then, Proceed, Leave, Resume, platformVars
<1>5. ASSUME NEW r \in Runner, PreparePromotion(r)  PROVE PromotionInv'
  BY <1>5, SMTT(30) DEF PreparePromotion, Then, Proceed, Leave, platformVars
<1>6. ASSUME NEW r \in Runner, SafetyHolds(r)  PROVE PromotionInv'
  BY <1>6, ZenonT(30) DEF SafetyHolds, HoldTask, Return, Leave, SnapshotValid, Scoped, platformVars
<1>7. ASSUME NEW r \in Runner, DecisionHolds(r)  PROVE PromotionInv'
  BY <1>7, ZenonT(30) DEF DecisionHolds, HoldTask, Return, Leave, SnapshotValid, platformVars
<1>8. ASSUME NEW r \in Runner, ReservePromotionOperation(r)
      PROVE  PromotionInv'
  BY <1>8, SMTT(30) DEF ReservePromotionOperation, Then, Proceed, Leave, platformVars
<1>9. ASSUME NEW r \in Runner, BeginPromotionSubmission(r)
      PROVE  PromotionInv'
  BY <1>9, SMTT(30) DEF BeginPromotionSubmission, Then, Proceed, Leave, Resume, platformVars
<1>10. ASSUME NEW r \in Runner, SchedulePublish(r)  PROVE PromotionInv'
  BY <1>10, SMTT(30) DEF SchedulePublish, AtStep, Proceed, rowVars
<1>11. ASSUME NEW r \in Runner, ScheduleAccepted(r)  PROVE PromotionInv'
  BY <1>11, ZenonT(30) DEF ScheduleAccepted, AtStep, Proceed, rowVars, platformVars
<1>12. ASSUME NEW r \in Runner, ScheduleFails(r)  PROVE PromotionInv'
  BY <1>12, ZenonT(30) DEF ScheduleFails, AtStep, Proceed, rowVars, platformVars
<1>13. ASSUME NEW r \in Runner, ReconcilePromotionOperation(r)
       PROVE  PromotionInv'
  BY <1>13, SMTT(30) DEF ReconcilePromotionOperation, Phase, AtStep, Then, Proceed, Leave, rowVars,
    platformVars
<1>14. ASSUME NEW r \in Runner, PublicationStatus(r)  PROVE PromotionInv'
  BY <1>14, SMTT(30) DEF PublicationStatus, AtStep, StatusMatches, Proceed, rowVars, platformVars
<1>15. ASSUME NEW r \in Runner, ConfirmPromotionOperation(r)
       PROVE  PromotionInv'
  BY <1>15, SMTT(30) DEF ConfirmPromotionOperation, Phase, AtStep, Then, Proceed, Leave, platformVars
<1>16. ASSUME NEW r \in Runner, MarkPromotionOperationUncertain(r)
       PROVE  PromotionInv'
  BY <1>16, ZenonT(30) DEF MarkPromotionOperationUncertain, Then, Proceed, Leave, platformVars
<1>17. ASSUME NEW r \in Runner, HoldPromotionOperationUncertain(r)
       PROVE  PromotionInv'
  BY <1>17, ZenonT(30) DEF HoldPromotionOperationUncertain, Phase, AtStep, Scoped, SnapshotValid, HoldTask,
    Leave, rowVars, platformVars
<1>18. ASSUME NEW r \in Runner, FinalizePromotionOperation(r)
       PROVE  PromotionInv'
  BY <1>18, ZenonT(30) DEF FinalizePromotionOperation, Published, Return, Leave, rowVars, platformVars
<1>19. ASSUME NEW r \in Runner, PromotionFails(r),
              UNCHANGED <<rowVars, platformVars>>
       PROVE  PromotionInv'
  BY <1>19, ZenonT(30) DEF PromotionFails, Leave, rowVars, platformVars
<1>20. CASE OperatorPromotes
  BY <1>20, ZenonT(30) DEF OperatorPromotes, platformVars
<1>21. CASE OperatorRejects
  BY <1>21, ZenonT(30) DEF OperatorRejects, RejectGuard, platformVars
<1>24. CASE OperatorReads \/ OperatorGivesUp
  BY <1>24, ZenonT(30) DEF OperatorReads, OperatorGivesUp, rowVars, platformVars
<1>22. CASE ManagerApplies
  BY <1>22, ZenonT(30) DEF ManagerApplies, rowVars
<1>23. CASE ManagerLoses
  BY <1>23, ZenonT(30) DEF ManagerLoses, rowVars
<1> HIDE DEF PromotionInv
<1> QED
  BY <1>1, <1>2, <1>3, <1>4, <1>5, <1>6, <1>7, <1>8, <1>9, <1>10, <1>11, <1>12, <1>13, <1>14, <1>15, <1>16,
    <1>17, <1>18, <1>19, <1>20, <1>21, <1>22, <1>23, <1>24, ZenonT(30) DEF PromotionNext, PromotionStep

\* The inductive invariant holds throughout.
THEOREM PromotionInvariant == PromotionSpec => []PromotionInv
  BY PromotionInvInit, PromotionInvStep, PTL DEF PromotionSpec

(***************************************************************************)
(* What follows from it.                                                   *)
(***************************************************************************)

\* SubmittedAtMostOnce: one SchedulePublish call per publication, for any
\* number of attempts, takeovers and lost answers.
THEOREM OneSubmission == PromotionSpec => []SubmittedAtMostOnce
<1>1. PromotionInv => SubmittedAtMostOnce
  BY ZenonT(30) DEF PromotionInv, SubmissionInv, SubmittedAtMostOnce
<1> QED
  BY <1>1, PromotionInvariant, PTL

\* ScheduledMeansPromoted: the database never runs ahead of YouTube.
THEOREM DatabaseFollowsPlatform == PromotionSpec => []ScheduledMeansPromoted
<1>1. PromotionInv => ScheduledMeansPromoted
  BY ZenonT(30) DEF PromotionInv, ObservationInv, ScheduledMeansPromoted
<1> QED
  BY <1>1, PromotionInvariant, PTL

(***************************************************************************)
(* Action properties.  The snapshot comparison, the operation's status and *)
(* the endpoints' guards leave one situation in which a row is written.    *)
(***************************************************************************)

RowWrite ==
    /\ pub = "uploaded"
    /\ op.status # "finalized"
    /\ op.status = "reserved" /\ op'.status = "submitting" =>
            task = "uploaded_private"

\* Rows are written only while the publication is uploaded and its operation
\* open, and a submission begins only for a task that waits for it.
LEMMA RowsWrittenWhileUploaded ==
  ASSUME PromotionInv, [PromotionNext]_promotionVars
  PROVE  UNCHANGED <<op, task, pub>> \/ RowWrite
<1> USE DEF PromotionInv, SagaShape, RowsAgree, SubmissionInv, SnapshotInv,
            Unsubmitted, OpStatus, Promotable, RowWrite
<1>1. CASE UNCHANGED promotionVars
  BY <1>1, ZenonT(30) DEF promotionVars, rowVars
<1>2. ASSUME NEW r \in Runner,
             \/ PromotionLoop(r) \/ PrepareSkips(r) \/ PrepareResumes(r)
             \/ PreparePromotion(r) \/ SchedulePublish(r)
             \/ ScheduleAccepted(r) \/ ScheduleFails(r)
             \/ ReconcilePromotionOperation(r) \/ PublicationStatus(r)
             \/ UNCHANGED <<rowVars, platformVars>>
      PROVE  UNCHANGED <<op, task, pub>>
  BY <1>2, ZenonT(30) DEF PromotionLoop, PrepareSkips, PrepareResumes, PreparePromotion, SchedulePublish,
    ScheduleAccepted, ScheduleFails, ReconcilePromotionOperation, PublicationStatus, rowVars
<1>3. ASSUME NEW r \in Runner, SafetyHolds(r) \/ DecisionHolds(r)
      PROVE  RowWrite
  BY <1>3, ZenonT(30) DEF SafetyHolds, DecisionHolds, HoldTask, Scoped, SnapshotValid
<1>4. ASSUME NEW r \in Runner, ReservePromotionOperation(r)
      PROVE  RowWrite
  BY <1>4, ZenonT(30) DEF ReservePromotionOperation, SnapshotValid
<1>5. ASSUME NEW r \in Runner, BeginPromotionSubmission(r)
      PROVE  RowWrite
  BY <1>5, ZenonT(30) DEF BeginPromotionSubmission, Scoped, SnapshotValid
<1>6. ASSUME NEW r \in Runner,
             \/ ConfirmPromotionOperation(r)
             \/ MarkPromotionOperationUncertain(r)
             \/ FinalizePromotionOperation(r)
      PROVE  RowWrite
  BY <1>6, ZenonT(30) DEF ConfirmPromotionOperation, MarkPromotionOperationUncertain,
    FinalizePromotionOperation, Scoped, SnapshotValid, Published, rowVars
<1>7. ASSUME NEW r \in Runner, HoldPromotionOperationUncertain(r)
      PROVE  RowWrite
  BY <1>7, ZenonT(30) DEF HoldPromotionOperationUncertain, HoldTask, Scoped, SnapshotValid, rowVars
<1>8. CASE OperatorPromotes
  BY <1>8, ZenonT(30) DEF OperatorPromotes
<1>9. CASE OperatorRejects
  <2>1. CASE pub = "rejected"
    BY <1>9, <2>1, ZenonT(30) DEF OperatorRejects
  <2>2. CASE pub # "rejected"
    BY <1>9, <2>2, ZenonT(30) DEF OperatorRejects, RejectGuard
  <2> QED
    BY <2>1, <2>2, ZenonT(30)
<1>10. CASE ManagerApplies \/ ManagerLoses \/ OperatorReads \/ OperatorGivesUp
  BY <1>10, ZenonT(30) DEF ManagerApplies, ManagerLoses, OperatorReads, OperatorGivesUp, rowVars
<1> HIDE DEF PromotionInv, RowWrite
<1> QED
  BY <1>1, <1>2, <1>3, <1>4, <1>5, <1>6, <1>7, <1>8, <1>9, <1>10, ZenonT(30) DEF PromotionNext, PromotionStep

\* RejectionIsFinal: no handler that prepared before the rejection, and no
\* operator request, touches a rejected publication or its task.
THEOREM RejectionsAreFinal == PromotionSpec => RejectionIsFinal
<1>1. PromotionInv /\ [PromotionNext]_promotionVars =>
        [pub = "rejected" => pub' = "rejected" /\ task' = "rejected"
        ]_promotionVars
  BY RowsWrittenWhileUploaded, ZenonT(30) DEF RowWrite, PromotionInv, RowsAgree
<1> QED
  BY <1>1, PromotionInvariant, PTL DEF PromotionSpec, RejectionIsFinal

\* SubmitsOnlyUploaded: the state read when the promotion was prepared still
\* holds when the submission begins.
THEOREM SubmissionsAreCurrent == PromotionSpec => SubmitsOnlyUploaded
<1>1. PromotionInv /\ [PromotionNext]_promotionVars =>
        [op.status = "reserved" /\ op'.status = "submitting" =>
            task = "uploaded_private" /\ pub = "uploaded"]_promotionVars
  BY RowsWrittenWhileUploaded, ZenonT(30) DEF RowWrite
<1> QED
  BY <1>1, PromotionInvariant, PTL DEF PromotionSpec, SubmitsOnlyUploaded

\* FinalizedIsFinal: nothing is written after the operation is finalized.
THEOREM FinalizationsAreFinal == PromotionSpec => FinalizedIsFinal
<1>1. PromotionInv /\ [PromotionNext]_promotionVars =>
        [op.status = "finalized" => UNCHANGED <<op, task, pub>>
        ]_promotionVars
  BY RowsWrittenWhileUploaded, ZenonT(30) DEF RowWrite
<1> QED
  BY <1>1, PromotionInvariant, PTL DEF PromotionSpec, FinalizedIsFinal

==============================================================================
