---------------------------- MODULE DispatchProofs ----------------------------
(***************************************************************************)
(* Proofs about WorkerDispatch, for any job graph and any number of        *)
(* registrations and faults: no task is lost, every output is its claim's, *)
(* and no write is one the row triggers refuse.                            *)
(***************************************************************************)
EXTENDS WorkerDispatch, TLAPS

USE DispatchConstants

LeaseShape ==
    /\ DOMAIN lease = {"epoch", "active", "fresh"}
    /\ lease.epoch \in Nat /\ (lease.active => lease.epoch # 0)

Shape ==
    /\ DOMAIN node = Node /\ \A n \in Node : DOMAIN node[n] = {"status", "retry", "owner"}
    /\ DOMAIN sent = Dispatch /\ DOMAIN res = Dispatch /\ DOMAIN emis = Dispatch
    /\ DOMAIN kind = Dispatch /\ DOMAIN receipt = Dispatch /\ DOMAIN att = Dispatch
    /\ sender \subseteq Dispatch /\ marker \subseteq Dispatch
    /\ tasks \subseteq marker /\ events \subseteq Dispatch

\* Where a dispatch is: its row says delivered only when Redis took the message,
\* and only delivered rows are claimed or acknowledged.
RowInv ==
    \A d \in Dispatch :
        /\ res[d] \in ResolutionState
        /\ att[d] # 0 => sent[d] = "delivered"
        /\ sent[d] = "delivered" => d \in marker
        /\ d \in sender \cup marker => sent[d] \notin {"none", "pending", "cancelled"}
        /\ res[d] = "cancelled" <=> sent[d] = "cancelled"
        /\ res[d] \in {"cancel_authorized", "acknowledged"} => sent[d] = "delivered"

\* Where its outcome is: prepared under the claim, sent, applied, acknowledged.
EventInv ==
    \A d \in Dispatch :
        /\ emis[d] \in EmissionState
        /\ emis[d] = "none" <=> kind[d] = "none"
        /\ kind[d] = "completed" => d \in artifacts
        /\ emis[d] # "none" => att[d] # 0
        /\ d \in events => (emis[d] # "none" /\ receipt[d] # "acknowledged")
        /\ emis[d] = "emitted" => (d \in events \/ receipt[d] # "none")
        /\ emis[d] = "resolved" => receipt[d] = "acknowledged"
        /\ receipt[d] # "none" => emis[d] \in {"emitted", "resolved"}

\* What a node's row says of the node's dispatches.
NodeInv ==
    \A n \in Node :
        /\ node[n].status = "PENDING" => sent[<<n, 0>>] = "none"
        /\ node[n].retry = 0 => sent[<<n, 1>>] = "none"
        /\ node[n].owner # NoClaim =>
              node[n].owner \in Dispatch /\ node[n].owner[1] = n /\ att[node[n].owner] # 0
        /\ node[n].status \in {"PENDING", "QUEUED"} => node[n].owner = NoClaim
        /\ node[n].status = "RUNNING" => node[n].owner # NoClaim /\ receipt[node[n].owner] = "none"

\* Why a dispatch was withdrawn, or its message taken out of Redis.
CancelInv ==
    \A d \in Dispatch :
        /\ res[d] \in {"cancel_authorized", "cancelled"} => emis[d] = "none" /\ (Stopped(d) \/ job = "deleted")
        /\ res[d] = "acknowledged" => (d \in tasks => att[d] = 0) /\ (EventOut(d) \/ Stopped(d) \/ job = "deleted")
        /\ job = "deleted" => Resolved(d)

\* While a cancel request stands between its read and its write, the nodes it
\* will not write are settled, and depend on none it will write.
StopInv ==
    stopping # <<>> =>
        \A n \in Node : n \notin stopping[1] =>
            /\ node[n].status \notin Active
            /\ node[n].status \in {"SUCCEEDED", "FAILED"} => Dep[n] \cap stopping[1] = {}

GraphInv == StopInv /\ DependenciesFirst /\ SettledHasNoActiveNode

DispatchInv ==
    /\ LeaseShape /\ Shape /\ RowInv /\ EventInv /\ NodeInv /\ CancelInv
    /\ NoTaskLost /\ OutputIsFromTheClaim /\ GraphInv

\* No write of this step is one the row triggers refuse.
LetThrough ==
    \A d \in Dispatch : ReceiptTrigger(d) /\ AttestationTrigger(d) /\ EmissionTrigger(d) /\ DispatchTrigger(d)

-----------------------------------------------------------------------------
(* Dispatches, and steps that leave most of the state alone. *)

LEMMA Dispatches ==
    /\ \A n \in Node : <<n, 0>> \in Dispatch /\ <<n, 1>> \in Dispatch
    /\ \A d \in Dispatch : d[1] \in Node /\ d[2] \in {0, 1} /\ d = <<d[1], d[2]>> /\ d # NoClaim
<1>1. \A n \in Node : <<n, 0>> \in Dispatch /\ <<n, 1>> \in Dispatch
  BY ZenonT(30) DEF Dispatch
<1>2. ASSUME NEW d \in Dispatch  PROVE d[1] \in Node /\ d[2] \in {0, 1} /\ d = <<d[1], d[2]>>
  BY SMTT(30) DEF Dispatch
<1>3. ASSUME NEW d \in Dispatch  PROVE d # NoClaim
  <2>1. PICK n \in Node, k \in {0, 1} : d = <<n, k>>
    BY <1>2, ZenonT(30)
  <2>2. <<n, k>> # <<>>
    BY ZenonT(30)
  <2> QED
    BY <2>1, <2>2, ZenonT(30) DEF NoClaim
<1> QED
  BY <1>1, <1>2, <1>3, ZenonT(30)

LEMMA Unpack ==
    ASSUME DispatchInv
    PROVE  /\ LeaseShape /\ Shape /\ RowInv /\ EventInv /\ NodeInv /\ CancelInv
           /\ NoTaskLost /\ OutputIsFromTheClaim /\ GraphInv
  BY ZenonT(30) DEF DispatchInv

LEMMA GraphFrame ==
    ASSUME GraphInv, UNCHANGED <<job, node, stopping>>  PROVE GraphInv'
  BY ZenonT(30) DEF GraphInv, StopInv, DependenciesFirst, SettledHasNoActiveNode

\* Steps of workers and leases that write no row and no message.
LEMMA QuietKeeps ==
    ASSUME DispatchInv, LeaseShape', UNCHANGED <<job, node, stopping, rowVars, redisVars>>
    PROVE  DispatchInv' /\ LetThrough
<1>0. /\ Shape /\ RowInv /\ EventInv /\ NodeInv /\ CancelInv
      /\ NoTaskLost /\ OutputIsFromTheClaim /\ GraphInv
  BY Unpack, ZenonT(30)
<1>1. UNCHANGED <<job, node, stopping>>
  BY ZenonT(30)
<1>2. /\ UNCHANGED sent /\ UNCHANGED res /\ UNCHANGED att /\ UNCHANGED acked /\ UNCHANGED emis
      /\ UNCHANGED kind /\ UNCHANGED receipt /\ UNCHANGED artifacts
  BY ZenonT(30) DEF rowVars
<1>3. UNCHANGED sender /\ UNCHANGED marker /\ UNCHANGED tasks /\ UNCHANGED events
  BY ZenonT(30) DEF redisVars
<1>4. Shape'
  BY <1>0, <1>1, <1>2, <1>3, ZenonT(30) DEF Shape
<1>5. RowInv'
  BY <1>0, <1>2, <1>3, ZenonT(30) DEF RowInv
<1>6. EventInv'
  BY <1>0, <1>2, <1>3, ZenonT(30) DEF EventInv
<1>7. NodeInv'
  BY <1>0, <1>1, <1>2, ZenonT(60) DEF NodeInv
<1>8. CancelInv'
  BY <1>0, <1>1, <1>2, <1>3, ZenonT(30) DEF CancelInv, Stopped, EventOut, Resolved
<1>9. NoTaskLost' /\ OutputIsFromTheClaim'
  BY <1>0, <1>1, <1>2, <1>3, ZenonT(30) DEF NoTaskLost, Stopped, OutputIsFromTheClaim
<1>10. GraphInv'
  BY <1>0, <1>1, GraphFrame, ZenonT(30)
<1>11. LetThrough
  BY <1>2, ZenonT(30) DEF LetThrough, ReceiptTrigger, AttestationTrigger, EmissionTrigger, DispatchTrigger
<1> QED
  BY <1>4, <1>5, <1>6, <1>7, <1>8, <1>9, <1>10, <1>11, ZenonT(30) DEF DispatchInv

\* The lease's own steps.
LEMMA LeaseRecord ==
    ASSUME NEW r, DOMAIN r = {"epoch", "active", "fresh"}, NEW b
    PROVE  /\ [r EXCEPT !.fresh = b].epoch = r.epoch /\ [r EXCEPT !.fresh = b].active = r.active
           /\ [r EXCEPT !.active = b].epoch = r.epoch /\ [r EXCEPT !.active = b].active = b
           /\ DOMAIN [r EXCEPT !.fresh = b] = {"epoch", "active", "fresh"}
           /\ DOMAIN [r EXCEPT !.active = b] = {"epoch", "active", "fresh"}
  BY ZenonT(30)

LEMMA LeaseKeeps ==
    ASSUME LeaseShape, Issue \/ Lapse \/ End \/ LeaseCommit \/ UNCHANGED leaseVars  PROVE LeaseShape'
<1>1. CASE Issue
  <2>1. lease' = [epoch |-> lease.epoch + 1, active |-> TRUE, fresh |-> TRUE]
    BY <1>1, ZenonT(30) DEF Issue
  <2>2. DOMAIN lease' = {"epoch", "active", "fresh"} /\ lease'.epoch = lease.epoch + 1
    BY <2>1, ZenonT(30)
  <2> QED
    BY <2>2, SMTT(30) DEF LeaseShape
<1>2. CASE Lapse
  <2>1. PICK b : b = FALSE
    BY ZenonT(30)
  <2>2. lease' = [lease EXCEPT !.fresh = b]
    BY <1>2, <2>1, ZenonT(30) DEF Lapse
  <2> QED
    BY <2>2, LeaseRecord, ZenonT(30) DEF LeaseShape
<1>3. CASE End
  <2>1. PICK b : b = FALSE
    BY ZenonT(30)
  <2>2. lease' = [lease EXCEPT !.active = b]
    BY <1>3, <2>1, ZenonT(30) DEF End
  <2> QED
    BY <2>1, <2>2, LeaseRecord, ZenonT(30) DEF LeaseShape
<1>4. CASE LeaseCommit \/ UNCHANGED leaseVars
  <2>1. lease' = lease
    BY <1>4, ZenonT(30) DEF LeaseCommit, leaseVars
  <2> QED
    BY <2>1, ZenonT(30) DEF LeaseShape
<1> QED
  BY <1>1, <1>2, <1>3, <1>4, ZenonT(30)

LEMMA WorkerProcessKeeps ==
    ASSUME DispatchInv, StartWorker \/ StopWorker \/ MissHeartbeats \/ Crash \/ \E d \in Dispatch : Abandon(d)
    PROVE  DispatchInv' /\ LetThrough
<1>1. UNCHANGED <<job, node, stopping, rowVars, redisVars>>
  BY ZenonT(30) DEF StartWorker, StopWorker, MissHeartbeats, Crash, Abandon
<1>2. Issue \/ Lapse \/ End \/ UNCHANGED leaseVars
  BY ZenonT(30) DEF StartWorker, StopWorker, MissHeartbeats, Crash, Abandon
<1>3. LeaseShape'
  BY <1>2, Unpack, LeaseKeeps, ZenonT(30)
<1> QED
  BY <1>1, <1>3, QuietKeeps, ZenonT(30)

-----------------------------------------------------------------------------
(* Delivering dispatches. *)

\* Rows staged by a step: they were not there before.
Staged ==
    /\ DOMAIN sent' = Dispatch
    /\ \A d \in Dispatch : sent'[d] = sent[d] \/ (sent[d] = "none" /\ sent'[d] = "pending")

LEMMA StagedRows ==
    ASSUME RowInv, Staged, UNCHANGED <<res, att, sender, marker>>  PROVE RowInv'
<1>1. res' = res /\ att' = att /\ sender' = sender /\ marker' = marker
  BY ZenonT(30)
<1> QED
  BY <1>1, SMTT(30) DEF RowInv, ResolutionState, Staged

\* What the steps that write only delivery rows, and call Redis, leave alone.
LEMMA DeliveryFrame ==
    ASSUME DispatchInv, UNCHANGED <<job, node, stopping, att, acked, emis, kind, receipt, artifacts, events, leaseVars>>
    PROVE  /\ LeaseShape' /\ EventInv' /\ OutputIsFromTheClaim' /\ GraphInv'
           /\ \A d \in Dispatch : ReceiptTrigger(d) /\ AttestationTrigger(d) /\ EmissionTrigger(d)
<1>0. LeaseShape /\ EventInv /\ OutputIsFromTheClaim /\ GraphInv
  BY Unpack, ZenonT(30)
<1>1. job' = job /\ node' = node /\ stopping' = stopping
  BY ZenonT(30)
<1>2. /\ att' = att /\ acked' = acked /\ emis' = emis /\ kind' = kind /\ receipt' = receipt
      /\ artifacts' = artifacts /\ events' = events /\ lease' = lease
  BY ZenonT(30) DEF leaseVars
<1>3. LeaseShape' /\ EventInv'
  BY <1>0, <1>2, ZenonT(30) DEF LeaseShape, EventInv
<1>4. OutputIsFromTheClaim' /\ GraphInv'
  BY <1>0, <1>1, <1>2, GraphFrame, ZenonT(30) DEF OutputIsFromTheClaim
<1>5. \A d \in Dispatch : ReceiptTrigger(d) /\ AttestationTrigger(d) /\ EmissionTrigger(d)
  BY <1>2, ZenonT(30) DEF ReceiptTrigger, AttestationTrigger, EmissionTrigger
<1> QED
  BY <1>3, <1>4, <1>5, ZenonT(30)

LEMMA NodeFrame ==
    ASSUME NodeInv, node' = node, att' = att, receipt' = receipt,
           \A e \in Dispatch : sent[e] = "none" => sent'[e] = "none"
    PROVE  NodeInv'
<1>1. \A n \in Node : <<n, 0>> \in Dispatch /\ <<n, 1>> \in Dispatch
  BY Dispatches, ZenonT(30)
<1> QED
  BY <1>1, ZenonT(30) DEF NodeInv

LEMMA BeginAttemptKeeps ==
    ASSUME DispatchInv, NEW d \in Dispatch, BeginAttempt(d)  PROVE DispatchInv' /\ LetThrough
<1>0. Shape /\ RowInv /\ NodeInv /\ CancelInv /\ NoTaskLost
  BY Unpack, ZenonT(30)
<1>1. /\ sent[d] = "pending" /\ res[d] = "unresolved"
      /\ sent' = [sent EXCEPT ![d] = "attempting"] /\ sender' = sender \cup {d}
  BY ZenonT(30) DEF BeginAttempt
<1>2. /\ job' = job /\ node' = node /\ res' = res /\ att' = att /\ acked' = acked /\ emis' = emis
      /\ kind' = kind /\ receipt' = receipt /\ marker' = marker /\ tasks' = tasks /\ events' = events
  BY ZenonT(30) DEF BeginAttempt
<1>3. UNCHANGED <<job, node, stopping, att, acked, emis, kind, receipt, artifacts, events, leaseVars>>
  BY ZenonT(30) DEF BeginAttempt
<1>4. DOMAIN sent' = Dispatch /\ sent'[d] = "attempting" /\ \A e \in Dispatch : e # d => sent'[e] = sent[e]
  BY <1>0, <1>1, ZenonT(30) DEF Shape
<1>5. Shape'
  BY <1>0, <1>1, <1>2, <1>4, ZenonT(30) DEF Shape
<1>6. RowInv'
  BY <1>0, <1>1, <1>2, <1>4, SMTT(30) DEF RowInv, ResolutionState
<1>7. NodeInv'
  <2>1. \A e \in Dispatch : sent[e] = "none" => sent'[e] = "none"
    BY <1>1, <1>4, ZenonT(30)
  <2> QED
    BY <1>0, <1>2, <2>1, NodeFrame, ZenonT(30)
<1>8. CancelInv'
  BY <1>0, <1>1, <1>2, <1>4, SMTT(30) DEF CancelInv, Stopped, EventOut, Resolved
<1>9. NoTaskLost'
  BY <1>0, <1>2, ZenonT(30) DEF NoTaskLost, Stopped
<1>10. \A e \in Dispatch : DispatchTrigger(e)
  BY <1>1, <1>2, <1>4, ZenonT(30) DEF DispatchTrigger
<1> QED
  BY <1>3, <1>5, <1>6, <1>7, <1>8, <1>9, <1>10, DeliveryFrame, ZenonT(30) DEF DispatchInv, LetThrough

LEMMA XaddTaskKeeps ==
    ASSUME DispatchInv, NEW d \in Dispatch, XaddTask(d)  PROVE DispatchInv' /\ LetThrough
<1>0. Shape /\ RowInv /\ NodeInv /\ CancelInv /\ NoTaskLost
  BY Unpack, ZenonT(30)
<1>1. d \in sender /\ d \notin marker /\ marker' = marker \cup {d} /\ tasks' = tasks \cup {d}
  BY ZenonT(30) DEF XaddTask
<1>2. /\ job' = job /\ node' = node /\ sent' = sent /\ res' = res /\ att' = att /\ acked' = acked
      /\ emis' = emis /\ kind' = kind /\ receipt' = receipt /\ sender' = sender /\ events' = events
  BY ZenonT(30) DEF XaddTask, rowVars
<1>3. UNCHANGED <<job, node, stopping, att, acked, emis, kind, receipt, artifacts, events, leaseVars>>
  BY ZenonT(30) DEF XaddTask, rowVars
<1>5. Shape'
  BY <1>0, <1>1, <1>2, ZenonT(30) DEF Shape
<1>6. RowInv'
  BY <1>0, <1>1, <1>2, ZenonT(30) DEF RowInv, ResolutionState
<1>7. NodeInv'
  BY <1>0, <1>2, ZenonT(30) DEF NodeInv
<1>8. CancelInv'
  <2>1. res[d] # "acknowledged"
    BY <1>0, <1>1, ZenonT(30) DEF RowInv, ResolutionState
  <2> QED
    BY <1>0, <1>1, <1>2, <2>1, ZenonT(30) DEF CancelInv, Stopped, EventOut, Resolved
<1>9. NoTaskLost'
  BY <1>0, <1>1, <1>2, ZenonT(30) DEF NoTaskLost, Stopped
<1>10. \A e \in Dispatch : DispatchTrigger(e)
  BY <1>2, ZenonT(30) DEF DispatchTrigger
<1> QED
  BY <1>3, <1>5, <1>6, <1>7, <1>8, <1>9, <1>10, DeliveryFrame, ZenonT(30) DEF DispatchInv, LetThrough

\* The end of an attempt: what it says of the message is what the marker says.
AttemptEnds(d) ==
    /\ d \in Dispatch /\ DOMAIN sent' = Dispatch /\ \A e \in Dispatch : e # d => sent'[e] = sent[e]
    /\ \/ sent'[d] = sent[d]
       \/ sent[d] = "attempting" /\ sent'[d] = "delivered" /\ d \in marker
       \/ sent[d] = "attempting" /\ sent'[d] = "uncertain"
    /\ sender' \subseteq sender

LEMMA AttemptEndsKeeps ==
    ASSUME DispatchInv, NEW d \in Dispatch, AttemptEnds(d),
           UNCHANGED <<job, node, stopping, att, acked, emis, kind, receipt, artifacts, events, leaseVars>>,
           UNCHANGED <<res, marker, tasks>>
    PROVE  DispatchInv' /\ LetThrough
<1>0. Shape /\ RowInv /\ NodeInv /\ CancelInv /\ NoTaskLost
  BY Unpack, ZenonT(30)
<1>1. /\ job' = job /\ node' = node /\ res' = res /\ att' = att /\ acked' = acked /\ emis' = emis
      /\ kind' = kind /\ receipt' = receipt /\ marker' = marker /\ tasks' = tasks /\ events' = events
  BY ZenonT(30)
<1>2. /\ DOMAIN sent' = Dispatch /\ \A e \in Dispatch : e # d => sent'[e] = sent[e]
      /\ \/ sent'[d] = sent[d]
         \/ sent[d] = "attempting" /\ sent'[d] = "delivered" /\ d \in marker
         \/ sent[d] = "attempting" /\ sent'[d] = "uncertain"
      /\ sender' \subseteq sender
  BY ZenonT(30) DEF AttemptEnds
<1>5. Shape'
  BY <1>0, <1>1, <1>2, ZenonT(30) DEF Shape
<1>6. RowInv'
  BY <1>0, <1>1, <1>2, SMTT(30) DEF RowInv, ResolutionState
<1>7. NodeInv'
  <2>1. \A e \in Dispatch : sent[e] = "none" => sent'[e] = "none"
    BY <1>2, ZenonT(30)
  <2> QED
    BY <1>0, <1>1, <2>1, NodeFrame, ZenonT(30)
<1>8. CancelInv'
  <2>1. sent[d] = "attempting" => res[d] \notin {"cancelled", "acknowledged"}
    BY <1>0, ZenonT(30) DEF RowInv, ResolutionState
  <2> QED
    BY <1>0, <1>1, <1>2, <2>1, SMTT(30) DEF CancelInv, Stopped, EventOut, Resolved
<1>9. NoTaskLost'
  BY <1>0, <1>1, ZenonT(30) DEF NoTaskLost, Stopped
<1>10. \A e \in Dispatch : DispatchTrigger(e)
  BY <1>1, <1>2, ZenonT(30) DEF DispatchTrigger
<1> QED
  BY <1>5, <1>6, <1>7, <1>8, <1>9, <1>10, DeliveryFrame, ZenonT(30) DEF DispatchInv, LetThrough

LEMMA AttemptKeeps ==
    ASSUME DispatchInv, NEW d \in Dispatch, MarkDelivered(d) \/ SenderFails(d) \/ RecoverStaleAttempt(d)
    PROVE  DispatchInv' /\ LetThrough
<1>0. Shape
  BY Unpack, ZenonT(30)
<1>1. /\ UNCHANGED <<job, node, stopping, att, acked, emis, kind, receipt, artifacts, events, leaseVars>>
      /\ UNCHANGED <<res, marker, tasks>>
  BY ZenonT(30) DEF MarkDelivered, SenderFails, RecoverStaleAttempt, rowVars, redisVars
<1>2. ASSUME MarkDelivered(d)  PROVE AttemptEnds(d)
  <2>1. d \in marker /\ sender' = sender \ {d} /\ sent' = [sent EXCEPT ![d] = Delivered(d)]
    BY <1>2, ZenonT(30) DEF MarkDelivered
  <2> QED
    BY <1>0, <2>1, ZenonT(30) DEF AttemptEnds, Delivered, Shape
<1>3. ASSUME SenderFails(d)  PROVE AttemptEnds(d)
  <2>1. sender' = sender \ {d} /\ sent' = sent
    BY <1>3, ZenonT(30) DEF SenderFails, rowVars
  <2> QED
    BY <1>0, <2>1, ZenonT(30) DEF AttemptEnds, Shape
<1>4. ASSUME RecoverStaleAttempt(d)  PROVE AttemptEnds(d)
  <2>1. sent[d] = "attempting" /\ sender' = sender /\ sent' = [sent EXCEPT ![d] = StaleAttempt(d)]
    BY <1>4, ZenonT(30) DEF RecoverStaleAttempt, redisVars
  <2> QED
    BY <1>0, <2>1, ZenonT(30) DEF AttemptEnds, StaleAttempt, Shape
<1>5. AttemptEnds(d)
  BY <1>2, <1>3, <1>4, ZenonT(30)
<1> QED
  BY <1>1, <1>5, AttemptEndsKeeps, ZenonT(30)

-----------------------------------------------------------------------------
(* Claiming, executing, reporting and acknowledging. *)

\* What a claim that stands says of its dispatch.
LEMMA StandingClaim ==
    ASSUME DispatchInv, NEW d \in Dispatch, ClaimStands(d)
    PROVE  /\ att[d] # 0 /\ receipt[d] = "none" /\ sent[d] = "delivered"
           /\ \A e \in Dispatch : res[e] \notin {"cancel_authorized", "cancelled"}
           /\ \A e \in Dispatch : res[e] = "acknowledged" => EventOut(e)
           /\ job = "RUNNING"
<1>0. RowInv /\ NodeInv /\ CancelInv
  BY Unpack, ZenonT(30)
<1>1. job = "RUNNING" /\ node[d[1]].status = "RUNNING" /\ node[d[1]].owner = d /\ d[1] \in Node /\ d # NoClaim
  BY Dispatches, ZenonT(30) DEF ClaimStands
<1>2. att[d] # 0 /\ receipt[d] = "none"
  BY <1>0, <1>1, ZenonT(30) DEF NodeInv
<1>3. sent[d] = "delivered"
  BY <1>0, <1>2, ZenonT(30) DEF RowInv
<1>4. \A e \in Dispatch : ~Stopped(e) /\ job # "deleted"
  BY <1>1, ZenonT(30) DEF Stopped
<1> QED
  BY <1>0, <1>1, <1>2, <1>3, <1>4, ZenonT(30) DEF CancelInv

\* Steps that leave the nodes, the deliveries and the attestations alone.
Reports ==
    /\ job' = job /\ node' = node /\ stopping' = stopping /\ sent' = sent /\ att' = att
    /\ sender' = sender /\ marker' = marker /\ lease' = lease

LEMMA ReportsFrame ==
    ASSUME DispatchInv, Reports
    PROVE  /\ LeaseShape' /\ GraphInv'
           /\ res' = res => RowInv'
           /\ receipt' = receipt => NodeInv'
           /\ (tasks' = tasks /\ events \subseteq events' /\ receipt' = receipt) => NoTaskLost'
           /\ (/\ DOMAIN res' = Dispatch /\ DOMAIN emis' = Dispatch /\ DOMAIN kind' = Dispatch
               /\ DOMAIN receipt' = Dispatch /\ tasks' \subseteq tasks /\ events' \subseteq Dispatch) => Shape'
<1>0. LeaseShape /\ GraphInv /\ RowInv /\ NodeInv /\ NoTaskLost /\ Shape
  BY Unpack, ZenonT(30)
<1>1. /\ job' = job /\ node' = node /\ stopping' = stopping /\ sent' = sent /\ att' = att
      /\ sender' = sender /\ marker' = marker /\ lease' = lease
  BY ZenonT(30) DEF Reports
<1>2. LeaseShape' /\ GraphInv'
  BY <1>0, <1>1, GraphFrame, ZenonT(30) DEF LeaseShape
<1>3. res' = res => RowInv'
  BY <1>0, <1>1, ZenonT(30) DEF RowInv
<1>4. receipt' = receipt => NodeInv'
  BY <1>0, <1>1, ZenonT(60) DEF NodeInv
<1>5. (tasks' = tasks /\ events \subseteq events' /\ receipt' = receipt) => NoTaskLost'
  BY <1>0, <1>1, ZenonT(30) DEF NoTaskLost, Stopped
<1>6. (/\ DOMAIN res' = Dispatch /\ DOMAIN emis' = Dispatch /\ DOMAIN kind' = Dispatch
       /\ DOMAIN receipt' = Dispatch /\ tasks' \subseteq tasks /\ events' \subseteq Dispatch) => Shape'
  BY <1>0, <1>1, ZenonT(30) DEF Shape
<1> QED
  BY <1>2, <1>3, <1>4, <1>5, <1>6, ZenonT(30)

LEMMA PersistArtifactKeeps ==
    ASSUME DispatchInv, NEW d \in Dispatch, PersistArtifact(d)  PROVE DispatchInv' /\ LetThrough
<1>0. Shape /\ EventInv /\ CancelInv /\ OutputIsFromTheClaim
  BY Unpack, ZenonT(30)
<1>1. Reports
  BY ZenonT(30) DEF PersistArtifact, Persistable, Fenced, LeaseCommit, redisVars, Reports
<1>2. /\ artifacts' = artifacts \cup {d} /\ tasks' = tasks /\ events' = events
      /\ res' = res /\ acked' = acked /\ emis' = emis /\ kind' = kind /\ receipt' = receipt
  BY ZenonT(30) DEF PersistArtifact, Stored, redisVars
<1>3. job' = job /\ node' = node /\ sent' = sent /\ att' = att
  BY <1>1, ZenonT(30) DEF Reports
<1>4. /\ DOMAIN res' = Dispatch /\ DOMAIN emis' = Dispatch /\ DOMAIN kind' = Dispatch
      /\ DOMAIN receipt' = Dispatch /\ tasks' \subseteq tasks /\ events' \subseteq Dispatch /\ events \subseteq events'
  BY <1>0, <1>2, ZenonT(30) DEF Shape
<1>5. EventInv'
  BY <1>0, <1>2, <1>3, ZenonT(30) DEF EventInv, EmissionState
<1>6. CancelInv'
  BY <1>0, <1>2, <1>3, ZenonT(30) DEF CancelInv, Stopped, EventOut, Resolved
<1>7. OutputIsFromTheClaim'
  BY <1>0, <1>2, <1>3, ZenonT(30) DEF OutputIsFromTheClaim
<1>8. LetThrough
  BY <1>2, <1>3, ZenonT(30) DEF LetThrough, ReceiptTrigger, AttestationTrigger, EmissionTrigger,
    DispatchTrigger
<1> QED
  BY <1>1, <1>2, <1>4, <1>5, <1>6, <1>7, <1>8, ReportsFrame, ZenonT(30) DEF DispatchInv

LEMMA PrepareEventKeeps ==
    ASSUME DispatchInv, NEW d \in Dispatch, NEW k \in {"completed", "failed"}, PrepareEvent(d, k)
    PROVE  DispatchInv' /\ LetThrough
<1>0. Shape /\ EventInv /\ CancelInv /\ OutputIsFromTheClaim
  BY Unpack, ZenonT(30)
<1>1. Reports
  BY ZenonT(30) DEF PrepareEvent, Fenced, LeaseCommit, redisVars, Reports
<1>2. /\ artifacts' = artifacts /\ tasks' = tasks /\ events' = events
      /\ res' = res /\ acked' = acked /\ receipt' = receipt
      /\ emis' = [emis EXCEPT ![d] = "prepared"] /\ kind' = [kind EXCEPT ![d] = k]
  BY ZenonT(30) DEF PrepareEvent, Prepared, redisVars
<1>3. job' = job /\ node' = node /\ sent' = sent /\ att' = att
  BY <1>1, ZenonT(30) DEF Reports
<1>4. ClaimStands(d) /\ emis[d] = "none" /\ (k = "completed" => d \in artifacts)
  BY ZenonT(30) DEF PrepareEvent, Reportable
<1>5. /\ DOMAIN emis' = Dispatch /\ DOMAIN kind' = Dispatch /\ emis'[d] = "prepared" /\ kind'[d] = k
      /\ \A e \in Dispatch : e # d => emis'[e] = emis[e] /\ kind'[e] = kind[e]
  BY <1>0, <1>2, ZenonT(30) DEF Shape
<1>6. /\ DOMAIN res' = Dispatch /\ DOMAIN receipt' = Dispatch /\ tasks' \subseteq tasks
      /\ events' \subseteq Dispatch /\ events \subseteq events'
  BY <1>0, <1>2, ZenonT(30) DEF Shape
<1>7. /\ att[d] # 0 /\ receipt[d] = "none" /\ job = "RUNNING"
      /\ \A e \in Dispatch : res[e] \notin {"cancel_authorized", "cancelled"}
      /\ \A e \in Dispatch : res[e] = "acknowledged" => EventOut(e)
  BY <1>4, StandingClaim, ZenonT(30)
<1>8. EventInv'
  BY <1>0, <1>2, <1>3, <1>4, <1>5, <1>7, ZenonT(30) DEF EventInv, EmissionState
<1>9. CancelInv'
  BY <1>0, <1>2, <1>3, <1>4, <1>5, <1>7, ZenonT(30) DEF CancelInv, EventOut
<1>10. OutputIsFromTheClaim'
  <2>1. kind[d] = "none"
    BY <1>0, <1>4, ZenonT(30) DEF EventInv
  <2>2. ASSUME NEW n \in Node, node[n].status = "SUCCEEDED"
        PROVE  kind'[node[n].owner] = "completed"
    <3>1. node[n].owner # d /\ kind[node[n].owner] = "completed"
      BY <1>0, <2>1, <2>2, ZenonT(30) DEF OutputIsFromTheClaim
    <3> QED
      BY <1>2, <3>1, <1>0, SMTT(30) DEF Shape
  <2> QED
    BY <1>0, <1>2, <1>3, <2>2, ZenonT(30) DEF OutputIsFromTheClaim
<1>11. LetThrough
  BY <1>2, <1>3, <1>4, <1>5, ZenonT(30) DEF LetThrough, ReceiptTrigger, AttestationTrigger, EmissionTrigger,
    DispatchTrigger
<1> QED
  BY <1>1, <1>2, <1>5, <1>6, <1>8, <1>9, <1>10, <1>11, ReportsFrame, ZenonT(30) DEF DispatchInv

LEMMA SendEventKeeps ==
    ASSUME DispatchInv, NEW d \in Dispatch, SendEvent(d)  PROVE DispatchInv' /\ LetThrough
<1>0. Shape /\ EventInv /\ CancelInv /\ OutputIsFromTheClaim
  BY Unpack, ZenonT(30)
<1>1. Reports
  BY ZenonT(30) DEF SendEvent, LeaseCommit, CommitLost, rowVars, leaseVars, Reports
<1>2. /\ artifacts' = artifacts /\ tasks' = tasks /\ events' = events \cup {d}
      /\ res' = res /\ acked' = acked /\ receipt' = receipt /\ kind' = kind
      /\ emis' = emis \/ emis' = [emis EXCEPT ![d] = "emitted"]
  BY ZenonT(30) DEF SendEvent, CommitLost, Emitted, rowVars
<1>3. job' = job /\ node' = node /\ sent' = sent /\ att' = att
  BY <1>1, ZenonT(30) DEF Reports
<1>4. ClaimStands(d) /\ emis[d] = "prepared"
  BY ZenonT(30) DEF SendEvent, Sendable, Replayable
<1>5. /\ DOMAIN emis' = Dispatch /\ emis'[d] \in {"prepared", "emitted"}
      /\ \A e \in Dispatch : e # d => emis'[e] = emis[e]
  BY <1>0, <1>2, <1>4, ZenonT(30) DEF Shape
<1>6. /\ DOMAIN res' = Dispatch /\ DOMAIN receipt' = Dispatch /\ DOMAIN kind' = Dispatch /\ tasks' \subseteq tasks
      /\ events' \subseteq Dispatch /\ events \subseteq events'
  BY <1>0, <1>2, ZenonT(30) DEF Shape
<1>7. /\ receipt[d] = "none" /\ job = "RUNNING"
      /\ \A e \in Dispatch : res[e] \notin {"cancel_authorized", "cancelled"}
      /\ \A e \in Dispatch : res[e] = "acknowledged" => EventOut(e)
  BY <1>4, StandingClaim, ZenonT(30)
<1>8. EventInv'
  BY <1>0, <1>2, <1>3, <1>4, <1>5, <1>7, SMTT(30) DEF EventInv, EmissionState
<1>9. CancelInv'
  BY <1>0, <1>2, <1>3, <1>4, <1>5, <1>7, SMTT(30) DEF CancelInv, EventOut
<1>10. OutputIsFromTheClaim'
  BY <1>0, <1>2, <1>3, ZenonT(30) DEF OutputIsFromTheClaim
<1>11. LetThrough
  BY <1>2, <1>3, <1>4, <1>5, ZenonT(30) DEF LetThrough, ReceiptTrigger, AttestationTrigger, EmissionTrigger,
    DispatchTrigger
<1> QED
  BY <1>1, <1>2, <1>5, <1>6, <1>8, <1>9, <1>10, <1>11, ReportsFrame, ZenonT(30) DEF DispatchInv

LEMMA AckTaskKeeps ==
    ASSUME DispatchInv, NEW d \in Dispatch, AckTask(d)  PROVE DispatchInv' /\ LetThrough
<1>0. Shape /\ RowInv /\ EventInv /\ CancelInv /\ OutputIsFromTheClaim /\ NoTaskLost
  BY Unpack, ZenonT(30)
<1>1. Reports
  BY ZenonT(30) DEF AckTask, LeaseCommit, CommitLost, rowVars, leaseVars, Reports
<1>2. /\ artifacts' = artifacts /\ tasks' = tasks \ {d} /\ events' = events
      /\ receipt' = receipt /\ kind' = kind /\ emis' = emis
      /\ \/ res' = res /\ acked' = acked
         \/ res' = [res EXCEPT ![d] = "acknowledged"] /\ acked' = acked \cup {d}
  BY ZenonT(30) DEF AckTask, CommitLost, Acknowledged, rowVars
<1>3. job' = job /\ node' = node /\ sent' = sent /\ att' = att /\ sender' = sender /\ marker' = marker
  BY <1>1, ZenonT(30) DEF Reports
<1>4. ClaimStands(d) /\ EventOut(d) /\ LeaseLive(att[d])
  BY ZenonT(30) DEF AckTask, AckAuthorized
<1>5. DOMAIN res' = Dispatch /\ res'[d] \in {res[d], "acknowledged"} /\ \A e \in Dispatch : e # d => res'[e] = res[e]
  BY <1>0, <1>2, ZenonT(30) DEF Shape
<1>6. /\ DOMAIN emis' = Dispatch /\ DOMAIN receipt' = Dispatch /\ DOMAIN kind' = Dispatch /\ tasks' \subseteq tasks
      /\ events' \subseteq Dispatch
  BY <1>0, <1>2, ZenonT(30) DEF Shape
<1>7. /\ receipt[d] = "none" /\ job = "RUNNING" /\ sent[d] = "delivered"
      /\ \A e \in Dispatch : res[e] \notin {"cancel_authorized", "cancelled"}
      /\ \A e \in Dispatch : res[e] = "acknowledged" => EventOut(e)
  BY <1>4, StandingClaim, ZenonT(30)
<1>8. EventInv'
  BY <1>0, <1>2, <1>3, ZenonT(30) DEF EventInv
<1>9. RowInv'
  BY <1>0, <1>3, <1>5, <1>7, SMTT(30) DEF RowInv, ResolutionState
<1>10. CancelInv'
  <2>1. ASSUME NEW e \in Dispatch, res'[e] = "acknowledged"  PROVE (e \in tasks' => att'[e] = 0) /\ EventOut(e)'
    BY <1>0, <1>2, <1>3, <1>4, <1>5, <1>7, <2>1, ZenonT(30) DEF CancelInv, EventOut
  <2>2. \A e \in Dispatch : res'[e] \notin {"cancel_authorized", "cancelled"}
    BY <1>5, <1>7, ZenonT(30)
  <2>3. job' # "deleted"
    BY <1>3, <1>7, ZenonT(30)
  <2> QED
    BY <2>1, <2>2, <2>3, ZenonT(30) DEF CancelInv
<1>11. NoTaskLost'
  <2>1. d \in events
    BY <1>0, <1>4, <1>7, ZenonT(30) DEF EventInv, EmissionState, EventOut
  <2> QED
    BY <1>0, <1>2, <1>3, <2>1, ZenonT(30) DEF NoTaskLost, Stopped
<1>12. OutputIsFromTheClaim'
  BY <1>0, <1>2, <1>3, ZenonT(30) DEF OutputIsFromTheClaim
<1>13. LetThrough
  BY <1>2, <1>3, <1>4, <1>5, <1>7, SMTT(30) DEF LetThrough, ReceiptTrigger, AttestationTrigger,
    EmissionTrigger, DispatchTrigger
<1>14. NodeInv' /\ LeaseShape' /\ GraphInv' /\ Shape'
  BY <1>1, <1>2, <1>5, <1>6, ReportsFrame, ZenonT(30)
<1> QED
  BY <1>8, <1>9, <1>10, <1>11, <1>12, <1>13, <1>14, ZenonT(30) DEF DispatchInv

LEMMA AckEventKeeps ==
    ASSUME DispatchInv, NEW d \in Dispatch, AckEvent(d)  PROVE DispatchInv' /\ LetThrough
<1>0. Shape /\ RowInv /\ EventInv /\ NodeInv /\ CancelInv /\ OutputIsFromTheClaim /\ NoTaskLost
  BY Unpack, ZenonT(30)
<1>1. Reports
  BY ZenonT(30) DEF AckEvent, AckLockedDelivery, CommitLost, rowVars, leaseVars, Reports
<1>2. /\ artifacts' = artifacts /\ kind' = kind
      /\ tasks' = (IF d \in acked THEN tasks ELSE tasks \ {d}) /\ events' = events \ {d}
      /\ receipt[d] = "applied"
      /\ \/ res' = res /\ acked' = acked /\ receipt' = receipt /\ emis' = emis
         \/ /\ \/ d \in acked /\ res' = res /\ acked' = acked
               \/ /\ d \notin acked /\ sent[d] = "delivered" /\ res[d] # "cancelled"
                  /\ res' = [res EXCEPT ![d] = "acknowledged"] /\ acked' = acked \cup {d}
            /\ receipt' = [receipt EXCEPT ![d] = "acknowledged"]
            /\ emis' = [emis EXCEPT ![d] = IF emis[d] = "emitted" THEN "resolved" ELSE emis[d]]
  BY ZenonT(30) DEF AckEvent, AckLockedDelivery, Applied, CommitLost, Proven, AckProof, Acknowledged,
    ReceiptAcknowledged, rowVars
<1>3. job' = job /\ node' = node /\ sent' = sent /\ att' = att /\ sender' = sender /\ marker' = marker
  BY <1>1, ZenonT(30) DEF Reports
<1>4. emis[d] = "emitted" \/ emis[d] = "resolved"
  BY <1>0, <1>2, ZenonT(30) DEF EventInv, EmissionState
<1>5. emis[d] = "emitted"
  BY <1>0, <1>2, <1>4, ZenonT(30) DEF EventInv, EmissionState
<1>6. /\ DOMAIN res' = Dispatch /\ \A e \in Dispatch : e # d => res'[e] = res[e]
      /\ \/ res'[d] = res[d] /\ acked' = acked
         \/ /\ d \notin acked /\ res'[d] = "acknowledged" /\ sent[d] = "delivered" /\ res[d] # "cancelled"
            /\ acked' = acked \cup {d}
  BY <1>0, <1>2, ZenonT(30) DEF Shape
<1>7. /\ DOMAIN emis' = Dispatch /\ DOMAIN receipt' = Dispatch
      /\ \A e \in Dispatch : e # d => emis'[e] = emis[e] /\ receipt'[e] = receipt[e]
      /\ \/ emis'[d] = "emitted" /\ receipt'[d] = "applied"
         \/ emis'[d] = "resolved" /\ receipt'[d] = "acknowledged"
  BY <1>0, <1>2, <1>5, ZenonT(30) DEF Shape
<1>8. DOMAIN kind' = Dispatch /\ tasks' \subseteq tasks /\ tasks \ {d} \subseteq tasks' /\ events' \subseteq Dispatch
  BY <1>0, <1>2, ZenonT(30) DEF Shape
<1>9. EventInv'
  BY <1>0, <1>2, <1>3, <1>5, <1>7, SMTT(30) DEF EventInv, EmissionState
<1>10. RowInv'
  BY <1>0, <1>3, <1>6, SMTT(30) DEF RowInv, ResolutionState
<1>11. NodeInv'
  <2>1. \A e \in Dispatch : receipt[e] = "none" => receipt'[e] = "none"
    BY <1>2, <1>7, ZenonT(30)
  <2> QED
    BY <1>0, <1>3, <2>1, ZenonT(30) DEF NodeInv
<1>12. CancelInv'
  <2>1. job # "deleted"
    <3>1. ASSUME job = "deleted"  PROVE FALSE
      <4>1. Resolved(d)
        BY <1>0, <3>1, ZenonT(30) DEF CancelInv
      <4>2. sent[d] = "delivered"
        BY <1>0, <1>5, ZenonT(30) DEF EventInv, EmissionState, RowInv
      <4> QED
        BY <1>2, <4>1, <4>2, ZenonT(30) DEF Resolved
    <3> QED
      BY <3>1, ZenonT(30)
  <2>2. ASSUME NEW e \in Dispatch, res'[e] \in {"cancel_authorized", "cancelled"}
        PROVE  emis'[e] = "none" /\ Stopped(e)'
    <3>1. e # d
      BY <1>0, <1>5, <1>6, <2>2, ZenonT(30) DEF CancelInv
    <3> QED
      BY <1>0, <1>3, <1>6, <1>7, <2>1, <2>2, <3>1, ZenonT(30) DEF CancelInv, Stopped
  <2>3. ASSUME NEW e \in Dispatch, res'[e] = "acknowledged"
        PROVE  (e \in tasks' => att'[e] = 0) /\ (EventOut(e)' \/ Stopped(e)')
    <3>1. CASE e = d
      <4>1. EventOut(e)'
        BY <1>7, <3>1, ZenonT(30) DEF EventOut
      <4>2. e \in tasks' => att'[e] = 0
        BY <1>0, <1>2, <1>3, <1>6, <2>3, <3>1, ZenonT(30) DEF CancelInv
      <4> QED
        BY <4>1, <4>2, ZenonT(30)
    <3>2. CASE e # d
      BY <1>0, <1>3, <1>6, <1>7, <1>8, <2>1, <2>3, <3>2, ZenonT(30) DEF CancelInv, Stopped, EventOut
    <3> QED
      BY <3>1, <3>2, ZenonT(30)
  <2> QED
    BY <1>3, <2>1, <2>2, <2>3, ZenonT(30) DEF CancelInv
<1>13. NoTaskLost'
  <2>1. receipt'[d] # "none"
    BY <1>7, ZenonT(30)
  <2> QED
    BY <1>0, <1>2, <1>3, <1>7, <1>8, <2>1, ZenonT(30) DEF NoTaskLost, Stopped, Shape
<1>14. OutputIsFromTheClaim'
  <2>1. ASSUME NEW n \in Node, node[n].status = "SUCCEEDED"  PROVE receipt'[node[n].owner] # "none"
    <3>1. node[n].owner # NoClaim /\ receipt[node[n].owner] # "none"
      BY <1>0, <2>1, ZenonT(30) DEF OutputIsFromTheClaim
    <3>2. node[n].owner \in Dispatch
      BY <1>0, <3>1, ZenonT(30) DEF NodeInv
    <3> QED
      BY <1>7, <3>1, <3>2, ZenonT(30)
  <2> QED
    BY <1>0, <1>2, <1>3, <2>1, ZenonT(30) DEF OutputIsFromTheClaim
<1>15. LetThrough
  <2>1. \A e \in Dispatch : ReceiptTrigger(e)
    BY <1>2, <1>7, ZenonT(30) DEF ReceiptTrigger
  <2>2. \A e \in Dispatch : AttestationTrigger(e)
    BY <1>2, <1>3, <1>6, ZenonT(30) DEF AttestationTrigger
  <2>3. \A e \in Dispatch : EmissionTrigger(e)
    BY <1>2, <1>5, <1>7, ZenonT(30) DEF EmissionTrigger
  <2>4. \A e \in Dispatch : DispatchTrigger(e)
    BY <1>3, <1>6, ZenonT(30) DEF DispatchTrigger
  <2> QED
    BY <2>1, <2>2, <2>3, <2>4, ZenonT(30) DEF LetThrough
<1>16. LeaseShape' /\ GraphInv' /\ Shape'
  BY <1>1, <1>6, <1>7, <1>8, ReportsFrame, ZenonT(30)
<1> QED
  BY <1>9, <1>10, <1>11, <1>12, <1>13, <1>14, <1>15, <1>16, ZenonT(30) DEF DispatchInv

-----------------------------------------------------------------------------
(* Withdrawing dispatches of a cancelled job. *)

\* CancelPending, AuthorizeCancelledAck and AckCancelled write the resolution of
\* one dispatch that was stopped without an event.
Withdraws(d) ==
    /\ Stopped(d) /\ emis[d] = "none"
    /\ job' = job /\ node' = node /\ stopping' = stopping /\ att' = att
    /\ sender' = sender /\ marker' = marker /\ lease' = lease
    /\ emis' = emis /\ kind' = kind /\ receipt' = receipt /\ artifacts' = artifacts /\ events' = events
    /\ DOMAIN sent' = Dispatch /\ DOMAIN res' = Dispatch
    /\ \A e \in Dispatch : e # d => sent'[e] = sent[e] /\ res'[e] = res[e]
    /\ \/ /\ sent[d] = "pending" /\ sent'[d] = "cancelled" /\ res[d] = "unresolved" /\ res'[d] = "cancelled"
          /\ tasks' = tasks /\ acked' = acked
       \/ /\ sent[d] = "delivered" /\ sent'[d] = "delivered"
          /\ \/ /\ res[d] = "unresolved" /\ res'[d] = "cancel_authorized" /\ tasks' = tasks /\ acked' = acked
             \/ /\ res[d] = "cancel_authorized" /\ (tasks' = tasks \ {d} \/ (att[d] = 0 /\ tasks' = tasks))
                /\ \/ res'[d] = "cancel_authorized" /\ acked' = acked
                   \/ res'[d] = "acknowledged" /\ acked \subseteq acked' /\ acked' \subseteq acked \cup {d}

LEMMA WithdrawsKeeps ==
    ASSUME DispatchInv, NEW d \in Dispatch, Withdraws(d)  PROVE DispatchInv' /\ LetThrough
<1>0. /\ LeaseShape /\ Shape /\ RowInv /\ EventInv /\ NodeInv /\ CancelInv
      /\ OutputIsFromTheClaim /\ NoTaskLost /\ GraphInv
  BY Unpack, ZenonT(30)
<1>1. /\ Stopped(d) /\ emis[d] = "none"
      /\ job' = job /\ node' = node /\ stopping' = stopping /\ att' = att
      /\ sender' = sender /\ marker' = marker /\ lease' = lease
      /\ emis' = emis /\ kind' = kind /\ receipt' = receipt /\ artifacts' = artifacts /\ events' = events
  BY ZenonT(30) DEF Withdraws
<1>2. /\ DOMAIN sent' = Dispatch /\ DOMAIN res' = Dispatch
      /\ \A e \in Dispatch : e # d => sent'[e] = sent[e] /\ res'[e] = res[e]
      /\ \/ /\ sent[d] = "pending" /\ sent'[d] = "cancelled" /\ res[d] = "unresolved" /\ res'[d] = "cancelled"
            /\ tasks' = tasks /\ acked' = acked
         \/ /\ sent[d] = "delivered" /\ sent'[d] = "delivered"
            /\ \/ /\ res[d] = "unresolved" /\ res'[d] = "cancel_authorized" /\ tasks' = tasks /\ acked' = acked
               \/ /\ res[d] = "cancel_authorized" /\ (tasks' = tasks \ {d} \/ (att[d] = 0 /\ tasks' = tasks))
                  /\ \/ res'[d] = "cancel_authorized" /\ acked' = acked
                     \/ res'[d] = "acknowledged" /\ acked \subseteq acked' /\ acked' \subseteq acked \cup {d}
  BY ZenonT(30) DEF Withdraws
<1>3. /\ tasks' \subseteq tasks /\ tasks \ {d} \subseteq tasks'
      /\ res'[d] = "acknowledged" /\ d \in tasks' => att'[d] = 0
  BY <1>1, <1>2, ZenonT(30)
<1>4. LeaseShape' /\ GraphInv'
  BY <1>0, <1>1, GraphFrame, ZenonT(30) DEF LeaseShape
<1>5. Shape'
  BY <1>0, <1>1, <1>2, <1>3, ZenonT(30) DEF Shape
<1>6. RowInv'
  BY <1>0, <1>1, <1>2, ZenonT(30) DEF RowInv, ResolutionState
<1>7. EventInv'
  BY <1>0, <1>1, ZenonT(30) DEF EventInv
<1>8. NodeInv'
  <2>1. \A e \in Dispatch : sent[e] = "none" => sent'[e] = "none"
    BY <1>2, ZenonT(30)
  <2> QED
    BY <1>0, <1>1, <2>1, NodeFrame, ZenonT(30)
<1>9. CancelInv'
  <2>1. job # "deleted"
    BY <1>1, ZenonT(30) DEF Stopped
  <2>2. Stopped(d)' /\ emis'[d] = "none"
    BY <1>1, ZenonT(30) DEF Stopped
  <2>3. ASSUME NEW e \in Dispatch, e # d
        PROVE  /\ res'[e] \in {"cancel_authorized", "cancelled"} => emis'[e] = "none" /\ (Stopped(e)' \/ job' = "deleted")
               /\ res'[e] = "acknowledged" => (e \in tasks' => att'[e] = 0) /\ (EventOut(e)' \/ Stopped(e)' \/ job' = "deleted")
    BY <1>0, <1>1, <1>2, <1>3, <2>3, ZenonT(30) DEF CancelInv, Stopped, EventOut
  <2>4. /\ res'[d] \in {"cancel_authorized", "cancelled"} => emis'[d] = "none" /\ (Stopped(d)' \/ job' = "deleted")
        /\ res'[d] = "acknowledged" => (d \in tasks' => att'[d] = 0) /\ (EventOut(d)' \/ Stopped(d)' \/ job' = "deleted")
    BY <1>3, <2>2, ZenonT(30)
  <2> QED
    BY <1>1, <2>1, <2>3, <2>4, ZenonT(30) DEF CancelInv
<1>10. NoTaskLost'
  <2>1. Stopped(d)'
    BY <1>1, ZenonT(30) DEF Stopped
  <2> QED
    BY <1>0, <1>1, <1>3, <2>1, ZenonT(30) DEF NoTaskLost, Stopped
<1>11. OutputIsFromTheClaim'
  BY <1>0, <1>1, ZenonT(30) DEF OutputIsFromTheClaim
<1>12. LetThrough
  <2>1. \A e \in Dispatch : ReceiptTrigger(e) /\ EmissionTrigger(e)
    BY <1>1, ZenonT(30) DEF ReceiptTrigger, EmissionTrigger
  <2>2. \A e \in Dispatch : AttestationTrigger(e)
    BY <1>1, <1>2, ZenonT(30) DEF AttestationTrigger
  <2>3. \A e \in Dispatch : DispatchTrigger(e)
    BY <1>2, ZenonT(30) DEF DispatchTrigger
  <2> QED
    BY <2>1, <2>2, <2>3, ZenonT(30) DEF LetThrough
<1> QED
  BY <1>4, <1>5, <1>6, <1>7, <1>8, <1>9, <1>10, <1>11, <1>12, ZenonT(30) DEF DispatchInv

LEMMA WithdrawKeeps ==
    ASSUME DispatchInv, NEW d \in Dispatch, CancelPending(d) \/ AuthorizeCancelledAck(d) \/ AckCancelled(d)
    PROVE  DispatchInv' /\ LetThrough
<1>0. Shape
  BY Unpack, ZenonT(30)
<1>1. /\ Stopped(d) /\ emis[d] = "none"
      /\ job' = job /\ node' = node /\ stopping' = stopping /\ att' = att
      /\ sender' = sender /\ marker' = marker /\ lease' = lease
      /\ emis' = emis /\ kind' = kind /\ receipt' = receipt /\ artifacts' = artifacts /\ events' = events
  BY ZenonT(30) DEF CancelPending, AuthorizeCancelledAck, AckCancelled, CancelAuthorized, Withdrawable,
    CommitLost, rowVars, redisVars, leaseVars
<1>2. ASSUME CancelPending(d)  PROVE Withdraws(d)
  <2>1. /\ sent[d] = "pending" /\ res[d] = "unresolved" /\ tasks' = tasks /\ acked' = acked
        /\ sent' = [sent EXCEPT ![d] = "cancelled"] /\ res' = [res EXCEPT ![d] = "cancelled"]
    BY <1>2, ZenonT(30) DEF CancelPending, redisVars
  <2> QED
    BY <1>0, <1>1, <2>1, ZenonT(30) DEF Withdraws, Shape
<1>3. ASSUME AuthorizeCancelledAck(d)  PROVE Withdraws(d)
  <2>1. /\ sent[d] = "delivered" /\ res[d] = "unresolved" /\ tasks' = tasks /\ acked' = acked
        /\ sent' = sent /\ res' = [res EXCEPT ![d] = "cancel_authorized"]
    BY <1>3, ZenonT(30) DEF AuthorizeCancelledAck, redisVars
  <2> QED
    BY <1>0, <1>1, <2>1, ZenonT(30) DEF Withdraws, Shape
<1>4. ASSUME AckCancelled(d)  PROVE Withdraws(d)
  <2>1. /\ sent[d] = "delivered" /\ res[d] = "cancel_authorized" /\ sent' = sent
        /\ \/ tasks' = tasks \ {d}
           \/ att[d] = 0 /\ tasks' = tasks
        /\ \/ res' = res /\ acked' = acked
           \/ res' = [res EXCEPT ![d] = "acknowledged"] /\ acked' = acked \cup {e \in {d} : att[e] # 0}
    BY <1>4, ZenonT(30) DEF AckCancelled, CancelAuthorized, CommitLost, rowVars
  <2>2. DOMAIN sent' = Dispatch /\ DOMAIN res' = Dispatch
    BY <1>0, <2>1, ZenonT(30) DEF Shape
  <2>3. \A e \in Dispatch : e # d => sent'[e] = sent[e] /\ res'[e] = res[e]
    BY <1>0, <2>1, ZenonT(30) DEF Shape
  <2>4. \/ res'[d] = "cancel_authorized" /\ acked' = acked
        \/ res'[d] = "acknowledged" /\ acked \subseteq acked' /\ acked' \subseteq acked \cup {d}
    BY <1>0, <2>1, ZenonT(30) DEF Shape
  <2> QED
    BY <1>1, <2>1, <2>2, <2>3, <2>4, ZenonT(30) DEF Withdraws
<1> QED
  BY <1>2, <1>3, <1>4, WithdrawsKeeps, ZenonT(30)

-----------------------------------------------------------------------------
(* Steps that write node rows. *)

\* How a node of a running job may move in one step.
Moves(n) ==
    \/ node'[n].status = node[n].status
    \/ /\ node[n].status = "PENDING" /\ node'[n].status = "QUEUED"
       /\ \A m \in Dep[n] : node'[m].status = "SUCCEEDED"
    \/ node[n].status = "PENDING" /\ node'[n].status = "SKIPPED"
    \/ node[n].status = "QUEUED" /\ node'[n].status = "RUNNING"
    \/ node[n].status = "RUNNING" /\ node'[n].status \in {"SUCCEEDED", "FAILED", "QUEUED"}

LEMMA MovesKeepGraph ==
    ASSUME GraphInv, \A n \in Node : Moves(n), stopping' = stopping,
           job' \in Settled => \A n \in Node : node'[n].status \notin Active
    PROVE  GraphInv'
<1>1. StopInv /\ DependenciesFirst
  BY ZenonT(30) DEF GraphInv
<1>2. \A n \in Node : Dep[n] \subseteq Node
  BY ZenonT(30)
<1>3. \A n \in Node : node[n].status \notin Active => node'[n].status = node[n].status
  BY ZenonT(30) DEF Moves, Active
<1>4. StopInv'
  BY <1>1, <1>3, ZenonT(30) DEF StopInv
<1>5. \A n \in Node : node[n].status = "SUCCEEDED" => node'[n].status = "SUCCEEDED"
  BY <1>3, ZenonT(30) DEF Active
<1>6. ASSUME NEW n \in Node, node'[n].status \in {"QUEUED", "RUNNING", "SUCCEEDED", "FAILED"}, NEW m \in Dep[n]
      PROVE  node'[m].status = "SUCCEEDED"
  <2>1. m \in Node /\ Moves(n)
    BY <1>2, <1>6, ZenonT(30)
  <2>2. CASE node[n].status \in {"QUEUED", "RUNNING", "SUCCEEDED", "FAILED"}
    BY <1>1, <1>5, <1>6, <2>1, <2>2, ZenonT(30) DEF DependenciesFirst
  <2>3. CASE node[n].status \notin {"QUEUED", "RUNNING", "SUCCEEDED", "FAILED"}
    BY <1>6, <2>1, <2>3, ZenonT(30) DEF Moves
  <2> QED
    BY <2>2, <2>3, ZenonT(30)
<1>7. DependenciesFirst'
  BY <1>6, ZenonT(30) DEF DependenciesFirst
<1>8. SettledHasNoActiveNode'
  BY ZenonT(30) DEF SettledHasNoActiveNode
<1> QED
  BY <1>4, <1>7, <1>8, ZenonT(30) DEF GraphInv

LEMMA StageInitialKeeps ==
    ASSUME DispatchInv, NEW n \in Node, StageInitial(n)  PROVE DispatchInv' /\ LetThrough
<1>0. /\ LeaseShape /\ Shape /\ RowInv /\ EventInv /\ NodeInv /\ CancelInv
      /\ OutputIsFromTheClaim /\ NoTaskLost /\ GraphInv
  BY Unpack, ZenonT(30)
<1>1. /\ job = "RUNNING" /\ sent[<<n, 0>>] = "none" /\ n \in Ready(node)
      /\ sent' = [sent EXCEPT ![<<n, 0>>] = "pending"] /\ node' = [node EXCEPT ![n].status = "QUEUED"]
  BY ZenonT(30) DEF StageInitial
<1>2. /\ job' = job /\ stopping' = stopping /\ res' = res /\ att' = att /\ acked' = acked /\ emis' = emis
      /\ kind' = kind /\ receipt' = receipt /\ artifacts' = artifacts /\ lease' = lease
      /\ sender' = sender /\ marker' = marker /\ tasks' = tasks /\ events' = events
  BY ZenonT(30) DEF StageInitial, redisVars, leaseVars
<1>3. <<n, 0>> \in Dispatch /\ \A m \in Node : <<m, 0>> \in Dispatch /\ <<m, 1>> \in Dispatch
  BY Dispatches, ZenonT(30)
<1>4. /\ node[n].status = "PENDING" /\ \A m \in Dep[n] : node[m].status = "SUCCEEDED"
  BY <1>1, ZenonT(30) DEF Ready
<1>5. /\ DOMAIN node' = Node /\ \A m \in Node : DOMAIN node'[m] = {"status", "retry", "owner"}
      /\ node'[n].status = "QUEUED" /\ node'[n].retry = node[n].retry /\ node'[n].owner = node[n].owner
      /\ \A m \in Node : m # n => node'[m] = node[m]
  BY <1>0, <1>1, ZenonT(30) DEF Shape
<1>6. /\ Staged /\ sent'[<<n, 0>>] = "pending"
      /\ \A m \in Node : sent'[<<m, 1>>] = sent[<<m, 1>>] /\ (m # n => sent'[<<m, 0>>] = sent[<<m, 0>>])
  <2>1. DOMAIN sent' = Dispatch /\ sent'[<<n, 0>>] = "pending" /\ \A e \in Dispatch : e # <<n, 0>> => sent'[e] = sent[e]
    BY <1>0, <1>1, <1>3, ZenonT(30) DEF Shape
  <2>2. Staged
    BY <1>1, <2>1, ZenonT(30) DEF Staged
  <2>3. \A m \in Node : <<m, 1>> # <<n, 0>> /\ (m # n => <<m, 0>> # <<n, 0>>)
    BY SMTT(30)
  <2> QED
    BY <1>3, <2>1, <2>2, <2>3, ZenonT(30)
<1>7. Shape'
  BY <1>0, <1>2, <1>5, <1>6, ZenonT(30) DEF Shape, Staged
<1>8. RowInv'
  BY <1>0, <1>2, <1>6, StagedRows, ZenonT(30)
<1>9. EventInv' /\ LeaseShape'
  BY <1>0, <1>2, ZenonT(30) DEF EventInv, LeaseShape
<1>10. NodeInv'
  <2>1. ASSUME NEW m \in Node, m # n
        PROVE  /\ node'[m] = node[m] /\ sent'[<<m, 0>>] = sent[<<m, 0>>] /\ sent'[<<m, 1>>] = sent[<<m, 1>>]
    BY <1>5, <1>6, <2>1, ZenonT(30)
  <2>2. node[n].owner = NoClaim /\ node'[n].owner = NoClaim
    BY <1>0, <1>4, <1>5, ZenonT(30) DEF NodeInv
  <2>3. node'[n].retry = 0 => sent'[<<n, 1>>] = "none"
    BY <1>0, <1>5, <1>6, ZenonT(60) DEF NodeInv
  <2>4. ASSUME NEW m \in Node
        PROVE  /\ node'[m].status = "PENDING" => sent'[<<m, 0>>] = "none"
               /\ node'[m].retry = 0 => sent'[<<m, 1>>] = "none"
               /\ node'[m].owner # NoClaim =>
                     node'[m].owner \in Dispatch /\ node'[m].owner[1] = m /\ att'[node'[m].owner] # 0
               /\ node'[m].status \in {"PENDING", "QUEUED"} => node'[m].owner = NoClaim
               /\ node'[m].status = "RUNNING" => node'[m].owner # NoClaim /\ receipt'[node'[m].owner] = "none"
    <3>1. CASE m = n
      BY <1>5, <2>2, <2>3, <3>1, ZenonT(30)
    <3>2. CASE m # n
      BY <1>0, <1>2, <2>1, <3>2, SMTT(30) DEF NodeInv
    <3> QED
      BY <3>1, <3>2, ZenonT(30)
  <2> QED
    BY <2>4, ZenonT(30) DEF NodeInv
<1>11. CancelInv'
  BY <1>0, <1>1, <1>2, ZenonT(30) DEF CancelInv, Stopped, EventOut
<1>12. NoTaskLost'
  BY <1>0, <1>1, <1>2, ZenonT(30) DEF NoTaskLost, Stopped
<1>13. OutputIsFromTheClaim'
  BY <1>0, <1>2, <1>5, SMTT(30) DEF OutputIsFromTheClaim
<1>14. GraphInv'
  <2>1. ASSUME NEW m \in Node  PROVE Moves(m)
    <3>1. CASE m = n
      <4>1. \A k \in Dep[n] : k \in Node /\ node'[k].status = "SUCCEEDED"
        BY <1>4, <1>5, ZenonT(30)
      <4> QED
        BY <1>4, <1>5, <3>1, <4>1, ZenonT(30) DEF Moves
    <3>2. CASE m # n
      BY <1>5, <3>2, ZenonT(30) DEF Moves
    <3> QED
      BY <3>1, <3>2, ZenonT(30)
  <2>2. job' \notin Settled
    BY <1>1, <1>2, ZenonT(30) DEF Settled
  <2> QED
    BY <1>0, <1>2, <2>1, <2>2, MovesKeepGraph, ZenonT(30)
<1>15. LetThrough
  <2>1. \A d \in Dispatch : ReceiptTrigger(d) /\ AttestationTrigger(d) /\ EmissionTrigger(d)
    BY <1>2, ZenonT(30) DEF ReceiptTrigger, AttestationTrigger, EmissionTrigger
  <2>2. \A d \in Dispatch : DispatchTrigger(d)
    BY <1>2, <1>6, ZenonT(30) DEF DispatchTrigger, Staged
  <2> QED
    BY <2>1, <2>2, ZenonT(30) DEF LetThrough
<1> QED
  BY <1>7, <1>8, <1>9, <1>10, <1>11, <1>12, <1>13, <1>14, <1>15, ZenonT(30) DEF DispatchInv

LEMMA ClaimNodeKeeps ==
    ASSUME DispatchInv, NEW d \in Dispatch, ClaimNode(d)  PROVE DispatchInv' /\ LetThrough
<1>0. /\ LeaseShape /\ Shape /\ RowInv /\ EventInv /\ NodeInv /\ CancelInv
      /\ OutputIsFromTheClaim /\ NoTaskLost /\ GraphInv
  BY Unpack, ZenonT(30)
<1>1. /\ job = "RUNNING" /\ node[d[1]].status = "QUEUED" /\ sent[d] = "delivered" /\ res[d] = "unresolved"
      /\ att[d] = 0 /\ lease.active
      /\ node' = [node EXCEPT ![d[1]].status = "RUNNING", ![d[1]].owner = d]
      /\ att' = [att EXCEPT ![d] = lease.epoch]
  BY ZenonT(30) DEF ClaimNode, Claimable, Fenced, LeaseLive, Attested
<1>2. /\ job' = job /\ stopping' = stopping /\ sent' = sent /\ res' = res /\ acked' = acked /\ emis' = emis
      /\ kind' = kind /\ receipt' = receipt /\ artifacts' = artifacts /\ lease' = lease
      /\ sender' = sender /\ marker' = marker /\ tasks' = tasks /\ events' = events
  BY ZenonT(30) DEF ClaimNode, Fenced, LeaseCommit, redisVars
<1>3. d[1] \in Node /\ d # NoClaim
  BY Dispatches, ZenonT(30)
<1>4. DOMAIN att' = Dispatch /\ att'[d] # 0 /\ \A e \in Dispatch : e # d => att'[e] = att[e]
  BY <1>0, <1>1, ZenonT(30) DEF LeaseShape, Shape
<1>5. /\ DOMAIN node' = Node /\ \A m \in Node : DOMAIN node'[m] = {"status", "retry", "owner"}
      /\ node'[d[1]].status = "RUNNING" /\ node'[d[1]].retry = node[d[1]].retry /\ node'[d[1]].owner = d
      /\ \A m \in Node : m # d[1] => node'[m] = node[m]
  BY <1>0, <1>1, <1>3, ZenonT(30) DEF Shape
<1>6. Shape' /\ LeaseShape'
  BY <1>0, <1>2, <1>4, <1>5, ZenonT(30) DEF Shape, LeaseShape
<1>7. RowInv'
  BY <1>0, <1>1, <1>2, <1>4, SMTT(30) DEF RowInv, ResolutionState
<1>8. EventInv'
  BY <1>0, <1>1, <1>2, <1>4, SMTT(30) DEF EventInv, EmissionState
<1>9. receipt[d] = "none"
  BY <1>0, <1>1, ZenonT(30) DEF EventInv, EmissionState
<1>10. \A e \in Dispatch : att[e] # 0 => att'[e] # 0
  BY <1>4, ZenonT(30)
<1>11. NodeInv'
  <2>1. ASSUME NEW m \in Node
        PROVE  /\ node'[m].status = "PENDING" => sent'[<<m, 0>>] = "none"
               /\ node'[m].retry = 0 => sent'[<<m, 1>>] = "none"
               /\ node'[m].owner # NoClaim =>
                     node'[m].owner \in Dispatch /\ node'[m].owner[1] = m /\ att'[node'[m].owner] # 0
               /\ node'[m].status \in {"PENDING", "QUEUED"} => node'[m].owner = NoClaim
               /\ node'[m].status = "RUNNING" => node'[m].owner # NoClaim /\ receipt'[node'[m].owner] = "none"
    <3>1. CASE m = d[1]
      <4>1. node'[m].retry = 0 => sent'[<<m, 1>>] = "none"
        BY <1>0, <1>2, <1>5, <3>1, ZenonT(30) DEF NodeInv
      <4> QED
        BY <1>2, <1>3, <1>4, <1>5, <1>9, <3>1, <4>1, ZenonT(30)
    <3>2. CASE m # d[1]
      BY <1>0, <1>2, <1>5, <1>10, <3>2, SMTT(30) DEF NodeInv
    <3> QED
      BY <3>1, <3>2, ZenonT(30)
  <2> QED
    BY <2>1, ZenonT(30) DEF NodeInv
<1>12. CancelInv'
  <2>1. \A e \in Dispatch : res'[e] = "acknowledged" => (e \in tasks' => att'[e] = 0) /\ EventOut(e)'
    <3>1. \A e \in Dispatch : res[e] = "acknowledged" => e # d /\ (e \in tasks => att[e] = 0) /\ EventOut(e)
      BY <1>0, <1>1, ZenonT(30) DEF CancelInv, Stopped
    <3> QED
      BY <1>2, <1>4, <3>1, ZenonT(30) DEF EventOut
  <2>2. \A e \in Dispatch : res'[e] \notin {"cancel_authorized", "cancelled"}
    BY <1>0, <1>1, <1>2, ZenonT(30) DEF CancelInv, Stopped
  <2>3. job' # "deleted"
    BY <1>1, <1>2, ZenonT(30)
  <2> QED
    BY <2>1, <2>2, <2>3, ZenonT(30) DEF CancelInv
<1>13. NoTaskLost'
  BY <1>0, <1>1, <1>2, ZenonT(30) DEF NoTaskLost, Stopped
<1>14. OutputIsFromTheClaim'
  BY <1>0, <1>2, <1>5, ZenonT(30) DEF OutputIsFromTheClaim
<1>15. GraphInv'
  <2>1. ASSUME NEW m \in Node  PROVE Moves(m)
    BY <1>1, <1>5, ZenonT(30) DEF Moves
  <2>2. job' \notin Settled
    BY <1>1, <1>2, ZenonT(30) DEF Settled
  <2> QED
    BY <1>0, <1>2, <2>1, <2>2, MovesKeepGraph, ZenonT(30)
<1>16. LetThrough
  <2>1. \A e \in Dispatch : ReceiptTrigger(e) /\ EmissionTrigger(e) /\ DispatchTrigger(e)
    BY <1>2, ZenonT(30) DEF ReceiptTrigger, EmissionTrigger, DispatchTrigger
  <2>2. \A e \in Dispatch : AttestationTrigger(e)
    BY <1>1, <1>2, <1>4, ZenonT(30) DEF AttestationTrigger
  <2> QED
    BY <2>1, <2>2, ZenonT(30) DEF LetThrough
<1> QED
  BY <1>6, <1>7, <1>8, <1>11, <1>12, <1>13, <1>14, <1>15, <1>16, ZenonT(30) DEF DispatchInv

\* What cancelling and deleting the job leave alone.
LEMMA JobFrame ==
    ASSUME DispatchInv, UNCHANGED <<rowVars, redisVars, leaseVars>>
    PROVE  LeaseShape' /\ RowInv' /\ EventInv' /\ LetThrough
<1>0. LeaseShape /\ RowInv /\ EventInv
  BY Unpack, ZenonT(30)
<1>1. /\ sent' = sent /\ res' = res /\ att' = att /\ acked' = acked /\ emis' = emis
      /\ kind' = kind /\ receipt' = receipt /\ artifacts' = artifacts /\ lease' = lease
      /\ sender' = sender /\ marker' = marker /\ tasks' = tasks /\ events' = events
  BY ZenonT(30) DEF rowVars, redisVars, leaseVars
<1>2. LeaseShape' /\ RowInv'
  BY <1>0, <1>1, ZenonT(30) DEF LeaseShape, RowInv
<1>3. EventInv'
  BY <1>0, <1>1, ZenonT(30) DEF EventInv
<1>4. LetThrough
  BY <1>1, ZenonT(30) DEF LetThrough, ReceiptTrigger, AttestationTrigger, EmissionTrigger, DispatchTrigger
<1> QED
  BY <1>2, <1>3, <1>4, ZenonT(30)

LEMMA CancelReadsKeeps ==
    ASSUME DispatchInv, CancelReads  PROVE DispatchInv' /\ LetThrough
<1>0. Shape /\ NodeInv /\ CancelInv /\ OutputIsFromTheClaim /\ NoTaskLost /\ GraphInv
  BY Unpack, ZenonT(30)
<1>1. UNCHANGED <<rowVars, redisVars, leaseVars>>
  BY ZenonT(30) DEF CancelReads
<1>2. /\ sent' = sent /\ res' = res /\ att' = att /\ acked' = acked /\ emis' = emis
      /\ kind' = kind /\ receipt' = receipt /\ artifacts' = artifacts /\ job' = job /\ node' = node
      /\ sender' = sender /\ marker' = marker /\ tasks' = tasks /\ events' = events
  BY ZenonT(30) DEF CancelReads, rowVars, redisVars
<1>3. stopping' = <<{n \in Node : node[n].status \in Active}>>
  BY ZenonT(30) DEF CancelReads
<1>4. Shape' /\ NodeInv'
  BY <1>0, <1>2, ZenonT(30) DEF Shape, NodeInv
<1>5. CancelInv'
  BY <1>0, <1>2, ZenonT(30) DEF CancelInv, Stopped, EventOut, Resolved
<1>6. NoTaskLost' /\ OutputIsFromTheClaim'
  BY <1>0, <1>2, ZenonT(30) DEF NoTaskLost, Stopped, OutputIsFromTheClaim
<1>7. DependenciesFirst' /\ SettledHasNoActiveNode' /\ DependenciesFirst
  BY <1>0, <1>2, ZenonT(30) DEF GraphInv, DependenciesFirst, SettledHasNoActiveNode
<1>8. StopInv'
  <2> DEFINE S == {n \in Node : node[n].status \in Active}
  <2>1. stopping'[1] = S
    BY <1>3, ZenonT(30)
  <2>2. ASSUME NEW n \in Node, n \notin S
        PROVE  /\ node[n].status \notin Active
               /\ node[n].status \in {"SUCCEEDED", "FAILED"} => Dep[n] \cap S = {}
    <3>1. node[n].status \notin Active
      BY <2>2, ZenonT(30)
    <3>2. ASSUME node[n].status \in {"SUCCEEDED", "FAILED"}, NEW m \in Dep[n]  PROVE m \notin S
      <4>1. node[m].status = "SUCCEEDED"
        BY <1>7, <3>2, ZenonT(30) DEF DependenciesFirst
      <4> QED
        BY <4>1, ZenonT(30) DEF Active
    <3> QED
      BY <3>1, <3>2, ZenonT(30)
  <2>3. ASSUME NEW n \in Node, n \notin stopping'[1]
        PROVE  /\ node'[n].status \notin Active
               /\ node'[n].status \in {"SUCCEEDED", "FAILED"} => Dep[n] \cap stopping'[1] = {}
    <3> HIDE DEF S
    <3> QED
      BY <1>2, <2>1, <2>2, <2>3, ZenonT(30)
  <2> QED
    BY <2>3, ZenonT(30) DEF StopInv
<1> QED
  BY <1>1, <1>4, <1>5, <1>6, <1>7, <1>8, JobFrame, ZenonT(30) DEF DispatchInv, GraphInv

LEMMA CancelWritesKeeps ==
    ASSUME DispatchInv, CancelWrites  PROVE DispatchInv' /\ LetThrough
<1>0. Shape /\ NodeInv /\ CancelInv /\ OutputIsFromTheClaim /\ NoTaskLost /\ GraphInv
  BY Unpack, ZenonT(30)
<1>1. UNCHANGED <<rowVars, redisVars, leaseVars>>
  BY ZenonT(30) DEF CancelWrites
<1>2. /\ sent' = sent /\ res' = res /\ att' = att /\ acked' = acked /\ emis' = emis
      /\ kind' = kind /\ receipt' = receipt /\ artifacts' = artifacts
      /\ sender' = sender /\ marker' = marker /\ tasks' = tasks /\ events' = events
  BY ZenonT(30) DEF CancelWrites, rowVars, redisVars
<1>3. /\ stopping # <<>> /\ job # "deleted" /\ job' = "CANCELLED" /\ stopping' = <<>>
      /\ node' = [n \in Node |-> IF n \in stopping[1]
                                 THEN [node[n] EXCEPT !.status = "CANCELLED"] ELSE node[n]]
  BY ZenonT(30) DEF CancelWrites
<1>4. /\ DOMAIN node' = Node
      /\ \A n \in Node : /\ DOMAIN node'[n] = {"status", "retry", "owner"}
                         /\ node'[n].retry = node[n].retry /\ node'[n].owner = node[n].owner
                         /\ n \in stopping[1] => node'[n].status = "CANCELLED"
                         /\ n \notin stopping[1] => node'[n].status = node[n].status
  BY <1>0, <1>3, ZenonT(30) DEF Shape
<1>5. \A n \in Node : node'[n].status \in {node[n].status, "CANCELLED"}
  BY <1>4, ZenonT(30)
<1>6. Shape'
  BY <1>0, <1>2, <1>4, ZenonT(30) DEF Shape
<1>7. NodeInv'
  <2>1. ASSUME NEW n \in Node
        PROVE  /\ node'[n].status \in {"PENDING", "QUEUED"} => node'[n].status = node[n].status
               /\ node'[n].status \in {"PENDING", "RUNNING"} => node'[n].status = node[n].status
    BY <1>5, ZenonT(30)
  <2>2. ASSUME NEW n \in Node
        PROVE  /\ node'[n].status = "PENDING" => sent'[<<n, 0>>] = "none"
               /\ node'[n].retry = 0 => sent'[<<n, 1>>] = "none"
               /\ node'[n].owner # NoClaim =>
                     node'[n].owner \in Dispatch /\ node'[n].owner[1] = n /\ att'[node'[n].owner] # 0
               /\ node'[n].status \in {"PENDING", "QUEUED"} => node'[n].owner = NoClaim
               /\ node'[n].status = "RUNNING" => node'[n].owner # NoClaim /\ receipt'[node'[n].owner] = "none"
    <3>1. /\ node[n].status = "PENDING" => sent[<<n, 0>>] = "none"
          /\ node[n].retry = 0 => sent[<<n, 1>>] = "none"
          /\ node[n].owner # NoClaim =>
                node[n].owner \in Dispatch /\ node[n].owner[1] = n /\ att[node[n].owner] # 0
          /\ node[n].status \in {"PENDING", "QUEUED"} => node[n].owner = NoClaim
          /\ node[n].status = "RUNNING" => node[n].owner # NoClaim /\ receipt[node[n].owner] = "none"
      BY <1>0, ZenonT(30) DEF NodeInv
    <3>2. node'[n].retry = node[n].retry /\ node'[n].owner = node[n].owner
      BY <1>4, ZenonT(30)
    <3> QED
      BY <1>2, <2>1, <3>1, <3>2, ZenonT(30)
  <2> QED
    BY <2>2, ZenonT(30) DEF NodeInv
<1>8. \A d \in Dispatch : Stopped(d) => Stopped(d)'
  <2>1. \A d \in Dispatch : d[1] \in Node
    BY Dispatches, ZenonT(30)
  <2> QED
    BY <1>3, <1>5, <2>1, ZenonT(30) DEF Stopped
<1>9. CancelInv'
  BY <1>0, <1>2, <1>3, <1>8, ZenonT(30) DEF CancelInv, EventOut
<1>10. NoTaskLost'
  BY <1>0, <1>2, <1>3, <1>8, ZenonT(30) DEF NoTaskLost, Shape
<1>11. OutputIsFromTheClaim'
  BY <1>0, <1>2, <1>4, <1>5, SMTT(30) DEF OutputIsFromTheClaim
<1>12. StopInv'
  BY <1>3, ZenonT(30) DEF StopInv
<1>13. StopInv /\ DependenciesFirst
  BY <1>0, ZenonT(30) DEF GraphInv
<1>14. SettledHasNoActiveNode'
  <2>1. ASSUME NEW n \in Node  PROVE node'[n].status \notin Active
    <3>1. CASE n \in stopping[1]
      BY <1>4, <3>1, ZenonT(30) DEF Active
    <3>2. CASE n \notin stopping[1]
      BY <1>3, <1>4, <1>13, <3>2, ZenonT(30) DEF StopInv
    <3> QED
      BY <3>1, <3>2, ZenonT(30)
  <2> QED
    BY <2>1, ZenonT(30) DEF SettledHasNoActiveNode
<1>15. DependenciesFirst'
  <2>1. ASSUME NEW n \in Node, node'[n].status \in {"QUEUED", "RUNNING", "SUCCEEDED", "FAILED"}, NEW m \in Dep[n]
        PROVE  node'[m].status = "SUCCEEDED"
    <3>1. n \notin stopping[1] /\ node'[n].status = node[n].status
      BY <1>4, <2>1, ZenonT(30)
    <3>2. node[n].status \in {"SUCCEEDED", "FAILED"}
      BY <1>3, <1>13, <2>1, <3>1, ZenonT(30) DEF StopInv, Active
    <3>3. m \in Node /\ m \notin stopping[1]
      BY <1>3, <1>13, <2>1, <3>1, <3>2, ZenonT(30) DEF StopInv
    <3>4. node[m].status = "SUCCEEDED"
      BY <1>13, <2>1, <3>2, ZenonT(30) DEF DependenciesFirst
    <3> QED
      BY <1>4, <3>3, <3>4, ZenonT(30)
  <2> QED
    BY <2>1, ZenonT(30) DEF DependenciesFirst
<1> QED
  BY <1>1, <1>6, <1>7, <1>9, <1>10, <1>11, <1>12, <1>14, <1>15, JobFrame, ZenonT(30) DEF DispatchInv, GraphInv

LEMMA DeleteJobKeeps ==
    ASSUME DispatchInv, DeleteJob  PROVE DispatchInv' /\ LetThrough
<1>0. Shape /\ NodeInv /\ CancelInv /\ OutputIsFromTheClaim /\ NoTaskLost /\ GraphInv
  BY Unpack, ZenonT(30)
<1>1. UNCHANGED <<rowVars, redisVars, leaseVars>>
  BY ZenonT(30) DEF DeleteJob
<1>2. /\ sent' = sent /\ res' = res /\ att' = att /\ acked' = acked /\ emis' = emis
      /\ kind' = kind /\ receipt' = receipt /\ artifacts' = artifacts /\ node' = node /\ stopping' = stopping
      /\ sender' = sender /\ marker' = marker /\ tasks' = tasks /\ events' = events
  BY ZenonT(30) DEF DeleteJob, rowVars, redisVars
<1>3. (\A d \in Dispatch : Resolved(d)) /\ job' = "deleted"
  BY ZenonT(30) DEF DeleteJob
<1>4. Shape' /\ NodeInv'
  BY <1>0, <1>2, ZenonT(30) DEF Shape, NodeInv
<1>5. \A d \in Dispatch : Resolved(d)'
  BY <1>2, <1>3, ZenonT(30) DEF Resolved
<1>6. CancelInv'
  BY <1>0, <1>2, <1>3, <1>5, ZenonT(30) DEF CancelInv
<1>7. NoTaskLost' /\ OutputIsFromTheClaim'
  BY <1>0, <1>2, <1>3, ZenonT(30) DEF NoTaskLost, OutputIsFromTheClaim
<1>8. StopInv' /\ DependenciesFirst'
  BY <1>0, <1>2, ZenonT(30) DEF GraphInv, StopInv, DependenciesFirst
<1>9. SettledHasNoActiveNode'
  <2>1. job' \notin Settled
    BY <1>3, ZenonT(30) DEF Settled
  <2> QED
    BY <2>1, ZenonT(30) DEF SettledHasNoActiveNode
<1> QED
  BY <1>1, <1>4, <1>6, <1>7, <1>8, <1>9, JobFrame, ZenonT(30) DEF DispatchInv, GraphInv

-----------------------------------------------------------------------------
(* Applying an event. *)

\* What every application does to the rows, whatever the outcome.
LEMMA AcceptRows ==
    ASSUME DispatchInv, NEW d \in Dispatch, AcceptEvent(d), Staged, job' # "deleted"
    PROVE  /\ LeaseShape' /\ RowInv' /\ EventInv' /\ CancelInv' /\ NoTaskLost' /\ LetThrough
           /\ res' = res /\ att' = att /\ kind' = kind /\ artifacts' = artifacts /\ stopping' = stopping
           /\ sender' = sender /\ marker' = marker /\ tasks' = tasks /\ events' = events
           /\ DOMAIN receipt' = Dispatch /\ DOMAIN emis' = Dispatch
           /\ receipt'[d] = "applied" /\ \A e \in Dispatch : e # d => receipt'[e] = receipt[e]
<1>0. LeaseShape /\ Shape /\ RowInv /\ EventInv /\ CancelInv /\ NoTaskLost
  BY Unpack, ZenonT(30)
<1>1. /\ d \in events /\ receipt[d] = "none" /\ ClaimStands(d)
      /\ emis' = [emis EXCEPT ![d] = IF emis[d] = "prepared" THEN "emitted" ELSE emis[d]]
      /\ receipt' = [receipt EXCEPT ![d] = "applied"]
  BY ZenonT(30) DEF AcceptEvent, AcceptAndApply, Observed
<1>2. /\ stopping' = stopping /\ res' = res /\ att' = att /\ acked' = acked /\ kind' = kind
      /\ artifacts' = artifacts /\ lease' = lease
      /\ sender' = sender /\ marker' = marker /\ tasks' = tasks /\ events' = events
  BY ZenonT(30) DEF AcceptEvent, redisVars, leaseVars
<1>3. /\ receipt[d] = "none" /\ job = "RUNNING"
      /\ \A e \in Dispatch : res[e] \notin {"cancel_authorized", "cancelled"}
      /\ \A e \in Dispatch : res[e] = "acknowledged" => EventOut(e)
  BY <1>1, StandingClaim, ZenonT(30)
<1>4. emis[d] \in {"prepared", "emitted"}
  BY <1>0, <1>1, ZenonT(30) DEF EventInv, EmissionState
<1>5. /\ DOMAIN receipt' = Dispatch /\ DOMAIN emis' = Dispatch
      /\ receipt'[d] = "applied"
      /\ \A e \in Dispatch : e # d => receipt'[e] = receipt[e] /\ emis'[e] = emis[e]
      /\ emis[d] = "prepared" => emis'[d] = "emitted"
      /\ emis[d] # "prepared" => emis'[d] = emis[d]
  BY <1>0, <1>1, ZenonT(30) DEF Shape
<1>6. LeaseShape'
  BY <1>0, <1>2, ZenonT(30) DEF LeaseShape
<1>7. RowInv'
  BY <1>0, <1>2, StagedRows, ZenonT(30)
<1>8. EventInv'
  BY <1>0, <1>1, <1>2, <1>4, <1>5, ZenonT(30) DEF EventInv, EmissionState
<1>9. CancelInv'
  <2>1. \A e \in Dispatch : res'[e] = "acknowledged" => (e \in tasks' => att'[e] = 0) /\ EventOut(e)'
    BY <1>0, <1>2, <1>3, <1>5, ZenonT(30) DEF CancelInv, EventOut
  <2> QED
    BY <1>2, <1>3, <2>1, ZenonT(30) DEF CancelInv
<1>10. NoTaskLost'
  <2>1. \A e \in Dispatch : receipt[e] # "none" => receipt'[e] # "none"
    BY <1>5, ZenonT(30)
  <2>2. \A e \in Dispatch : ~Stopped(e) /\ job # "deleted"
    BY <1>3, ZenonT(30) DEF Stopped
  <2> QED
    BY <1>0, <1>2, <2>1, <2>2, ZenonT(30) DEF NoTaskLost, Shape
<1>11. LetThrough
  <2>1. \A e \in Dispatch : ReceiptTrigger(e)
    BY <1>1, <1>5, ZenonT(30) DEF ReceiptTrigger
  <2>2. \A e \in Dispatch : AttestationTrigger(e)
    BY <1>2, ZenonT(30) DEF AttestationTrigger
  <2>3. \A e \in Dispatch : EmissionTrigger(e)
    BY <1>2, <1>5, ZenonT(30) DEF EmissionTrigger
  <2>4. \A e \in Dispatch : DispatchTrigger(e)
    BY <1>2, ZenonT(30) DEF DispatchTrigger, Staged
  <2> QED
    BY <2>1, <2>2, <2>3, <2>4, ZenonT(30) DEF LetThrough
<1> QED
  BY <1>2, <1>5, <1>6, <1>7, <1>8, <1>9, <1>10, <1>11, ZenonT(30)

\* A node row of which only the status is written keeps the rest.
LEMMA NodeRecord ==
    ASSUME NEW r, DOMAIN r = {"status", "retry", "owner"}, NEW s, NEW x, x = [r EXCEPT !.status = s]
    PROVE  /\ DOMAIN x = {"status", "retry", "owner"}
           /\ x.status = s /\ x.retry = r.retry /\ x.owner = r.owner
  BY ZenonT(30)

\* A step that writes only statuses of nodes.
StatusOnly ==
    /\ DOMAIN node' = Node
    /\ \A n \in Node : /\ DOMAIN node'[n] = {"status", "retry", "owner"}
                       /\ node'[n].retry = node[n].retry /\ node'[n].owner = node[n].owner

\* A finalized job is not deleted, and has no active node.
LEMMA FinalizedIs ==
    ASSUME NEW row
    PROVE  /\ Finalized(row) # "deleted"
           /\ Finalized(row) \in Settled => \A n \in Node : row[n].status \notin Active
<1>1. CASE \E n \in Node : row[n].status \in Active
  BY <1>1, ZenonT(30) DEF Finalized, Settled
<1>2. CASE ~\E n \in Node : row[n].status \in Active
  <2>1. Finalized(row) \in {"SUCCEEDED", "PARTIALLY_FAILED", "FAILED"}
    BY <1>2, ZenonT(30) DEF Finalized
  <2> QED
    BY <1>2, <2>1, ZenonT(30)
<1> QED
  BY <1>1, <1>2, ZenonT(30)

\* The claim's node is its own; the other running nodes have other claims.
LEMMA OtherClaims ==
    ASSUME DispatchInv, NEW d \in Dispatch, NEW n \in Node, n # d[1], node[n].owner # NoClaim
    PROVE  node[n].owner # d /\ node[n].owner \in Dispatch
<1>1. NodeInv
  BY Unpack, ZenonT(30)
<1>2. node[n].owner \in Dispatch /\ node[n].owner[1] = n
  BY <1>1, ZenonT(30) DEF NodeInv
<1> QED
  BY <1>2, ZenonT(30)

\* How another node moves when an event is applied.
OtherMoves(n) ==
    /\ node'[n].status \in {node[n].status, "QUEUED", "SKIPPED"}
    /\ node'[n].status = "QUEUED" => node[n].status \in {"PENDING", "QUEUED"}
    /\ node'[n].status = "PENDING" => sent'[<<n, 0>>] = sent[<<n, 0>>]

\* Applying writes statuses only, or releases the claim's node: what the other
\* nodes' claims say stands.
LEMMA AppliedNodes ==
    ASSUME DispatchInv, NEW d \in Dispatch, ClaimStands(d), StatusOnly, att' = att, kind' = kind,
           artifacts' = artifacts,
           \A e \in Dispatch : e # d => receipt'[e] = receipt[e],
           \A n \in Node : n # d[1] => OtherMoves(n),
           \A n \in Node : sent'[<<n, 1>>] = sent[<<n, 1>>],
           node'[d[1]].status \notin {"PENDING", "QUEUED", "RUNNING"},
           node'[d[1]].status = "SUCCEEDED" => d \in artifacts /\ kind[d] = "completed" /\ receipt'[d] # "none"
    PROVE  NodeInv' /\ OutputIsFromTheClaim'
<1>0. NodeInv /\ OutputIsFromTheClaim
  BY Unpack, ZenonT(30)
<1>1. ASSUME NEW n \in Node  PROVE node'[n].retry = node[n].retry /\ node'[n].owner = node[n].owner
  BY ZenonT(30) DEF StatusOnly
<1>2. ASSUME NEW n \in Node
      PROVE  /\ node'[n].retry = 0 => sent'[<<n, 1>>] = "none"
             /\ node'[n].owner # NoClaim =>
                   node'[n].owner \in Dispatch /\ node'[n].owner[1] = n /\ att'[node'[n].owner] # 0
  <2>1. /\ node[n].retry = 0 => sent[<<n, 1>>] = "none"
        /\ node[n].owner # NoClaim =>
              node[n].owner \in Dispatch /\ node[n].owner[1] = n /\ att[node[n].owner] # 0
    BY <1>0, ZenonT(30) DEF NodeInv
  <2>2. sent'[<<n, 1>>] = sent[<<n, 1>>] /\ att' = att
    BY ZenonT(30)
  <2> QED
    BY <1>1, <2>1, <2>2, ZenonT(30)
<1>3. ASSUME NEW n \in Node, n # d[1]
      PROVE  /\ node'[n].status = "PENDING" => sent'[<<n, 0>>] = "none"
             /\ node'[n].status \in {"PENDING", "QUEUED"} => node'[n].owner = NoClaim
             /\ node'[n].status = "RUNNING" => node'[n].owner # NoClaim /\ receipt'[node'[n].owner] = "none"
  <2>1. /\ node'[n].status = "PENDING" => node[n].status = "PENDING"
        /\ node'[n].status = "RUNNING" => node[n].status = "RUNNING"
        /\ node'[n].status = "QUEUED" => node[n].status \in {"PENDING", "QUEUED"}
    <3>1. OtherMoves(n)
      BY <1>3, ZenonT(30)
    <3> QED
      BY <3>1, ZenonT(30) DEF OtherMoves
  <2>2. node'[n].status = "PENDING" => sent'[<<n, 0>>] = "none"
    BY <1>0, <1>3, <2>1, ZenonT(60) DEF NodeInv, OtherMoves
  <2>3. node'[n].status \in {"PENDING", "QUEUED"} => node'[n].owner = NoClaim
    BY <1>0, <1>1, <1>3, <2>1, ZenonT(30) DEF NodeInv
  <2>4. ASSUME node'[n].status = "RUNNING"  PROVE node'[n].owner # NoClaim /\ receipt'[node'[n].owner] = "none"
    <3>1. node[n].owner # NoClaim /\ receipt[node[n].owner] = "none"
      BY <1>0, <2>1, <2>4, ZenonT(30) DEF NodeInv
    <3>2. node[n].owner # d /\ node[n].owner \in Dispatch
      BY <1>3, <3>1, OtherClaims, ZenonT(30)
    <3> QED
      BY <1>1, <3>1, <3>2, ZenonT(30)
  <2> QED
    BY <2>2, <2>3, <2>4, ZenonT(30)
<1>4. NodeInv'
  <2>1. ASSUME NEW n \in Node
        PROVE  /\ node'[n].status = "PENDING" => sent'[<<n, 0>>] = "none"
               /\ node'[n].status \in {"PENDING", "QUEUED"} => node'[n].owner = NoClaim
               /\ node'[n].status = "RUNNING" => node'[n].owner # NoClaim /\ receipt'[node'[n].owner] = "none"
    <3>1. CASE n = d[1]
      BY <3>1, ZenonT(30)
    <3> QED
      BY <1>3, <3>1, ZenonT(30)
  <2> QED
    BY <1>2, <2>1, ZenonT(30) DEF NodeInv
<1>5. node[d[1]].owner = d /\ d # NoClaim /\ d[1] \in Node
  BY Dispatches, ZenonT(30) DEF ClaimStands
<1>6. ASSUME NEW n \in Node, node'[n].status = "SUCCEEDED"
      PROVE  /\ node'[n].owner # NoClaim /\ node'[n].owner \in artifacts'
             /\ kind'[node'[n].owner] = "completed" /\ receipt'[node'[n].owner] # "none"
  <2>1. CASE n = d[1]
    BY <1>1, <1>5, <1>6, <2>1, ZenonT(30)
  <2>2. CASE n # d[1]
    <3>0. OtherMoves(n)
      BY <2>2, ZenonT(30)
    <3>1. node[n].status = "SUCCEEDED"
      BY <1>6, <3>0, ZenonT(30) DEF OtherMoves
    <3>2. /\ node[n].owner # NoClaim /\ node[n].owner \in artifacts
          /\ kind[node[n].owner] = "completed" /\ receipt[node[n].owner] # "none"
      BY <1>0, <3>1, ZenonT(30) DEF OutputIsFromTheClaim
    <3>3. node[n].owner # d /\ node[n].owner \in Dispatch
      BY <2>2, <3>2, OtherClaims, ZenonT(30)
    <3> QED
      BY <1>1, <3>2, <3>3, ZenonT(30)
  <2> QED
    BY <2>1, <2>2, ZenonT(30)
<1>7. OutputIsFromTheClaim'
  BY <1>6, ZenonT(30) DEF OutputIsFromTheClaim
<1> QED
  BY <1>4, <1>7, ZenonT(30)

LEMMA CompletedKeeps ==
    ASSUME DispatchInv, NEW d \in Dispatch, AcceptEvent(d), kind[d] = "completed", Completed(d)
    PROVE  DispatchInv' /\ LetThrough
<1> DEFINE done == [node EXCEPT ![d[1]].status = "SUCCEEDED"]
           next == Ready(done)
           row == [n \in Node |-> IF n \in next THEN [done[n] EXCEPT !.status = "QUEUED"] ELSE done[n]]
<1>0. Shape /\ EventInv /\ NodeInv /\ GraphInv
  BY Unpack, ZenonT(30)
<1>1. /\ node' = row /\ job' = Finalized(row)
      /\ sent' = [e \in Dispatch |-> IF e[1] \in next /\ e[2] = 0 THEN "pending" ELSE sent[e]]
  BY ZenonT(30) DEF Completed
<1>2. ClaimStands(d) /\ node[d[1]].status = "RUNNING" /\ d[1] \in Node
  BY Dispatches, ZenonT(30) DEF AcceptEvent, AcceptAndApply, ClaimStands
<1>3. /\ DOMAIN done = Node /\ \A n \in Node : DOMAIN done[n] = {"status", "retry", "owner"}
      /\ done[d[1]].status = "SUCCEEDED" /\ done[d[1]].retry = node[d[1]].retry /\ done[d[1]].owner = node[d[1]].owner
      /\ \A n \in Node : n # d[1] => done[n] = node[n]
  BY <1>0, <1>2, ZenonT(30) DEF Shape
<1>4. next = {n \in Node : done[n].status = "PENDING" /\ \A m \in Dep[n] : done[m].status = "SUCCEEDED"}
  BY ZenonT(30) DEF Ready
<1> HIDE DEF done, next
<1>5. \A n \in next : n \in Node /\ n # d[1] /\ node[n].status = "PENDING" /\ \A m \in Dep[n] : done[m].status = "SUCCEEDED"
  BY <1>3, <1>4, ZenonT(30)
<1>6. \A n \in Node : /\ n \in next => node'[n] = [done[n] EXCEPT !.status = "QUEUED"]
                      /\ n \notin next => node'[n] = done[n]
  BY <1>1, ZenonT(30)
<1>7. /\ StatusOnly
      /\ \A n \in next : node'[n].status = "QUEUED"
      /\ node'[d[1]].status = "SUCCEEDED"
      /\ \A n \in Node : n # d[1] /\ n \notin next => node'[n] = node[n]
  <2>0. \A n \in Node : done[n].retry = node[n].retry /\ done[n].owner = node[n].owner
    BY <1>3, ZenonT(30)
  <2>1. ASSUME NEW n \in Node
        PROVE  /\ DOMAIN node'[n] = {"status", "retry", "owner"}
               /\ node'[n].retry = node[n].retry /\ node'[n].owner = node[n].owner
    <3>1. CASE n \in next
      <4>1. DOMAIN done[n] = {"status", "retry", "owner"} /\ node'[n] = [done[n] EXCEPT !.status = "QUEUED"]
        BY <1>3, <1>6, <3>1, ZenonT(30)
      <4>2. /\ DOMAIN node'[n] = {"status", "retry", "owner"}
            /\ node'[n].retry = done[n].retry /\ node'[n].owner = done[n].owner
        BY <4>1, NodeRecord, ZenonT(30)
      <4> QED
        BY <2>0, <4>2, ZenonT(30)
    <3>2. CASE n \notin next
      BY <1>3, <1>6, <2>0, <3>2, ZenonT(30)
    <3> QED
      BY <3>1, <3>2, ZenonT(30)
  <2>2. DOMAIN node' = Node
    BY <1>1, ZenonT(30)
  <2>3. \A n \in next : node'[n].status = "QUEUED"
    <3>1. ASSUME NEW n \in next  PROVE node'[n].status = "QUEUED"
      <4>1. DOMAIN done[n] = {"status", "retry", "owner"} /\ node'[n] = [done[n] EXCEPT !.status = "QUEUED"]
        BY <1>3, <1>5, <1>6, <3>1, ZenonT(30)
      <4> QED
        BY <4>1, NodeRecord, ZenonT(30)
    <3> QED
      BY <3>1, ZenonT(30)
  <2>4. node'[d[1]].status = "SUCCEEDED" /\ \A n \in Node : n # d[1] /\ n \notin next => node'[n] = node[n]
    <3> HIDE DEF row
    <3>1. d[1] \in Node /\ d[1] \notin next
      BY <1>2, <1>5, ZenonT(30)
    <3>2. node'[d[1]] = done[d[1]]
      BY <1>6, <3>1, ZenonT(30)
    <3>3. node'[d[1]].status = "SUCCEEDED"
      BY <1>3, <3>2, ZenonT(30)
    <3>4. ASSUME NEW n \in Node, n # d[1], n \notin next  PROVE node'[n] = node[n]
      BY <1>3, <1>6, <3>4, ZenonT(30)
    <3> QED
      BY <3>3, <3>4, ZenonT(30)
  <2> QED
    BY <2>1, <2>2, <2>3, <2>4, ZenonT(30) DEF StatusOnly
<1>8. /\ Staged /\ \A n \in Node : sent'[<<n, 1>>] = sent[<<n, 1>>] /\ (n \notin next => sent'[<<n, 0>>] = sent[<<n, 0>>])
  <2>1. \A n \in next : sent[<<n, 0>>] = "none"
    BY <1>0, <1>5, ZenonT(30) DEF NodeInv
  <2>2. ASSUME NEW e \in Dispatch, e[1] \in next, e[2] = 0  PROVE sent[e] = "none" /\ sent'[e] = "pending"
    <3>1. e = <<e[1], 0>>
      BY <2>2, Dispatches, ZenonT(30)
    <3>2. sent[<<e[1], 0>>] = "none"
      BY <2>1, <2>2, ZenonT(30)
    <3>3. sent'[e] = "pending"
      BY <1>1, <2>2, ZenonT(30)
    <3> QED
      BY <3>1, <3>2, <3>3, ZenonT(30)
  <2>3. ASSUME NEW e \in Dispatch, ~(e[1] \in next /\ e[2] = 0)  PROVE sent'[e] = sent[e]
    BY <1>1, <2>3, ZenonT(30)
  <2>4. DOMAIN sent' = Dispatch
    BY <1>1, ZenonT(30)
  <2>5. Staged
    BY <2>2, <2>3, <2>4, ZenonT(30) DEF Staged
  <2>6. ASSUME NEW n \in Node  PROVE sent'[<<n, 1>>] = sent[<<n, 1>>] /\ (n \notin next => sent'[<<n, 0>>] = sent[<<n, 0>>])
    <3>1. <<n, 0>> \in Dispatch /\ <<n, 1>> \in Dispatch
      BY Dispatches, ZenonT(30)
    <3>2. <<n, 0>>[1] = n /\ <<n, 1>>[2] = 1 /\ 1 # 0
      BY SMTT(30)
    <3> QED
      BY <2>3, <3>1, <3>2, ZenonT(30)
  <2> QED
    BY <2>5, <2>6, ZenonT(30)
<1>9. job' # "deleted" /\ (job' \in Settled => \A n \in Node : node'[n].status \notin Active)
  <2> HIDE DEF row
  <2> QED
    BY <1>1, FinalizedIs, ZenonT(30)
<1>10. /\ LeaseShape' /\ RowInv' /\ EventInv' /\ CancelInv' /\ NoTaskLost' /\ LetThrough
       /\ res' = res /\ att' = att /\ kind' = kind /\ artifacts' = artifacts /\ stopping' = stopping
       /\ sender' = sender /\ marker' = marker /\ tasks' = tasks /\ events' = events
       /\ DOMAIN receipt' = Dispatch /\ DOMAIN emis' = Dispatch
       /\ receipt'[d] = "applied" /\ \A e \in Dispatch : e # d => receipt'[e] = receipt[e]
  BY <1>8, <1>9, AcceptRows, ZenonT(30)
<1>11. Shape'
  BY <1>0, <1>7, <1>8, <1>10, ZenonT(30) DEF Shape, StatusOnly, Staged
<1>12. ASSUME NEW n \in Node, n # d[1]  PROVE OtherMoves(n)
  <2>1. CASE n \in next
    <3>1. node'[n].status = "QUEUED" /\ node[n].status = "PENDING"
      BY <1>5, <1>7, <2>1, ZenonT(30)
    <3> QED
      BY <3>1, ZenonT(30) DEF OtherMoves
  <2>2. CASE n \notin next
    <3>1. node'[n] = node[n] /\ sent'[<<n, 0>>] = sent[<<n, 0>>]
      BY <1>7, <1>8, <1>12, <2>2, ZenonT(30)
    <3> QED
      BY <3>1, ZenonT(30) DEF OtherMoves
  <2> QED
    BY <2>1, <2>2, ZenonT(30)
<1>13. NodeInv' /\ OutputIsFromTheClaim'
  <2>1. d \in artifacts /\ receipt'[d] # "none"
    BY <1>0, <1>10, ZenonT(30) DEF EventInv
  <2>2. node'[d[1]].status \notin {"PENDING", "QUEUED", "RUNNING"}
    BY <1>7, ZenonT(30)
  <2>3. \A n \in Node : sent'[<<n, 1>>] = sent[<<n, 1>>]
    BY <1>8, ZenonT(30)
  <2> QED
    BY <1>2, <1>7, <1>10, <1>12, <2>1, <2>2, <2>3, AppliedNodes, ZenonT(30)
<1>14. GraphInv'
  <2>1. ASSUME NEW n \in Node  PROVE Moves(n)
    <3>1. CASE n = d[1]
      BY <1>2, <1>7, <3>1, ZenonT(30) DEF Moves
    <3>2. CASE n \in next
      <4>1. ASSUME NEW m \in Dep[n]  PROVE node'[m].status = "SUCCEEDED"
        <5>1. m \in Node /\ done[m].status = "SUCCEEDED"
          BY <1>5, <3>2, <4>1, ZenonT(30)
        <5>2. m \notin next
          <6>1. ASSUME m \in next  PROVE FALSE
            <7>1. done[m].status = "PENDING"
              BY <1>4, <6>1, ZenonT(30)
            <7> QED
              BY <5>1, <7>1, ZenonT(30)
          <6> QED
            BY <6>1, ZenonT(30)
        <5> QED
          BY <1>6, <5>1, <5>2, ZenonT(30)
      <4> QED
        BY <1>5, <1>7, <3>2, <4>1, ZenonT(30) DEF Moves
    <3>3. CASE n # d[1] /\ n \notin next
      BY <1>7, <3>3, ZenonT(30) DEF Moves
    <3> QED
      BY <3>1, <3>2, <3>3, ZenonT(30)
  <2> QED
    BY <1>0, <1>9, <1>10, <2>1, MovesKeepGraph, ZenonT(30)
<1> QED
  BY <1>10, <1>11, <1>13, <1>14, ZenonT(30) DEF DispatchInv

LEMMA FailedKeeps ==
    ASSUME DispatchInv, NEW d \in Dispatch, AcceptEvent(d), Failed(d)
    PROVE  DispatchInv' /\ LetThrough
<1> DEFINE row == [n \in Node |->
                     IF n = d[1] THEN [node[n] EXCEPT !.status = "FAILED"]
                     ELSE IF n \in Downstream({d[1]}) /\ node[n].status = "PENDING"
                     THEN [node[n] EXCEPT !.status = "SKIPPED"] ELSE node[n]]
<1>0. Shape /\ GraphInv
  BY Unpack, ZenonT(30)
<1>1. node' = row /\ job' = Finalized(row) /\ sent' = sent
  BY ZenonT(30) DEF Failed
<1>2. ClaimStands(d) /\ node[d[1]].status = "RUNNING" /\ d[1] \in Node
  BY Dispatches, ZenonT(30) DEF AcceptEvent, AcceptAndApply, ClaimStands
<1>3. DOMAIN node' = Node /\ node'[d[1]] = [node[d[1]] EXCEPT !.status = "FAILED"]
  BY <1>1, <1>2, ZenonT(30)
<1>4. \A n \in Node : n # d[1] =>
        \/ node'[n] = node[n]
        \/ node[n].status = "PENDING" /\ node'[n] = [node[n] EXCEPT !.status = "SKIPPED"]
  BY <1>1, ZenonT(30)
<1>5. /\ StatusOnly /\ node'[d[1]].status = "FAILED"
      /\ \A n \in Node : n # d[1] =>
            \/ node'[n].status = node[n].status
            \/ node[n].status = "PENDING" /\ node'[n].status = "SKIPPED"
  <2>1. ASSUME NEW n \in Node
        PROVE  /\ DOMAIN node'[n] = {"status", "retry", "owner"}
               /\ node'[n].retry = node[n].retry /\ node'[n].owner = node[n].owner
    <3>1. CASE n = d[1]
      BY <1>0, <1>3, <3>1, ZenonT(30) DEF Shape
    <3>2. CASE n # d[1] /\ node'[n] = node[n]
      BY <1>0, <3>2, ZenonT(30) DEF Shape
    <3>3. CASE n # d[1] /\ node'[n] = [node[n] EXCEPT !.status = "SKIPPED"]
      <4>1. DOMAIN node[n] = {"status", "retry", "owner"}
        BY <1>0, ZenonT(30) DEF Shape
      <4> QED
        BY <3>3, <4>1, NodeRecord, ZenonT(30)
    <3> QED
      BY <1>4, <3>1, <3>2, <3>3, ZenonT(30)
  <2>2. node'[d[1]].status = "FAILED"
    BY <1>0, <1>2, <1>3, ZenonT(30) DEF Shape
  <2>3. ASSUME NEW n \in Node, n # d[1]
        PROVE  \/ node'[n].status = node[n].status
               \/ node[n].status = "PENDING" /\ node'[n].status = "SKIPPED"
    <3>1. DOMAIN node[n] = {"status", "retry", "owner"}
      BY <1>0, ZenonT(30) DEF Shape
    <3>2. CASE node[n].status = "PENDING" /\ node'[n] = [node[n] EXCEPT !.status = "SKIPPED"]
      BY <3>1, <3>2, NodeRecord, ZenonT(30)
    <3> QED
      BY <1>4, <2>3, <3>2, ZenonT(30)
  <2> QED
    BY <1>3, <2>1, <2>2, <2>3, ZenonT(30) DEF StatusOnly
<1>8. Staged
  BY <1>0, <1>1, ZenonT(30) DEF Staged, Shape
<1>9. job' # "deleted" /\ (job' \in Settled => \A n \in Node : node'[n].status \notin Active)
  <2> HIDE DEF row
  <2> QED
    BY <1>1, FinalizedIs, ZenonT(30)
<1>10. /\ LeaseShape' /\ RowInv' /\ EventInv' /\ CancelInv' /\ NoTaskLost' /\ LetThrough
       /\ res' = res /\ att' = att /\ kind' = kind /\ artifacts' = artifacts /\ stopping' = stopping
       /\ sender' = sender /\ marker' = marker /\ tasks' = tasks /\ events' = events
       /\ DOMAIN receipt' = Dispatch /\ DOMAIN emis' = Dispatch
       /\ receipt'[d] = "applied" /\ \A e \in Dispatch : e # d => receipt'[e] = receipt[e]
  BY <1>8, <1>9, AcceptRows, ZenonT(30)
<1>11. Shape'
  BY <1>0, <1>5, <1>8, <1>10, ZenonT(30) DEF Shape, StatusOnly, Staged
<1>12. ASSUME NEW n \in Node, n # d[1]  PROVE OtherMoves(n)
  BY <1>1, <1>5, <1>12, ZenonT(30) DEF OtherMoves
<1>13. NodeInv' /\ OutputIsFromTheClaim'
  <2>1. node'[d[1]].status \notin {"PENDING", "QUEUED", "RUNNING"} /\ node'[d[1]].status # "SUCCEEDED"
    BY <1>5, ZenonT(30)
  <2>2. \A n \in Node : sent'[<<n, 1>>] = sent[<<n, 1>>]
    BY <1>1, ZenonT(30)
  <2> QED
    BY <1>2, <1>5, <1>10, <1>12, <2>1, <2>2, AppliedNodes, ZenonT(30)
<1>14. GraphInv'
  <2>1. ASSUME NEW n \in Node  PROVE Moves(n)
    <3>1. CASE n = d[1]
      BY <1>2, <1>5, <3>1, ZenonT(30) DEF Moves
    <3>2. CASE n # d[1]
      BY <1>5, <3>2, ZenonT(30) DEF Moves
    <3> QED
      BY <3>1, <3>2, ZenonT(30)
  <2> QED
    BY <1>0, <1>9, <1>10, <2>1, MovesKeepGraph, ZenonT(30)
<1> QED
  BY <1>10, <1>11, <1>13, <1>14, ZenonT(30) DEF DispatchInv

LEMMA RetriedKeeps ==
    ASSUME DispatchInv, NEW d \in Dispatch, AcceptEvent(d), Retried(d)
    PROVE  DispatchInv' /\ LetThrough
<1>0. Shape /\ NodeInv /\ GraphInv /\ OutputIsFromTheClaim
  BY Unpack, ZenonT(30)
<1>1. /\ node[d[1]].retry = 0 /\ job' = job
      /\ node' = [node EXCEPT ![d[1]] = [status |-> "QUEUED", retry |-> 1, owner |-> NoClaim]]
      /\ sent' = [sent EXCEPT ![<<d[1], 1>>] = "pending"]
  BY ZenonT(30) DEF Retried, Released
<1>2. /\ ClaimStands(d) /\ job = "RUNNING" /\ node[d[1]].status = "RUNNING" /\ d[1] \in Node
      /\ <<d[1], 1>> \in Dispatch
  BY Dispatches, ZenonT(30) DEF AcceptEvent, AcceptAndApply, ClaimStands
<1>3. /\ DOMAIN node' = Node /\ node'[d[1]] = [status |-> "QUEUED", retry |-> 1, owner |-> NoClaim]
      /\ \A n \in Node : n # d[1] => node'[n] = node[n]
  BY <1>0, <1>1, <1>2, ZenonT(30) DEF Shape
<1>4. /\ DOMAIN node'[d[1]] = {"status", "retry", "owner"} /\ node'[d[1]].status = "QUEUED"
      /\ node'[d[1]].retry = 1 /\ node'[d[1]].owner = NoClaim
  BY <1>3, SMTT(30)
<1>5. /\ Staged /\ \A n \in Node : sent'[<<n, 0>>] = sent[<<n, 0>>] /\ (n # d[1] => sent'[<<n, 1>>] = sent[<<n, 1>>])
  <2>1. /\ DOMAIN sent' = Dispatch /\ sent'[<<d[1], 1>>] = "pending"
        /\ \A e \in Dispatch : e # <<d[1], 1>> => sent'[e] = sent[e]
    BY <1>0, <1>1, <1>2, ZenonT(30) DEF Shape
  <2>2. sent[<<d[1], 1>>] = "none"
    BY <1>0, <1>1, <1>2, ZenonT(30) DEF NodeInv
  <2>3. Staged
    BY <2>1, <2>2, ZenonT(30) DEF Staged
  <2>4. \A n \in Node : <<n, 0>> \in Dispatch /\ <<n, 1>> \in Dispatch
    BY Dispatches, ZenonT(30)
  <2>5. \A n \in Node : <<n, 0>> # <<d[1], 1>> /\ (n # d[1] => <<n, 1>> # <<d[1], 1>>)
    BY SMTT(30)
  <2> QED
    BY <2>1, <2>3, <2>4, <2>5, ZenonT(30)
<1>9. job' # "deleted" /\ job' \notin Settled
  BY <1>1, <1>2, ZenonT(30) DEF Settled
<1>10. /\ LeaseShape' /\ RowInv' /\ EventInv' /\ CancelInv' /\ NoTaskLost' /\ LetThrough
       /\ res' = res /\ att' = att /\ kind' = kind /\ artifacts' = artifacts /\ stopping' = stopping
       /\ sender' = sender /\ marker' = marker /\ tasks' = tasks /\ events' = events
       /\ DOMAIN receipt' = Dispatch /\ DOMAIN emis' = Dispatch
       /\ receipt'[d] = "applied" /\ \A e \in Dispatch : e # d => receipt'[e] = receipt[e]
  BY <1>5, <1>9, AcceptRows, ZenonT(30)
<1>11. Shape'
  <2>1. \A n \in Node : DOMAIN node'[n] = {"status", "retry", "owner"}
    BY <1>0, <1>3, <1>4, ZenonT(30) DEF Shape
  <2> QED
    BY <1>0, <1>3, <1>5, <1>10, <2>1, ZenonT(30) DEF Shape, Staged
<1>12. NodeInv'
  <2>1. ASSUME NEW n \in Node
        PROVE  /\ node'[n].status = "PENDING" => sent'[<<n, 0>>] = "none"
               /\ node'[n].retry = 0 => sent'[<<n, 1>>] = "none"
               /\ node'[n].owner # NoClaim =>
                     node'[n].owner \in Dispatch /\ node'[n].owner[1] = n /\ att'[node'[n].owner] # 0
               /\ node'[n].status \in {"PENDING", "QUEUED"} => node'[n].owner = NoClaim
               /\ node'[n].status = "RUNNING" => node'[n].owner # NoClaim /\ receipt'[node'[n].owner] = "none"
    <3>1. CASE n = d[1]
      BY <1>4, <3>1, SMTT(30)
    <3>2. CASE n # d[1]
      <4>1. node'[n] = node[n] /\ sent'[<<n, 0>>] = sent[<<n, 0>>] /\ sent'[<<n, 1>>] = sent[<<n, 1>>]
        BY <1>3, <1>5, <3>2, ZenonT(30)
      <4>2. node[n].status = "RUNNING" => receipt'[node[n].owner] = "none"
        <5>1. ASSUME node[n].status = "RUNNING"  PROVE receipt'[node[n].owner] = "none"
          <6>1. node[n].owner # NoClaim /\ receipt[node[n].owner] = "none"
            BY <1>0, <5>1, ZenonT(30) DEF NodeInv
          <6>2. node[n].owner # d /\ node[n].owner \in Dispatch
            BY <3>2, <6>1, OtherClaims, ZenonT(30)
          <6> QED
            BY <1>10, <6>1, <6>2, ZenonT(30)
        <5> QED
          BY <5>1, ZenonT(30)
      <4>3. /\ node[n].status = "PENDING" => sent[<<n, 0>>] = "none"
            /\ node[n].retry = 0 => sent[<<n, 1>>] = "none"
            /\ node[n].owner # NoClaim =>
                  node[n].owner \in Dispatch /\ node[n].owner[1] = n /\ att[node[n].owner] # 0
            /\ node[n].status \in {"PENDING", "QUEUED"} => node[n].owner = NoClaim
            /\ node[n].status = "RUNNING" => node[n].owner # NoClaim
        BY <1>0, ZenonT(30) DEF NodeInv
      <4> QED
        BY <1>10, <4>1, <4>2, <4>3, ZenonT(30)
    <3> QED
      BY <3>1, <3>2, ZenonT(30)
  <2> QED
    BY <2>1, ZenonT(30) DEF NodeInv
<1>13. OutputIsFromTheClaim'
  <2>1. ASSUME NEW n \in Node, node'[n].status = "SUCCEEDED"
        PROVE  /\ node'[n].owner # NoClaim /\ node'[n].owner \in artifacts'
               /\ kind'[node'[n].owner] = "completed" /\ receipt'[node'[n].owner] # "none"
    <3>1. n # d[1]
      BY <1>4, <2>1, ZenonT(30)
    <3>2. node'[n] = node[n]
      BY <1>3, <3>1, ZenonT(30)
    <3>3. /\ node[n].owner # NoClaim /\ node[n].owner \in artifacts
          /\ kind[node[n].owner] = "completed" /\ receipt[node[n].owner] # "none"
      BY <1>0, <2>1, <3>2, ZenonT(30) DEF OutputIsFromTheClaim
    <3>4. node[n].owner # d /\ node[n].owner \in Dispatch
      BY <3>1, <3>3, OtherClaims, ZenonT(30)
    <3> QED
      BY <1>10, <3>2, <3>3, <3>4, ZenonT(30)
  <2> QED
    BY <2>1, ZenonT(30) DEF OutputIsFromTheClaim
<1>14. GraphInv'
  <2>1. ASSUME NEW n \in Node  PROVE Moves(n)
    <3>1. CASE n = d[1]
      BY <1>2, <1>4, <3>1, ZenonT(30) DEF Moves
    <3>2. CASE n # d[1]
      BY <1>3, <3>2, ZenonT(30) DEF Moves
    <3> QED
      BY <3>1, <3>2, ZenonT(30)
  <2> QED
    BY <1>0, <1>9, <1>10, <2>1, MovesKeepGraph, ZenonT(30)
<1> QED
  BY <1>10, <1>11, <1>12, <1>13, <1>14, ZenonT(30) DEF DispatchInv

LEMMA AcceptEventKeeps ==
    ASSUME DispatchInv, NEW d \in Dispatch, AcceptEvent(d)  PROVE DispatchInv' /\ LetThrough
<1>1. (kind[d] = "completed" /\ Completed(d)) \/ Retried(d) \/ Failed(d)
  BY ZenonT(30) DEF AcceptEvent, AcceptAndApply, ApplyEvent
<1> QED
  BY <1>1, CompletedKeeps, RetriedKeeps, FailedKeeps, ZenonT(30)

-----------------------------------------------------------------------------
(* The theorems. *)

LEMMA InitInv == DispatchInit => DispatchInv
<1> SUFFICES ASSUME DispatchInit  PROVE DispatchInv
  BY ZenonT(30)
<1>1. /\ job = "RUNNING" /\ stopping = <<>> /\ sender = {} /\ marker = {} /\ tasks = {} /\ events = {}
      /\ node = [n \in Node |-> [status |-> "PENDING", retry |-> 0, owner |-> NoClaim]]
      /\ sent = [d \in Dispatch |-> "none"] /\ res = [d \in Dispatch |-> "unresolved"]
      /\ att = [d \in Dispatch |-> 0] /\ emis = [d \in Dispatch |-> "none"]
      /\ kind = [d \in Dispatch |-> "none"] /\ receipt = [d \in Dispatch |-> "none"]
  BY ZenonT(30) DEF DispatchInit
<1>2. LeaseShape
  <2>1. lease = [epoch |-> 0, active |-> FALSE, fresh |-> FALSE]
    BY ZenonT(30) DEF DispatchInit, LeaseInit, NoLease
  <2>2. DOMAIN lease = {"epoch", "active", "fresh"} /\ lease.epoch = 0
    BY <2>1, ZenonT(30)
  <2>3. ~lease.active
    BY <2>1, ZenonT(30)
  <2> QED
    BY <2>2, <2>3, SMTT(30) DEF LeaseShape
<1>3. \A n \in Node : /\ DOMAIN node[n] = {"status", "retry", "owner"}
                      /\ node[n].status = "PENDING" /\ node[n].retry = 0 /\ node[n].owner = NoClaim
  BY <1>1, ZenonT(30)
<1>4. \A d \in Dispatch : /\ sent[d] = "none" /\ res[d] = "unresolved" /\ att[d] = 0 /\ emis[d] = "none"
                          /\ kind[d] = "none" /\ receipt[d] = "none"
  BY <1>1, ZenonT(30)
<1>5. Shape
  BY <1>1, <1>3, ZenonT(30) DEF Shape
<1>6. RowInv
  BY <1>1, <1>4, ZenonT(30) DEF RowInv, ResolutionState
<1>7. EventInv
  BY <1>1, <1>4, ZenonT(30) DEF EventInv, EmissionState
<1>8. NodeInv
  <2>0. \A n \in Node : node[n].status # "RUNNING"
    BY <1>3, ZenonT(30)
  <2>1. \A n \in Node : sent[<<n, 0>>] = "none" /\ sent[<<n, 1>>] = "none"
    BY <1>4, Dispatches, ZenonT(30)
  <2> QED
    BY <1>3, <2>0, <2>1, ZenonT(30) DEF NodeInv
<1>9. CancelInv
  BY <1>1, <1>4, ZenonT(30) DEF CancelInv
<1>10. NoTaskLost
  BY <1>1, ZenonT(30) DEF NoTaskLost
<1>11. OutputIsFromTheClaim
  BY <1>3, ZenonT(30) DEF OutputIsFromTheClaim
<1>12. GraphInv
  <2>1. StopInv
    BY <1>1, ZenonT(30) DEF StopInv
  <2>2. DependenciesFirst
    BY <1>3, ZenonT(30) DEF DependenciesFirst
  <2>3. SettledHasNoActiveNode
    BY <1>1, ZenonT(30) DEF SettledHasNoActiveNode, Settled
  <2> QED
    BY <2>1, <2>2, <2>3, ZenonT(30) DEF GraphInv
<1> QED
  BY <1>2, <1>5, <1>6, <1>7, <1>8, <1>9, <1>10, <1>11, <1>12, ZenonT(30) DEF DispatchInv

\* Every step keeps the invariant and writes only what the triggers let through.
LEMMA StepKeeps == DispatchInv /\ DispatchNext => DispatchInv' /\ LetThrough
<1> SUFFICES ASSUME DispatchInv, DispatchNext  PROVE DispatchInv' /\ LetThrough
  BY ZenonT(30)
<1>1. CASE StartWorker \/ StopWorker \/ MissHeartbeats \/ Crash
  BY <1>1, WorkerProcessKeeps, ZenonT(30)
<1>2. CASE \E n \in Node : StageInitial(n)
  BY <1>2, StageInitialKeeps, ZenonT(30)
<1>3. ASSUME NEW d \in Dispatch, BeginAttempt(d) \/ XaddTask(d) \/ MarkDelivered(d) \/ SenderFails(d) \/ RecoverStaleAttempt(d)
      PROVE  DispatchInv' /\ LetThrough
  BY <1>3, BeginAttemptKeeps, XaddTaskKeeps, AttemptKeeps, ZenonT(30)
<1>4. ASSUME NEW d \in Dispatch, WorkerSteps(d)  PROVE DispatchInv' /\ LetThrough
  <2>1. ClaimNode(d) \/ PersistArtifact(d) \/ SendEvent(d) \/ AckTask(d) \/ Abandon(d)
        \/ PrepareEvent(d, "completed") \/ PrepareEvent(d, "failed")
    BY <1>4, ZenonT(30) DEF WorkerSteps, ProcessTask, ReportSuccess, ReportFailure
  <2>2. CASE PrepareEvent(d, "completed") \/ PrepareEvent(d, "failed")
    BY <2>2, PrepareEventKeeps, ZenonT(30)
  <2>3. CASE Abandon(d)
    BY <2>3, WorkerProcessKeeps, ZenonT(30)
  <2> QED
    BY <2>1, <2>2, <2>3, ClaimNodeKeeps, PersistArtifactKeeps, SendEventKeeps, AckTaskKeeps, ZenonT(30)
<1>5. ASSUME NEW d \in Dispatch, AcceptEvent(d) \/ AckEvent(d)  PROVE DispatchInv' /\ LetThrough
  BY <1>5, AcceptEventKeeps, AckEventKeeps, ZenonT(30)
<1>6. ASSUME NEW d \in Dispatch, CancelPending(d) \/ AuthorizeCancelledAck(d) \/ AckCancelled(d)
      PROVE  DispatchInv' /\ LetThrough
  BY <1>6, WithdrawKeeps, ZenonT(30)
<1>7. CASE CancelReads \/ CancelWrites \/ DeleteJob
  BY <1>7, CancelReadsKeeps, CancelWritesKeeps, DeleteJobKeeps, ZenonT(30)
<1> QED
  BY <1>1, <1>2, <1>3, <1>4, <1>5, <1>6, <1>7, ZenonT(30) DEF DispatchNext

LEMMA StutterKeeps == DispatchInv /\ UNCHANGED dispatchVars => DispatchInv' /\ LetThrough
<1> SUFFICES ASSUME DispatchInv, UNCHANGED dispatchVars  PROVE DispatchInv' /\ LetThrough
  BY ZenonT(30)
<1>1. UNCHANGED <<job, node, stopping, rowVars, redisVars>> /\ UNCHANGED leaseVars
  BY ZenonT(30) DEF dispatchVars, rowVars, redisVars
<1>2. LeaseShape'
  BY <1>1, Unpack, LeaseKeeps, ZenonT(30)
<1> QED
  BY <1>1, <1>2, QuietKeeps, ZenonT(30)

\* The inductive invariant holds in every state the pipeline reaches, for any
\* job graph, number of registrations and number of faults.
THEOREM DispatchInvariant == DispatchSpec => []DispatchInv
<1>1. DispatchInv /\ [DispatchNext]_dispatchVars => DispatchInv'
  BY StepKeeps, StutterKeeps, ZenonT(30)
<1> QED
  BY <1>1, InitInv, PTL DEF DispatchSpec

\* XACK never loses a task: its message leaves Redis only when its outcome is in
\* the event stream or applied, or the job was cancelled.
THEOREM NothingIsLost == DispatchSpec => []NoTaskLost
<1>1. DispatchInv => NoTaskLost
  BY Unpack, ZenonT(30)
<1> QED
  BY <1>1, DispatchInvariant, PTL

\* A node succeeds by the one claim it names, whose output is stored and whose
\* receipt is applied.
THEOREM OutputsAreClaimed == DispatchSpec => []OutputIsFromTheClaim
<1>1. DispatchInv => OutputIsFromTheClaim
  BY Unpack, ZenonT(30)
<1> QED
  BY <1>1, DispatchInvariant, PTL

\* No transaction of the orchestrator or of a worker is refused by a row trigger
\* of alembic 034, so none fails again on every retry.
THEOREM TriggersNeverRefuse == DispatchSpec => TriggersLetWritesThrough
<1>1. DispatchInv /\ [DispatchNext]_dispatchVars => LetThrough
  BY StepKeeps, StutterKeeps, ZenonT(30)
<1>2. LetThrough <=> \A d \in Dispatch : /\ ReceiptTrigger(d) /\ AttestationTrigger(d)
                                         /\ EmissionTrigger(d) /\ DispatchTrigger(d)
  BY ZenonT(30) DEF LetThrough
<1> QED
  BY <1>1, <1>2, DispatchInvariant, PTL DEF TriggersLetWritesThrough, DispatchSpec

\* Whatever order events arrive in, and whenever a cancel request that locked
\* nothing writes, a node starts only after all its dependencies succeeded.
THEOREM DependenciesInOrder == DispatchSpec => []DependenciesFirst
<1>1. DispatchInv => DependenciesFirst
  BY Unpack, ZenonT(30) DEF GraphInv
<1> QED
  BY <1>1, DispatchInvariant, PTL

\* A settled job has no active node, a stale cancel notwithstanding.
THEOREM SettledIsQuiet == DispatchSpec => []SettledHasNoActiveNode
<1>1. DispatchInv => SettledHasNoActiveNode
  BY Unpack, ZenonT(30) DEF GraphInv
<1> QED
  BY <1>1, DispatchInvariant, PTL

\* A withdrawn dispatch has produced no event and never does.
THEOREM WithdrawnIsSilent == DispatchSpec => []WithdrawnHasNoOutcome
<1>1. ASSUME DispatchInv  PROVE WithdrawnHasNoOutcome
  <2>1. EventInv /\ CancelInv
    BY <1>1, Unpack, ZenonT(30)
  <2> QED
    BY <2>1, ZenonT(30) DEF EventInv, CancelInv, WithdrawnHasNoOutcome
<1> QED
  BY <1>1, DispatchInvariant, PTL

\* When a job is deleted, none of its outcomes waits in the event stream, none of
\* its tasks is still to be sent, and no task message a worker claimed is left;
\* one left in the stream was withdrawn unclaimed.
THEOREM DeletionIsClean == DispatchSpec => []DeletedLeavesNoWork
<1>1. ASSUME DispatchInv, job = "deleted"
      PROVE  /\ events = {} /\ sender \subseteq marker
             /\ \A d \in tasks : att[d] = 0 /\ res[d] = "acknowledged"
  <2>0. Shape /\ RowInv /\ EventInv /\ CancelInv
    BY <1>1, Unpack, ZenonT(30)
  <2>1. ASSUME NEW d \in Dispatch
        PROVE  (d \in tasks => att[d] = 0 /\ res[d] = "acknowledged") /\ d \notin events /\ (d \in sender => d \in marker)
    <3>1. Resolved(d)
      BY <1>1, <2>0, ZenonT(30) DEF CancelInv
    <3>2. CASE sent[d] = "none" \/ sent[d] = "cancelled"
      <4>1. d \notin marker /\ d \notin sender /\ att[d] = 0
        BY <2>0, <3>2, ZenonT(30) DEF RowInv, ResolutionState
      <4> QED
        BY <2>0, <4>1, ZenonT(30) DEF EventInv, Shape
    <3>3. CASE res[d] = "acknowledged" /\ emis[d] \in {"none", "resolved"}
      <4>1. d \in tasks => att[d] = 0
        BY <2>0, <3>3, ZenonT(30) DEF CancelInv
      <4>2. d \in marker
        BY <2>0, <3>3, ZenonT(30) DEF RowInv, ResolutionState
      <4>3. d \notin events
        BY <2>0, <3>3, ZenonT(30) DEF EventInv
      <4> QED
        BY <3>3, <4>1, <4>2, <4>3, ZenonT(30)
    <3> QED
      BY <3>1, <3>2, <3>3, ZenonT(30) DEF Resolved
  <2> QED
    BY <2>0, <2>1, ZenonT(30) DEF Shape
<1>2. DispatchInv => DeletedLeavesNoWork
  BY <1>1, ZenonT(30) DEF DeletedLeavesNoWork
<1> QED
  BY <1>2, DispatchInvariant, PTL

\* vp_recover_registered_worker_node never finds a registered claim to reset:
\* until the outcome is applied, its dispatch or its event is unresolved.
THEOREM ClaimsAreHeld == DispatchSpec => []ClaimedNodeIsHeld
<1>1. ASSUME DispatchInv, NEW n \in Node, Recoverable(n)  PROVE FALSE
  <2>0. RowInv /\ EventInv /\ NodeInv /\ CancelInv
    BY <1>1, Unpack, ZenonT(30)
  <2> DEFINE d == node[n].owner
  <2>1. /\ job = "RUNNING" /\ node[n].status \in {"QUEUED", "RUNNING"} /\ d # NoClaim
        /\ \A e \in Dispatch : e[1] = n /\ sent[e] # "none" =>
              /\ res[e] \notin {"unresolved", "cancel_authorized"}
              /\ emis[e] \notin {"prepared", "emitted"}
    BY <1>1, ZenonT(30) DEF Recoverable
  <2>2. d \in Dispatch /\ d[1] = n /\ att[d] # 0 /\ receipt[d] = "none"
    BY <2>0, <2>1, ZenonT(30) DEF NodeInv
  <2> HIDE DEF d
  <2>3. sent[d] = "delivered"
    BY <2>0, <2>2, ZenonT(30) DEF RowInv
  <2>4. emis[d] \notin {"prepared", "emitted"} /\ res[d] \notin {"unresolved", "cancel_authorized"}
    BY <2>1, <2>2, <2>3, ZenonT(30)
  <2>5. emis[d] = "none"
    BY <2>0, <2>2, <2>4, ZenonT(30) DEF EventInv, EmissionState
  <2>6. res[d] \in {"acknowledged", "cancelled"}
    BY <2>0, <2>2, <2>4, ZenonT(30) DEF RowInv, ResolutionState
  <2>7. ~Stopped(d) /\ job # "deleted" /\ ~EventOut(d)
    BY <2>1, <2>5, ZenonT(30) DEF Stopped, EventOut
  <2> QED
    BY <2>0, <2>2, <2>6, <2>7, ZenonT(30) DEF CancelInv
<1>2. DispatchInv => ClaimedNodeIsHeld
  BY <1>1, ZenonT(30) DEF ClaimedNodeIsHeld
<1> QED
  BY <1>2, DispatchInvariant, PTL
=============================================================================
