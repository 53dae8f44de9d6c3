-------------------------- MODULE OrchestratorProofs --------------------------
(***************************************************************************)
(* Proofs about Orchestrator, for any jobs, any graph, any mix of          *)
(* registered and unregistered workers, and any number of claims and       *)
(* faults.                                                                 *)
(*                                                                         *)
(* Every step moves a node in one of six ways.  NodeStep says which, and   *)
(* under what condition on the job, the window and the other nodes; each   *)
(* action is shown to take such steps, and the invariants follow from them *)
(* alone.                                                                  *)
(***************************************************************************)
EXTENDS Orchestrator, TLAPS

Field == {"st", "stamp", "retry", "left"}
InFlight == {"QUEUED", "RUNNING"}

Shape ==
    /\ DOMAIN node = Job /\ \A j \in Job : DOMAIN node[j] = Node
    /\ \A j \in Job, n \in Node : DOMAIN node[j][n] = Field
    /\ DOMAIN status = Job /\ DOMAIN cancel = Job
    /\ stamp \in Nat
    /\ \A w \in work : /\ w[1] \in Job /\ w[2] \in Node /\ w[3] \in Nat \ {0}
                       /\ w = <<w[1], w[2], w[3]>>

\* A registered worker still holds its node's claim, unless the node was parked.
Held(w) ==
    \/ node[w[1]][w[2]].left
    \/ node[w[1]][w[2]].stamp = w[3] /\ node[w[1]][w[2]].st \notin {"PENDING", "QUEUED"}

WorkInv == \A w \in work : w[2] \notin Legacy => Held(w)

\* What a cancel request read stays true until it writes: the other nodes have
\* ended, and none of them was fed by a node it will cancel.
StopInv ==
    \A j \in Job : cancel[j] # <<>> =>
        \A n \in Node : n \notin cancel[j][1] =>
            /\ node[j][n].st \notin ActiveNode
            /\ n \notin Source /\ node[j][n].st \in {"SUCCEEDED", "FAILED"} =>
                   \A m \in Dep[n] : m \notin cancel[j][1]

OrchestratorInv ==
    /\ Shape /\ WorkInv /\ StopInv /\ OneWorkerPerNode
    /\ StartsAfterDependencies /\ GuardIsExclusive /\ WaitingHoldsNothing

-----------------------------------------------------------------------------
(* How a step may move a node. *)

ClaimKept(j, n) ==
    /\ node'[j][n].stamp = node[j][n].stamp
    /\ node[j][n].left => node'[j][n].left

Fed(j, n) == \A m \in Dep[n] : node'[j][m].st = "SUCCEEDED"

Stays(j, n) == node'[j][n].st = node[j][n].st /\ ClaimKept(j, n)

\* Launch, parking and recovery; a registered claim leaves its mark.
TakenBack(j, n) ==
    /\ node[j][n].st \in ActiveNode /\ node'[j][n].st = "PENDING"
    /\ n \notin Legacy =>
           /\ node[j][n].left => node'[j][n].left
           /\ node[j][n].stamp # 0 => node'[j][n].left

Dispatched(j, n) ==
    /\ node[j][n].st = "PENDING" /\ node'[j][n].st = "QUEUED" /\ ClaimKept(j, n)
    /\ status[j] = "RUNNING" /\ Permitted(j) /\ Fed(j, n)

Claimed(j, n) ==
    /\ node[j][n].st = "QUEUED" /\ node'[j][n].st = "RUNNING"
    /\ status[j] = "RUNNING" /\ Permitted(j)
    /\ n \notin Legacy => node[j][n].stamp = 0 /\ ~node[j][n].left

Requeued(j, n) ==
    /\ node[j][n].st = "RUNNING" /\ node'[j][n].st = "QUEUED"
    /\ status[j] = "RUNNING" /\ Permitted(j)
    /\ node[j][n].left => node'[j][n].left
    /\ <<j, n, node[j][n].stamp>> \notin work'

Ended(j, n) ==
    /\ node[j][n].st \in ActiveNode /\ ClaimKept(j, n)
    /\ \/ node'[j][n].st = "SKIPPED"
       \/ /\ node'[j][n].st \in {"SUCCEEDED", "FAILED"}
          /\ n \in Source \/ node[j][n].st = "RUNNING" \/ Fed(j, n)

NodeStep(j, n) ==
    \/ Stays(j, n) \/ TakenBack(j, n) \/ Dispatched(j, n) \/ Claimed(j, n)
    \/ Requeued(j, n) \/ Ended(j, n)

\* A cancel request writes what it read.
Stopped(j) ==
    /\ cancel[j] # <<>> /\ cancel'[j] = <<>>
    /\ \A n \in Node :
          IF n \in cancel[j][1] THEN node'[j][n].st = "CANCELLED" /\ ClaimKept(j, n)
          ELSE Stays(j, n)

\* A cancel request is left alone, is gone with its process, or reads.
Unstopped(j) ==
    \/ cancel'[j] = cancel[j] \/ cancel'[j] = <<>>
    \/ node' = node /\ cancel'[j] = <<{n \in Node : node[j][n].st \in ActiveNode}>>

JobStep(j) ==
    \/ Stopped(j)
    \/ Unstopped(j) /\ \A n \in Node : NodeStep(j, n)

NewClaim(w) ==
    /\ w = <<w[1], w[2], stamp + 1>>
    /\ Claimed(w[1], w[2]) /\ node'[w[1]][w[2]].stamp = stamp + 1

WorkStep == \A w \in work' : w \in work \/ NewClaim(w)

\* Only parking makes a job wait.
StatusStep ==
    \A j \in Job : status'[j] = "WAITING_WINDOW" =>
        status[j] = "WAITING_WINDOW" \/ \A n \in Node : node'[j][n].st \notin InFlight

\* The window is set for a job only when nothing is in flight.
WindowStep ==
    \/ guarded' = guarded \/ guarded' = NoJob
    \/ node' = node /\ \A j \in Job, n \in Node : node[j][n].st \notin InFlight

Steps ==
    /\ Shape' /\ \A j \in Job : JobStep(j)
    /\ WorkStep /\ StatusStep /\ WindowStep

-----------------------------------------------------------------------------
(* What such steps preserve. *)

\* A node that is put in flight belongs to a running job the window admits.
LEMMA EntersFlight ==
    ASSUME \A j \in Job : JobStep(j), NEW j \in Job, NEW n \in Node,
           node'[j][n].st \in InFlight, node'[j][n].st # node[j][n].st
    PROVE  status[j] = "RUNNING" /\ Permitted(j)
  BY ZenonT(30) DEF JobStep, Stopped, NodeStep, Stays, TakenBack, Dispatched, Claimed, Requeued, Ended,
    InFlight

LEMMA WaitingKept ==
    ASSUME WaitingHoldsNothing, Steps  PROVE WaitingHoldsNothing'
<1> SUFFICES ASSUME NEW j \in Job, status'[j] = "WAITING_WINDOW", NEW n \in Node,
                    node'[j][n].st \in InFlight  PROVE FALSE
  BY ZenonT(30) DEF WaitingHoldsNothing, InFlight
<1>1. status[j] = "WAITING_WINDOW"
  BY ZenonT(30) DEF Steps, StatusStep
<1>2. node[j][n].st \notin InFlight
  BY <1>1, ZenonT(30) DEF WaitingHoldsNothing, InFlight
<1>3. status[j] = "RUNNING"
  BY <1>2, EntersFlight, ZenonT(30) DEF Steps
<1> QED
  BY <1>1, <1>3, ZenonT(30)

LEMMA GuardKept ==
    ASSUME GuardIsExclusive, Steps  PROVE GuardIsExclusive'
<1> SUFFICES ASSUME guarded' # NoJob, NEW j \in Job \ {guarded'}, NEW n \in Node,
                    node'[j][n].st \in InFlight  PROVE FALSE
  BY ZenonT(30) DEF GuardIsExclusive, InFlight
<1>1. guarded' = guarded
  BY ZenonT(30) DEF Steps, WindowStep
<1>2. node[j][n].st \notin InFlight
  BY <1>1, ZenonT(30) DEF GuardIsExclusive, InFlight
<1>3. Permitted(j)
  BY <1>2, EntersFlight, ZenonT(30) DEF Steps
<1> QED
  BY <1>1, <1>3, ZenonT(30) DEF Permitted

LEMMA StopKept ==
    ASSUME Shape, StopInv, StartsAfterDependencies, Steps  PROVE StopInv'
<1> SUFFICES ASSUME NEW j \in Job, cancel'[j] # <<>>, NEW n \in Node, n \notin cancel'[j][1]
             PROVE  /\ node'[j][n].st \notin ActiveNode
                    /\ n \notin Source /\ node'[j][n].st \in {"SUCCEEDED", "FAILED"} =>
                           \A m \in Dep[n] : m \notin cancel'[j][1]
  BY ZenonT(30) DEF StopInv
<1>1. CASE cancel'[j] = cancel[j] /\ NodeStep(j, n)
  <2>1. node[j][n].st \notin ActiveNode
    BY <1>1, ZenonT(30) DEF StopInv
  <2>2. node'[j][n].st = node[j][n].st
    BY <1>1, <2>1, ZenonT(30) DEF NodeStep, Stays, TakenBack, Dispatched, Claimed, Requeued, Ended, ActiveNode
  <2> QED
    BY <1>1, <2>1, <2>2, ZenonT(30) DEF StopInv
<1>2. CASE node' = node /\ cancel'[j] = <<{m \in Node : node[j][m].st \in ActiveNode}>>
  <2>1. cancel'[j][1] = {m \in Node : node[j][m].st \in ActiveNode}
    BY <1>2, SMTT(30)
  <2>2. node'[j][n].st \notin ActiveNode
    BY <1>2, <2>1, ZenonT(30)
  <2>3. ASSUME n \notin Source, node'[j][n].st \in {"SUCCEEDED", "FAILED"}, NEW m \in Dep[n]
        PROVE  m \notin cancel'[j][1]
    <3>1. node[j][m].st = "SUCCEEDED"
      BY <1>2, <2>3, ZenonT(30) DEF StartsAfterDependencies
    <3> QED
      BY <2>1, <3>1, ZenonT(30) DEF ActiveNode
  <2> QED
    BY <2>2, <2>3, ZenonT(30)
<1> QED
  BY <1>1, <1>2, ZenonT(30) DEF Steps, JobStep, Stopped, Unstopped

LEMMA DependenciesKept ==
    ASSUME Shape, StopInv, StartsAfterDependencies, Steps  PROVE StartsAfterDependencies'
<1> SUFFICES ASSUME NEW j \in Job, NEW n \in Node \ Source, NEW m \in Dep[n],
                    node'[j][n].st \in {"QUEUED", "RUNNING", "SUCCEEDED", "FAILED"}
             PROVE  node'[j][m].st = "SUCCEEDED"
  BY ZenonT(30) DEF StartsAfterDependencies
<1>0. m \in Node
  BY OrchestratorConstants, ZenonT(30)
<1>1. CASE Stopped(j)
  <2>1. n \notin cancel[j][1] /\ node'[j][n].st = node[j][n].st
    BY <1>1, ZenonT(30) DEF Stopped, Stays
  <2>2. node[j][n].st \notin ActiveNode /\ cancel[j] # <<>>
    BY <1>1, <2>1, ZenonT(30) DEF StopInv, Stopped
  <2>3. node[j][n].st \in {"SUCCEEDED", "FAILED"}
    BY <2>1, <2>2, ZenonT(30) DEF ActiveNode
  <2>4. m \notin cancel[j][1]
    BY <2>1, <2>2, <2>3, ZenonT(30) DEF StopInv
  <2>5. node[j][m].st = "SUCCEEDED"
    BY <2>3, ZenonT(30) DEF StartsAfterDependencies
  <2> QED
    BY <1>0, <1>1, <2>4, <2>5, ZenonT(30) DEF Stopped, Stays
<1>2. CASE \A x \in Node : NodeStep(j, x)
  <2>1. CASE Fed(j, n)
    BY <2>1, ZenonT(30) DEF Fed
  <2>2. CASE node[j][n].st \in {"QUEUED", "RUNNING", "SUCCEEDED", "FAILED"}
    <3>1. node[j][m].st = "SUCCEEDED"
      BY <2>2, ZenonT(30) DEF StartsAfterDependencies
    <3>2. node[j][m].st \notin ActiveNode /\ NodeStep(j, m)
      BY <1>0, <1>2, <3>1, ZenonT(30) DEF ActiveNode
    <3> QED
      BY <3>1, <3>2, ZenonT(30) DEF NodeStep, Stays, TakenBack, Dispatched, Claimed, Requeued, Ended,
        ActiveNode
  <2>3. NodeStep(j, n)
    BY <1>2, ZenonT(30)
  <2> QED
    BY <2>1, <2>2, <2>3, ZenonT(30) DEF NodeStep, Stays, TakenBack, Dispatched, Claimed, Requeued, Ended
<1> QED
  BY <1>1, <1>2, ZenonT(30) DEF Steps, JobStep

\* A worker that goes on holds its claim, or finds the mark of parking.
LEMMA HeldKept ==
    ASSUME Shape, WorkInv, Steps, NEW w \in work, w \in work', w[2] \notin Legacy  PROVE Held(w)'
<1> DEFINE j == w[1]  n == w[2]
<1>1. j \in Job /\ n \in Node /\ w[3] # 0 /\ w = <<j, n, w[3]>>
  BY ZenonT(30) DEF Shape
<1>2. Held(w)
  BY ZenonT(30) DEF WorkInv
<1>3. CASE Stopped(j)
  <2>1. /\ node'[j][n].st \in {"CANCELLED", node[j][n].st} /\ ClaimKept(j, n)
    BY <1>1, <1>3, ZenonT(30) DEF Stopped, Stays
  <2> QED
    BY <1>2, <2>1, ZenonT(30) DEF Held, ClaimKept
<1>4. CASE NodeStep(j, n)
  <2>1. CASE Stays(j, n)
    BY <1>2, <2>1, ZenonT(30) DEF Held, Stays, ClaimKept
  <2>2. CASE TakenBack(j, n)
    BY <1>1, <1>2, <2>2, ZenonT(30) DEF Held, TakenBack
  <2>3. CASE Dispatched(j, n)
    BY <1>2, <2>3, ZenonT(30) DEF Held, Dispatched, ClaimKept
  <2>4. CASE Claimed(j, n)
    BY <1>1, <1>2, <2>4, ZenonT(30) DEF Held, Claimed
  <2>5. CASE Requeued(j, n)
    <3>1. node[j][n].stamp # w[3]
      BY <1>1, <2>5, ZenonT(30) DEF Requeued
    <3> QED
      BY <1>2, <2>5, <3>1, ZenonT(30) DEF Held, Requeued
  <2>6. CASE Ended(j, n)
    <3>1. node'[j][n].st \notin {"PENDING", "QUEUED"} /\ ClaimKept(j, n)
      BY <2>6, ZenonT(30) DEF Ended
    <3> QED
      BY <1>2, <3>1, ZenonT(30) DEF Held, ClaimKept
  <2> QED
    BY <1>4, <2>1, <2>2, <2>3, <2>4, <2>5, <2>6, ZenonT(30) DEF NodeStep
<1> QED
  BY <1>1, <1>3, <1>4, ZenonT(30) DEF Steps, JobStep

LEMMA WorkKept ==
    ASSUME Shape, WorkInv, OneWorkerPerNode, Steps  PROVE WorkInv' /\ OneWorkerPerNode'
<1>1. WorkInv'
  <2> SUFFICES ASSUME NEW w \in work', w[2] \notin Legacy  PROVE Held(w)'
    BY ZenonT(30) DEF WorkInv
  <2>1. CASE w \in work
    BY <2>1, HeldKept, ZenonT(30)
  <2>2. CASE NewClaim(w)
    <3>1. w[3] = stamp + 1
      BY <2>2, SMTT(30) DEF NewClaim
    <3> QED
      BY <2>2, <3>1, ZenonT(30) DEF NewClaim, Claimed, Held
  <2> QED
    BY <2>1, <2>2, ZenonT(30) DEF Steps, WorkStep
<1>2. ASSUME NEW v \in work, NEW w, NewClaim(w), v[1] = w[1], v[2] = w[2], v[2] \notin Legacy
      PROVE  FALSE
  <2>1. Held(v) /\ v[3] # 0
    BY <1>2, ZenonT(30) DEF WorkInv, Shape
  <2> QED
    BY <1>2, <2>1, ZenonT(30) DEF Held, NewClaim, Claimed
<1>3. OneWorkerPerNode'
  <2> SUFFICES ASSUME NEW v \in work', NEW w \in work', v[1] = w[1], v[2] = w[2], v[2] \notin Legacy
               PROVE  v = w
    BY ZenonT(30) DEF OneWorkerPerNode
  <2>1. CASE v \in work /\ w \in work
    BY <2>1, ZenonT(30) DEF OneWorkerPerNode
  <2>2. CASE NewClaim(v) /\ NewClaim(w)
    BY <2>2, ZenonT(30) DEF NewClaim
  <2>3. ~(v \in work /\ NewClaim(w)) /\ ~(w \in work /\ NewClaim(v))
    BY <1>2, ZenonT(30)
  <2> QED
    BY <2>1, <2>2, <2>3, ZenonT(30) DEF Steps, WorkStep
<1> QED
  BY <1>1, <1>3, ZenonT(30)

LEMMA StepsKeep ==
    ASSUME OrchestratorInv, Steps  PROVE OrchestratorInv'
  BY WaitingKept, GuardKept, StopKept, DependenciesKept, WorkKept, ZenonT(30) DEF OrchestratorInv, Steps

-----------------------------------------------------------------------------
(* Steps that leave the nodes alone, and steps that write nodes of one job. *)

LEMMA NodesKept ==
    ASSUME Shape, node' = node, work' \subseteq work, stamp' = stamp, DOMAIN status' = Job,
           DOMAIN cancel' = Job, \A j \in Job : Unstopped(j), StatusStep, WindowStep
    PROVE  Steps
<1>1. Shape'
  BY ZenonT(30) DEF Shape
<1>2. \A j \in Job, n \in Node : NodeStep(j, n)
  BY ZenonT(30) DEF NodeStep, Stays, ClaimKept
<1> QED
  BY <1>1, <1>2, ZenonT(30) DEF Steps, JobStep, WorkStep

\* Everything but the nodes and jobs, and the workers that go.
Rest == /\ cancel' = cancel /\ work' \subseteq work /\ stamp' = stamp /\ guarded' = guarded
        /\ DOMAIN status' = Job

LEMMA JobMoves ==
    ASSUME Shape, Rest, StatusStep, NEW j, NEW row, node' = [node EXCEPT ![j] = row],
           j \in Job => /\ DOMAIN row = Node
                        /\ \A n \in Node : DOMAIN row[n] = Field /\ NodeStep(j, n)
    PROVE  Steps
<1>1. /\ DOMAIN node' = Job /\ \A i \in Job : i # j => node'[i] = node[i]
      /\ j \in Job => node'[j] = row
  BY ZenonT(30) DEF Shape
<1>2. Shape'
  <2>1. \A i \in Job : DOMAIN node'[i] = Node /\ \A n \in Node : DOMAIN node'[i][n] = Field
    BY <1>1, ZenonT(30) DEF Shape
  <2> QED
    BY <1>1, <2>1, ZenonT(30) DEF Shape, Rest
<1>3. ASSUME NEW i \in Job, NEW n \in Node  PROVE NodeStep(i, n)
  <2>1. CASE i = j
    BY <2>1, ZenonT(30)
  <2>2. CASE i # j
    BY <1>1, <2>2, ZenonT(30) DEF NodeStep, Stays, ClaimKept
  <2> QED
    BY <2>1, <2>2, ZenonT(30)
<1> QED
  BY <1>2, <1>3, ZenonT(30) DEF Steps, JobStep, Unstopped, WorkStep, WindowStep, Rest

\* One node of one job.
LEMMA OneMoves ==
    ASSUME Shape, Rest, StatusStep, NEW j, NEW n, NEW r, DOMAIN node' = Job,
           \A i \in Job : DOMAIN node'[i] = Node /\ \A m \in Node :
               IF i = j /\ m = n THEN node'[i][m] = r ELSE node'[i][m] = node[i][m],
           j \in Job /\ n \in Node => DOMAIN r = Field /\ NodeStep(j, n)
    PROVE  Steps
<1>1. Shape'
  <2>1. \A i \in Job, m \in Node : DOMAIN node'[i][m] = Field
    BY SMTT(30) DEF Shape
  <2> QED
    BY <2>1, ZenonT(30) DEF Shape, Rest
<1>2. ASSUME NEW i \in Job, NEW m \in Node  PROVE NodeStep(i, m)
  <2>1. CASE i = j /\ m = n
    BY <2>1, ZenonT(30)
  <2>2. CASE node'[i][m] = node[i][m]
    BY <2>2, ZenonT(30) DEF NodeStep, Stays, ClaimKept
  <2> QED
    BY <2>1, <2>2, ZenonT(30)
<1> QED
  BY <1>1, <1>2, ZenonT(30) DEF Steps, JobStep, Unstopped, WorkStep, WindowStep, Rest

\* A row whose status alone is written.
LEMMA StatusWritten ==
    ASSUME NEW r, NEW s, NEW x, DOMAIN r = Field, x = [r EXCEPT !.st = s]
    PROVE  /\ DOMAIN x = Field /\ x.st = s /\ x.stamp = r.stamp /\ x.retry = r.retry
           /\ x.left = r.left
  BY ZenonT(30) DEF Field

\* A row that recovery or parking takes back.
LEMMA RowReset ==
    ASSUME NEW r, NEW x, DOMAIN r = Field, x = [r EXCEPT !.st = "PENDING", !.stamp = 0]
    PROVE  DOMAIN x = Field /\ x.st = "PENDING" /\ x.stamp = 0 /\ x.left = r.left
  BY ZenonT(30) DEF Field

LEMMA RowParked ==
    ASSUME NEW r, NEW x, NEW b, DOMAIN r = Field,
           x = [r EXCEPT !.st = "PENDING", !.stamp = 0, !.left = b]
    PROVE  DOMAIN x = Field /\ x.st = "PENDING" /\ x.stamp = 0 /\ x.left = b
  BY ZenonT(30) DEF Field

LEMMA Parking ==
    ASSUME Shape, NEW j \in Job, node'[j] = Parked(node[j])
    PROVE  /\ DOMAIN node'[j] = Node
           /\ \A n \in Node : /\ DOMAIN node'[j][n] = Field /\ NodeStep(j, n)
                              /\ node'[j][n].st \notin InFlight
<1>1. DOMAIN node'[j] = Node
  BY ZenonT(30) DEF Parked
<1>2. ASSUME NEW n \in Node
      PROVE  DOMAIN node'[j][n] = Field /\ NodeStep(j, n) /\ node'[j][n].st \notin InFlight
  <2> DEFINE r == node[j][n]
  <2>0. DOMAIN r = Field
    BY ZenonT(30) DEF Shape
  <2>1. CASE r.st \in ActiveNode
    <3>1. PICK b : b = (r.left \/ (r.stamp # 0 /\ n \notin Legacy))
      BY ZenonT(30)
    <3>2. node'[j][n] = [r EXCEPT !.st = "PENDING", !.stamp = 0, !.left = b]
      BY <2>1, <3>1, ZenonT(30) DEF Parked
    <3> HIDE DEF r
    <3>3. /\ DOMAIN node'[j][n] = Field /\ node'[j][n].st = "PENDING" /\ node'[j][n].left = b
      <4> DEFINE x == node'[j][n]
      <4>1. x = [r EXCEPT !.st = "PENDING", !.stamp = 0, !.left = b]
        BY <3>2, ZenonT(30)
      <4> HIDE DEF x
      <4>2. DOMAIN x = Field /\ x.st = "PENDING" /\ x.left = b
        BY <2>0, <4>1, ZenonT(30) DEF Field
      <4> QED
        BY <4>2, ZenonT(30) DEF x
    <3> USE DEF r
    <3>4. TakenBack(j, n)
      BY <2>1, <3>1, <3>3, ZenonT(30) DEF TakenBack
    <3> QED
      BY <3>3, <3>4, ZenonT(30) DEF NodeStep, InFlight
  <2>2. CASE r.st \notin ActiveNode
    <3>1. node'[j][n] = r
      BY <2>2, ZenonT(30) DEF Parked
    <3>2. Stays(j, n)
      BY <3>1, ZenonT(30) DEF Stays, ClaimKept
    <3> QED
      BY <2>0, <2>2, <3>1, <3>2, ZenonT(30) DEF NodeStep, InFlight, ActiveNode
  <2> QED
    BY <2>1, <2>2, ZenonT(30)
<1> QED
  BY <1>1, <1>2, ZenonT(30)

LEMMA ParkSteps ==
    ASSUME Shape, NEW j, Park(j), cancel' = cancel, work' \subseteq work, stamp' = stamp, guarded' = guarded
    PROVE  Steps
<1>0. node' = [node EXCEPT ![j] = Parked(node[j])] /\ status' = [status EXCEPT ![j] = "WAITING_WINDOW"]
  BY ZenonT(30) DEF Park
<1>1. Rest /\ \A i \in Job : i # j => status'[i] = status[i]
  BY <1>0, ZenonT(30) DEF Rest, Shape
<1>2. j \in Job => node'[j] = Parked(node[j])
  BY <1>0, ZenonT(30) DEF Shape
<1>3. j \in Job => /\ DOMAIN Parked(node[j]) = Node
                   /\ \A n \in Node : /\ DOMAIN Parked(node[j])[n] = Field /\ NodeStep(j, n)
                                      /\ node'[j][n].st \notin InFlight
  BY <1>2, Parking, ZenonT(30)
<1>4. StatusStep
  BY <1>1, <1>3, ZenonT(30) DEF StatusStep
<1>5. j \in Job => /\ DOMAIN Parked(node[j]) = Node
                   /\ \A n \in Node : DOMAIN Parked(node[j])[n] = Field /\ NodeStep(j, n)
  BY <1>3, ZenonT(30)
<1> HIDE DEF Parked
<1> QED
  BY <1>0, <1>1, <1>4, <1>5, JobMoves, ZenonT(30)

-----------------------------------------------------------------------------
(* The window, and what leaves the nodes alone. *)

LEMMA OutcomeWaits ==
    ASSUME NEW st, NEW old, Outcome(st, old) = "WAITING_WINDOW"  PROVE old = "WAITING_WINDOW"
  BY ZenonT(30) DEF Outcome

LEMMA WindowSteps ==
    ASSUME Shape,
           \/ \E w \in {"OPEN", "DRAINING", "CLOSED"} : SetWindow(w)
           \/ ReleaseReads \/ ReleaseWrites \/ Halt \/ Resume
           \/ \E j \in Job : GuardedOpen(j) \/ CancelReads(j)
    PROVE  Steps
<1>1. CASE \E w \in {"OPEN", "DRAINING", "CLOSED"} : SetWindow(w)
  <2>1. UNCHANGED <<status, node, work, cancel, stamp>> /\ guarded' = NoJob
    BY <1>1, ZenonT(30) DEF SetWindow, jobVars, requestVars
  <2> QED
    BY <2>1, NodesKept, ZenonT(30) DEF Shape, StatusStep, WindowStep, Unstopped
<1>2. CASE ReleaseReads \/ Halt \/ Resume
  <2>1. UNCHANGED <<status, node, work, cancel, stamp, guarded>>
    BY <1>2, ZenonT(30) DEF ReleaseReads, Halt, Resume, jobVars, requestVars, windowVars
  <2> QED
    BY <2>1, NodesKept, ZenonT(30) DEF Shape, StatusStep, WindowStep, Unstopped
<1>3. CASE ReleaseWrites
  <2>1. /\ UNCHANGED <<node, work, cancel, stamp, guarded>>
        /\ status' = [j \in Job |-> IF j \in release THEN "PENDING" ELSE status[j]]
    BY <1>3, ZenonT(30) DEF ReleaseWrites, windowVars
  <2>2. DOMAIN status' = Job /\ StatusStep
    BY <2>1, ZenonT(30) DEF StatusStep
  <2> QED
    BY <2>1, <2>2, NodesKept, ZenonT(30) DEF Shape, WindowStep, Unstopped
<1>4. CASE \E j \in Job : GuardedOpen(j)
  <2>1. PICK j \in Job : GuardedOpen(j)
    BY <1>4, ZenonT(30)
  <2>2. /\ UNCHANGED <<node, work, cancel, stamp>> /\ Quiet(j)
        /\ status' = [status EXCEPT ![j] = "PENDING"]
    BY <2>1, ZenonT(30) DEF GuardedOpen, requestVars
  <2>3. DOMAIN status' = Job /\ StatusStep
    BY <2>2, ZenonT(30) DEF StatusStep, Shape
  <2>4. WindowStep
    BY <2>2, ZenonT(30) DEF WindowStep, Quiet, InFlight
  <2> QED
    BY <2>2, <2>3, <2>4, NodesKept, ZenonT(30) DEF Shape, Unstopped
<1>5. CASE \E j \in Job : CancelReads(j)
  <2>1. PICK j \in Job : CancelReads(j)
    BY <1>5, ZenonT(30)
  <2>2. /\ UNCHANGED <<status, node, work, stamp, guarded>>
        /\ cancel' = [cancel EXCEPT ![j] = <<{n \in Node : node[j][n].st \in ActiveNode}>>]
    BY <2>1, ZenonT(30) DEF CancelReads, jobVars, windowVars
  <2>3. DOMAIN cancel' = Job /\ \A i \in Job : Unstopped(i)
    BY <2>2, ZenonT(30) DEF Unstopped, Shape
  <2> QED
    BY <2>2, <2>3, NodesKept, ZenonT(30) DEF Shape, StatusStep, WindowStep
<1> QED
  BY <1>1, <1>2, <1>3, <1>4, <1>5, ZenonT(30)

LEMMA CancelSteps ==
    ASSUME Shape, NEW j \in Job, CancelWrites(j)  PROVE Steps
<1> DEFINE row(n) == IF n \in cancel[j][1] THEN [node[j][n] EXCEPT !.st = "CANCELLED"]
                     ELSE node[j][n]
<1>1. /\ cancel[j] # <<>> /\ cancel' = [cancel EXCEPT ![j] = <<>>]
      /\ status' = [status EXCEPT ![j] = "CANCELLED"]
      /\ node' = [node EXCEPT ![j] = [n \in Node |-> row(n)]]
      /\ UNCHANGED <<work, stamp, guarded>>
  BY ZenonT(30) DEF CancelWrites, windowVars
<1>2. /\ DOMAIN node' = Job /\ \A i \in Job : i # j => node'[i] = node[i]
      /\ node'[j] = [n \in Node |-> row(n)]
  BY <1>1, ZenonT(30) DEF Shape
<1>3. \A n \in Node : node'[j][n] = row(n)
  BY <1>2, ZenonT(30)
<1>4. DOMAIN node'[j] = Node
  BY <1>2, ZenonT(30)
<1>5. \A i \in Job : i # j => cancel'[i] = cancel[i] /\ status'[i] = status[i]
  BY <1>1, ZenonT(30) DEF Shape
<1>6. DOMAIN cancel' = Job /\ cancel'[j] = <<>> /\ DOMAIN status' = Job /\ status'[j] = "CANCELLED"
  BY <1>1, ZenonT(30) DEF Shape
<1>7. ASSUME NEW n \in Node
      PROVE  /\ DOMAIN node'[j][n] = Field /\ ClaimKept(j, n)
             /\ IF n \in cancel[j][1] THEN node'[j][n].st = "CANCELLED" ELSE Stays(j, n)
  <2>0. DOMAIN node[j][n] = Field
    BY ZenonT(30) DEF Shape
  <2>1. CASE n \in cancel[j][1]
    <3>1. node'[j][n] = [node[j][n] EXCEPT !.st = "CANCELLED"]
      BY <1>3, <2>1, ZenonT(30)
    <3>2. /\ DOMAIN node'[j][n] = Field /\ node'[j][n].st = "CANCELLED"
          /\ node'[j][n].stamp = node[j][n].stamp /\ node'[j][n].left = node[j][n].left
      BY <2>0, <3>1, StatusWritten, SMTT(30)
    <3> QED
      BY <2>1, <3>2, ZenonT(30) DEF ClaimKept
  <2>2. CASE n \notin cancel[j][1]
    <3>1. node'[j][n] = node[j][n]
      BY <1>3, <2>2, ZenonT(30)
    <3> QED
      BY <2>0, <2>2, <3>1, ZenonT(30) DEF ClaimKept, Stays
  <2> QED
    BY <2>1, <2>2, ZenonT(30)
<1>8. Stopped(j)
  BY <1>1, <1>6, <1>7, ZenonT(30) DEF Stopped
<1>9. ASSUME NEW i \in Job, i # j  PROVE JobStep(i)
  BY <1>2, <1>5, <1>9, ZenonT(30) DEF JobStep, Unstopped, NodeStep, Stays, ClaimKept
<1>10. Shape'
  <2>1. \A i \in Job : DOMAIN node'[i] = Node /\ \A n \in Node : DOMAIN node'[i][n] = Field
    BY <1>2, <1>4, <1>7, SMTT(30) DEF Shape
  <2> QED
    BY <1>1, <1>2, <1>6, <2>1, ZenonT(30) DEF Shape
<1>11. StatusStep
  BY <1>5, <1>6, ZenonT(30) DEF StatusStep
<1> QED
  BY <1>1, <1>8, <1>9, <1>10, <1>11, ZenonT(30) DEF Steps, JobStep, WorkStep, WindowStep

LEMMA SubmitSteps ==
    ASSUME Shape, NEW j \in Job, Submit(j)  PROVE Steps
<1>1. UNCHANGED <<work, cancel, stamp, guarded>>
  BY ZenonT(30) DEF Submit, windowVars, requestVars
<1>2. CASE Park(j)
  BY <1>1, <1>2, ParkSteps, ZenonT(30)
<1>3. CASE UNCHANGED jobVars
  BY <1>1, <1>3, NodesKept, ZenonT(30) DEF jobVars, Shape, StatusStep, WindowStep, Unstopped
<1> QED
  BY <1>2, <1>3, ZenonT(30) DEF Submit

-----------------------------------------------------------------------------
(* start_job. *)

LEMMA RefusedSteps ==
    ASSUME Shape, NEW t, LaunchRefused(t)  PROVE Steps
<1>1. UNCHANGED <<work, cancel, stamp, guarded>>
  BY ZenonT(30) DEF LaunchRefused, windowVars, requestVars
<1>2. CASE Park(launch[t].job)
  BY <1>1, <1>2, ParkSteps, ZenonT(30)
<1>3. CASE UNCHANGED jobVars
  BY <1>1, <1>3, NodesKept, ZenonT(30) DEF jobVars, Shape, StatusStep, WindowStep, Unstopped
<1> QED
  BY <1>2, <1>3, ZenonT(30) DEF LaunchRefused

LEMMA PlansSteps ==
    ASSUME Shape, NEW t, LaunchPlans(t)  PROVE Steps
<1> DEFINE j == launch[t].job
           row == [n \in Node |-> IF node[j][n].st = "QUEUED" /\ node[j][n].stamp = 0
                                  THEN [node[j][n] EXCEPT !.st = "PENDING"] ELSE node[j][n]]
<1>1. /\ node' = [node EXCEPT ![j] = row] /\ status' = [status EXCEPT ![j] = "RUNNING"]
      /\ UNCHANGED <<work, cancel, stamp, guarded>>
  BY ZenonT(30) DEF LaunchPlans, windowVars, requestVars
<1>2. Rest /\ StatusStep
  BY <1>1, ZenonT(30) DEF Rest, StatusStep, Shape
<1>3. ASSUME j \in Job  PROVE DOMAIN row = Node /\ \A n \in Node : DOMAIN row[n] = Field /\ NodeStep(j, n)
  <2>1. node'[j] = row /\ DOMAIN row = Node
    BY <1>1, <1>3, ZenonT(30) DEF Shape
  <2>2. ASSUME NEW n \in Node  PROVE DOMAIN row[n] = Field /\ NodeStep(j, n)
    <3>0. DOMAIN node[j][n] = Field /\ node'[j][n] = row[n]
      BY <1>3, <2>1, ZenonT(30) DEF Shape
    <3>1. CASE node[j][n].st = "QUEUED" /\ node[j][n].stamp = 0
      <4>1. node'[j][n] = [node[j][n] EXCEPT !.st = "PENDING"]
        BY <3>0, <3>1, ZenonT(30)
      <4> HIDE DEF row
      <4>2. /\ DOMAIN node'[j][n] = Field /\ node'[j][n].st = "PENDING"
            /\ node'[j][n].left = node[j][n].left
        BY <3>0, <4>1, StatusWritten, SMTT(30)
      <4>3. TakenBack(j, n)
        BY <3>1, <4>2, ZenonT(30) DEF TakenBack, ActiveNode
      <4> QED
        BY <3>0, <4>2, <4>3, ZenonT(30) DEF NodeStep
    <3>2. CASE row[n] = node[j][n]
      BY <3>0, <3>2, ZenonT(30) DEF NodeStep, Stays, ClaimKept
    <3> QED
      BY <3>1, <3>2, ZenonT(30)
  <2> QED
    BY <2>1, <2>2, ZenonT(30)
<1> HIDE DEF row, j
<1> QED
  BY <1>1, <1>2, <1>3, JobMoves, ZenonT(30)

LEMMA ResolvesSteps ==
    ASSUME Shape, NEW t, LaunchResolves(t)  PROVE Steps
<1> DEFINE j == launch[t].job
           open == {n \in Source : node[j][n].st \in ActiveNode}
           row(found) == [n \in Node |-> IF n \notin open THEN node[j][n]
                             ELSE [node[j][n] EXCEPT
                                     !.st = IF n \in found THEN "SUCCEEDED" ELSE "FAILED"]]
<1>1. PICK found \in SUBSET open : node' = [node EXCEPT ![j] = row(found)]
  BY ZenonT(30) DEF LaunchResolves
<1>2. Rest /\ StatusStep
  BY ZenonT(30) DEF LaunchResolves, windowVars, requestVars, Rest, StatusStep, Shape
<1>3. ASSUME j \in Job
      PROVE  /\ DOMAIN row(found) = Node
             /\ \A n \in Node : DOMAIN row(found)[n] = Field /\ NodeStep(j, n)
  <2>1. node'[j] = row(found) /\ DOMAIN row(found) = Node
    BY <1>1, <1>3, ZenonT(30) DEF Shape
  <2>2. ASSUME NEW n \in Node  PROVE DOMAIN row(found)[n] = Field /\ NodeStep(j, n)
    <3>0. DOMAIN node[j][n] = Field /\ node'[j][n] = row(found)[n]
      BY <1>3, <2>1, ZenonT(30) DEF Shape
    <3>1. CASE n \in open
      <4>1. PICK s \in {"SUCCEEDED", "FAILED"} : node'[j][n] = [node[j][n] EXCEPT !.st = s]
        <5>1. PICK s : s = (IF n \in found THEN "SUCCEEDED" ELSE "FAILED")
          BY ZenonT(30)
        <5>2. node'[j][n] = [node[j][n] EXCEPT !.st = s]
          BY <3>0, <3>1, <5>1, ZenonT(30)
        <5> QED
          BY <5>1, <5>2, ZenonT(30)
      <4> HIDE DEF row
      <4>2. /\ DOMAIN node'[j][n] = Field /\ node'[j][n].st = s
            /\ node'[j][n].stamp = node[j][n].stamp /\ node'[j][n].left = node[j][n].left
        BY <3>0, <4>1, StatusWritten, SMTT(30)
      <4>3. Ended(j, n)
        BY <3>1, <4>1, <4>2, ZenonT(30) DEF Ended, ClaimKept
      <4> QED
        BY <3>0, <4>2, <4>3, ZenonT(30) DEF NodeStep
    <3>2. CASE n \notin open
      <4>1. row(found)[n] = node[j][n]
        BY <3>2, ZenonT(30)
      <4> QED
        BY <3>0, <4>1, ZenonT(30) DEF NodeStep, Stays, ClaimKept
    <3> QED
      BY <3>1, <3>2, ZenonT(30)
  <2> QED
    BY <2>1, <2>2, ZenonT(30)
<1> HIDE DEF row, j
<1> QED
  BY <1>1, <1>2, <1>3, JobMoves, ZenonT(30)

LEMMA LaunchEnding ==
    ASSUME Shape, NEW t, LaunchFails(t) \/ LaunchEnds(t)  PROVE Steps
<1> DEFINE j == launch[t].job
<1>1. /\ UNCHANGED <<node, work, cancel, stamp, guarded>>
      /\ \E end : /\ end = "WAITING_WINDOW" => status[j] = "WAITING_WINDOW"
                  /\ status' = [status EXCEPT ![j] = end]
  <2>1. CASE LaunchFails(t)
    BY <2>1, ZenonT(30) DEF LaunchFails, windowVars, requestVars
  <2>2. CASE LaunchEnds(t)
    <3>1. /\ UNCHANGED <<node, work, cancel, stamp, guarded>>
          /\ status' = [status EXCEPT ![j] = Outcome(launch[t].seen, status[j])]
      BY <2>2, ZenonT(30) DEF LaunchEnds, windowVars, requestVars
    <3> QED
      BY <3>1, OutcomeWaits, ZenonT(30)
  <2> QED
    BY <2>1, <2>2, ZenonT(30)
<1>2. DOMAIN status' = Job /\ StatusStep
  BY <1>1, ZenonT(30) DEF StatusStep, Shape
<1> QED
  BY <1>1, <1>2, NodesKept, ZenonT(30) DEF Shape, WindowStep, Unstopped

\* A node of one job whose status alone is written.
LEMMA OneStatus ==
    ASSUME Shape, NEW j \in Job, NEW n \in Node, NEW s, node' = [node EXCEPT ![j][n].st = s]
    PROVE  /\ DOMAIN node' = Job /\ \A i \in Job : DOMAIN node'[i] = Node
           /\ \A i \in Job, m \in Node : ~(i = j /\ m = n) => node'[i][m] = node[i][m]
           /\ DOMAIN node'[j][n] = Field /\ node'[j][n].st = s
           /\ node'[j][n].stamp = node[j][n].stamp /\ node'[j][n].left = node[j][n].left
<1>1. /\ DOMAIN node' = Job /\ \A i \in Job : DOMAIN node'[i] = Node
      /\ \A i \in Job, m \in Node : ~(i = j /\ m = n) => node'[i][m] = node[i][m]
      /\ node'[j][n] = [node[j][n] EXCEPT !.st = s]
  BY ZenonT(30) DEF Shape
<1>2. DOMAIN node[j][n] = Field
  BY ZenonT(30) DEF Shape
<1> QED
  BY <1>1, <1>2, StatusWritten, SMTT(30)

\* A node of one job whose row is written.
LEMMA OneRow ==
    ASSUME Shape, NEW j \in Job, NEW n \in Node, NEW r, node' = [node EXCEPT ![j][n] = r]
    PROVE  /\ DOMAIN node' = Job /\ \A i \in Job : DOMAIN node'[i] = Node
           /\ \A i \in Job, m \in Node : ~(i = j /\ m = n) => node'[i][m] = node[i][m]
           /\ node'[j][n] = r
  BY ZenonT(30) DEF Shape

LEMMA DispatchSteps ==
    ASSUME Shape, NEW t, LaunchDispatches(t)  PROVE Steps
<1> DEFINE j == launch[t].job  n == Order[NextReady(t)]
<1>1. UNCHANGED <<work, cancel, stamp, guarded, status>>
  BY ZenonT(30) DEF LaunchDispatches, windowVars, requestVars, jobVars
<1>2. Rest /\ StatusStep
  BY <1>1, ZenonT(30) DEF Rest, StatusStep, Shape
<1>3. CASE UNCHANGED node
  BY <1>1, <1>3, NodesKept, ZenonT(30) DEF Shape, StatusStep, WindowStep, Unstopped
<1>4. CASE /\ ReadyIn(View(node[j]), n) /\ Permitted(j) /\ status[j] = "RUNNING"
           /\ \/ node' = [node EXCEPT ![j][n].st = "SUCCEEDED"]
              \/ node' = [node EXCEPT ![j][n].st = "QUEUED"]
  <2>1. CASE j \in Job /\ n \in Node
    <3>1. PICK s \in {"SUCCEEDED", "QUEUED"} : node' = [node EXCEPT ![j][n].st = s]
      BY <1>4, ZenonT(30)
    <3> HIDE DEF j, n
    <3>2. /\ DOMAIN node' = Job /\ \A i \in Job : DOMAIN node'[i] = Node
          /\ \A i \in Job, m \in Node : ~(i = j /\ m = n) => node'[i][m] = node[i][m]
          /\ DOMAIN node'[j][n] = Field /\ node'[j][n].st = s /\ ClaimKept(j, n)
      <4>1. j \in Job /\ n \in Node
        BY <2>1, ZenonT(30)
      <4>2. /\ DOMAIN node' = Job /\ \A i \in Job : DOMAIN node'[i] = Node
            /\ \A i \in Job, m \in Node : ~(i = j /\ m = n) => node'[i][m] = node[i][m]
            /\ DOMAIN node'[j][n] = Field /\ node'[j][n].st = s
            /\ node'[j][n].stamp = node[j][n].stamp /\ node'[j][n].left = node[j][n].left
        BY <3>1, <4>1, OneStatus, ZenonT(30)
      <4> QED
        BY <4>2, ZenonT(30) DEF ClaimKept
    <3>3. /\ node[j][n].st = "PENDING" /\ Dep[n] \subseteq Node
          /\ \A m \in Dep[n] : node[j][m].st = "SUCCEEDED" /\ m # n
      <4>1. Dep[n] \subseteq Node
        BY <2>1, OrchestratorConstants, ZenonT(30)
      <4>2. node[j][n].st = "PENDING" /\ \A m \in Dep[n] : node[j][m].st = "SUCCEEDED"
        BY <1>4, <2>1, <4>1, ZenonT(30) DEF ReadyIn, View
      <4> QED
        BY <4>1, <4>2, ZenonT(30)
    <3>4. Fed(j, n)
      BY <2>1, <3>2, <3>3, ZenonT(30) DEF Fed
    <3>5. NodeStep(j, n)
      BY <1>4, <3>1, <3>2, <3>3, <3>4, ZenonT(30) DEF NodeStep, Dispatched, Ended, ActiveNode
    <3> QED
      BY <1>2, <2>1, <3>2, <3>5, OneMoves, SMTT(30)
  <2>2. CASE ~(j \in Job /\ n \in Node)
    <3> HIDE DEF j, n
    <3>1. /\ DOMAIN node' = Job /\ \A i \in Job : DOMAIN node'[i] = Node
          /\ \A i \in Job, m \in Node : node'[i][m] = node[i][m]
      BY <1>4, <2>2, SMTT(30) DEF Shape
    <3>2. Shape'
      BY <1>2, <3>1, SMTT(30) DEF Shape, Rest
    <3>3. \A i \in Job, m \in Node : NodeStep(i, m)
      BY <3>1, ZenonT(30) DEF NodeStep, Stays, ClaimKept
    <3> QED
      BY <1>2, <3>2, <3>3, ZenonT(30) DEF Steps, JobStep, Unstopped, WorkStep, WindowStep, Rest
  <2> QED
    BY <2>1, <2>2, ZenonT(30)
<1> QED
  BY <1>3, <1>4, ZenonT(30) DEF LaunchDispatches, jobVars

-----------------------------------------------------------------------------
(* Workers and outcomes. *)

LEMMA ClaimSteps ==
    ASSUME Shape, NEW j \in Job, NEW n \in Node, NEW o, Claim(j, n, o)  PROVE Steps
<1>1. /\ Claimable(j, n, o) /\ stamp' = stamp + 1 /\ work' = work \cup {<<j, n, stamp + 1>>}
      /\ node' = [node EXCEPT ![j][n] = [node[j][n] EXCEPT !.st = "RUNNING", !.stamp = stamp + 1]]
      /\ UNCHANGED <<cancel, guarded, status>>
  BY ZenonT(30) DEF Claim, windowVars, requestVars
<1>2. /\ DOMAIN node' = Job /\ \A i \in Job : DOMAIN node'[i] = Node
      /\ \A i \in Job, m \in Node : ~(i = j /\ m = n) => node'[i][m] = node[i][m]
      /\ DOMAIN node'[j][n] = Field /\ node'[j][n].st = "RUNNING" /\ node'[j][n].stamp = stamp + 1
  <2>1. PICK r : r = [node[j][n] EXCEPT !.st = "RUNNING", !.stamp = stamp + 1]
    BY ZenonT(30)
  <2>2. DOMAIN r = Field /\ r.st = "RUNNING" /\ r.stamp = stamp + 1
    BY <2>1, ZenonT(30) DEF Shape, Field
  <2>3. node' = [node EXCEPT ![j][n] = r]
    BY <1>1, <2>1, ZenonT(30)
  <2>4. /\ DOMAIN node' = Job /\ \A i \in Job : DOMAIN node'[i] = Node
        /\ \A i \in Job, m \in Node : ~(i = j /\ m = n) => node'[i][m] = node[i][m]
        /\ node'[j][n] = r
    BY <2>3, OneRow, ZenonT(60)
  <2> QED
    BY <2>2, <2>4, ZenonT(30)
<1>3. node'[j][n].st = "RUNNING" /\ node'[j][n].stamp = stamp + 1
  BY <1>2, ZenonT(30)
<1>4. Claimed(j, n)
  BY <1>1, <1>3, ZenonT(30) DEF Claimed, Claimable
<1>5. WorkStep
  <2>1. PICK w : w = <<j, n, stamp + 1>>
    BY ZenonT(30)
  <2>2. w[1] = j /\ w[2] = n
    BY <2>1, ZenonT(30)
  <2>3. NewClaim(w)
    BY <1>3, <1>4, <2>1, <2>2, ZenonT(30) DEF NewClaim
  <2> QED
    BY <1>1, <2>1, <2>3, ZenonT(30) DEF WorkStep
<1>6. Shape'
  <2>1. \A i \in Job, m \in Node : DOMAIN node'[i][m] = Field
    <3>1. ASSUME NEW i \in Job, NEW m \in Node  PROVE DOMAIN node'[i][m] = Field
      <4>1. CASE i = j /\ m = n
        BY <1>2, <4>1, ZenonT(30)
      <4>2. CASE ~(i = j /\ m = n)
        BY <1>2, <4>2, SMTT(30) DEF Shape
      <4> QED
        BY <4>1, <4>2, ZenonT(30)
    <3> QED
      BY <3>1, ZenonT(30)
  <2>2. \A w \in work' : /\ w[1] \in Job /\ w[2] \in Node /\ w[3] \in Nat \ {0}
                         /\ w = <<w[1], w[2], w[3]>>
    BY <1>1, SMTT(30) DEF Shape
  <2>3. stamp' \in Nat
    BY <1>1, SMTT(30) DEF Shape
  <2> QED
    BY <1>1, <1>2, <2>1, <2>2, <2>3, ZenonT(30) DEF Shape
<1>7. ASSUME NEW i \in Job, NEW m \in Node  PROVE NodeStep(i, m)
  <2>1. CASE i = j /\ m = n
    BY <1>4, <2>1, ZenonT(30) DEF NodeStep
  <2>2. CASE ~(i = j /\ m = n)
    BY <1>2, <2>2, ZenonT(30) DEF NodeStep, Stays, ClaimKept
  <2> QED
    BY <2>1, <2>2, ZenonT(30)
<1> QED
  BY <1>1, <1>5, <1>6, <1>7, ZenonT(30) DEF Steps, JobStep, Unstopped, StatusStep, WindowStep

LEMMA MatchedRow ==
    ASSUME Shape, NEW w \in work, ClaimMatches(w)
    PROVE  /\ w[1] \in Job /\ w[2] \in Node /\ status[w[1]] = "RUNNING" /\ Permitted(w[1])
           /\ node[w[1]][w[2]].st = "RUNNING" /\ node[w[1]][w[2]].stamp = w[3]
           /\ w = <<w[1], w[2], node[w[1]][w[2]].stamp>>
  BY ZenonT(30) DEF Shape, ClaimMatches

\* The statuses of one job are written; nothing else of its rows changes.
LEMMA RowsWritten ==
    ASSUME Shape, NEW j \in Job, NEW st, node' = [node EXCEPT ![j] = WithStatus(node[j], st)]
    PROVE  /\ DOMAIN WithStatus(node[j], st) = Node
           /\ \A n \in Node : /\ DOMAIN WithStatus(node[j], st)[n] = Field
                              /\ node'[j][n].st = st[n] /\ ClaimKept(j, n)
<1>1. DOMAIN WithStatus(node[j], st) = Node /\ node'[j] = WithStatus(node[j], st)
  BY ZenonT(30) DEF WithStatus, Shape
<1>2. ASSUME NEW n \in Node
      PROVE  /\ DOMAIN WithStatus(node[j], st)[n] = Field
             /\ node'[j][n].st = st[n] /\ ClaimKept(j, n)
  <2>1. PICK s : s = st[n]
    BY ZenonT(30)
  <2>2. node'[j][n] = [node[j][n] EXCEPT !.st = s] /\ DOMAIN node[j][n] = Field
    BY <1>1, <2>1, ZenonT(30) DEF WithStatus, Shape
  <2>3. /\ DOMAIN node'[j][n] = Field /\ node'[j][n].st = s
        /\ node'[j][n].stamp = node[j][n].stamp /\ node'[j][n].left = node[j][n].left
    <3>1. PICK x : x = node'[j][n]
      BY ZenonT(30)
    <3>2. PICK r : r = node[j][n]
      BY ZenonT(30)
    <3>3. DOMAIN x = Field /\ x.st = s /\ x.stamp = r.stamp /\ x.left = r.left
      BY <2>2, <3>1, <3>2, StatusWritten, SMTT(30)
    <3> QED
      BY <3>1, <3>2, <3>3, ZenonT(30)
  <2> QED
    BY <1>1, <2>1, <2>3, ZenonT(30) DEF ClaimKept
<1> QED
  BY <1>1, <1>2, ZenonT(30)

LEMMA CompleteSteps ==
    ASSUME Shape, NEW w \in work, Complete(w)  PROVE Steps
<1> DEFINE j == w[1]  n == w[2]
           done == [View(node[j]) EXCEPT ![n] = "SUCCEEDED"]
<1>1. PICK hits \in SUBSET {m \in Node : done[m] = "PENDING"} :
          /\ \A m \in hits : Met(done, hits, m)
          /\ node' = [node EXCEPT ![j] = WithStatus(node[j], Staged(done, hits))]
          /\ status' = [status EXCEPT ![j] = Outcome(Staged(done, hits), status[j])]
  BY ZenonT(30) DEF Complete
<1>2. work' = work \ {w} /\ UNCHANGED <<cancel, stamp, guarded>> /\ ClaimMatches(w)
  BY ZenonT(30) DEF Complete, windowVars, requestVars
<1>3. /\ j \in Job /\ n \in Node /\ status[j] = "RUNNING" /\ Permitted(j)
      /\ node[j][n].st = "RUNNING"
  BY <1>2, MatchedRow, ZenonT(30)
<1>4. \A m \in Node : done[m] = IF m = n THEN "SUCCEEDED" ELSE node[j][m].st
  BY <1>3, ZenonT(30) DEF View
<1>5. PICK st : st = Staged(done, hits)
  BY ZenonT(30)
<1>6. \A m \in Node : st[m] = IF m \in hits THEN "SUCCEEDED"
                               ELSE IF done[m] = "PENDING" /\ Met(done, hits, m) THEN "QUEUED"
                               ELSE done[m]
  BY <1>5, ZenonT(30) DEF Staged
<1>7. \A m \in hits : m \in Node /\ done[m] = "PENDING" /\ Met(done, hits, m)
  BY <1>1, ZenonT(30)
<1>13. node' = [node EXCEPT ![j] = WithStatus(node[j], st)]
  BY <1>1, <1>5, ZenonT(30)
<1> HIDE DEF j, n, done
<1>8. /\ DOMAIN WithStatus(node[j], st) = Node
      /\ \A m \in Node : /\ DOMAIN WithStatus(node[j], st)[m] = Field
                         /\ node'[j][m].st = st[m] /\ ClaimKept(j, m)
  BY <1>3, <1>13, RowsWritten, ZenonT(30)
<1>9. ASSUME NEW m \in Node, Met(done, hits, m)  PROVE Fed(j, m)
  <2> SUFFICES ASSUME NEW d \in Dep[m]  PROVE node'[j][d].st = "SUCCEEDED"
    BY ZenonT(30) DEF Fed
  <2>1. d \in Node /\ (done[d] = "SUCCEEDED" \/ d \in hits)
    BY <1>9, OrchestratorConstants, ZenonT(30) DEF Met
  <2>2. st[d] = "SUCCEEDED"
    BY <1>6, <2>1, ZenonT(30)
  <2> QED
    BY <1>8, <2>1, <2>2, ZenonT(30)
<1>10. ASSUME NEW m \in Node  PROVE NodeStep(j, m)
  <2>0. node'[j][m].st = st[m] /\ ClaimKept(j, m)
    BY <1>8, ZenonT(30)
  <2>1. CASE m \in hits
    <3>1. node[j][m].st = "PENDING" /\ node'[j][m].st = "SUCCEEDED" /\ Fed(j, m)
      BY <1>4, <1>6, <1>7, <1>9, <2>0, <2>1, ZenonT(30)
    <3> QED
      BY <2>0, <3>1, ZenonT(30) DEF NodeStep, Ended, ActiveNode
  <2>2. CASE m \notin hits /\ done[m] = "PENDING" /\ Met(done, hits, m)
    <3>1. node[j][m].st = "PENDING" /\ node'[j][m].st = "QUEUED" /\ Fed(j, m)
      BY <1>4, <1>6, <1>9, <2>0, <2>2, ZenonT(30)
    <3> QED
      BY <1>3, <2>0, <3>1, ZenonT(30) DEF NodeStep, Dispatched
  <2>3. CASE m \notin hits /\ ~(done[m] = "PENDING" /\ Met(done, hits, m))
    <3>1. node'[j][m].st = IF m = n THEN "SUCCEEDED" ELSE node[j][m].st
      BY <1>4, <1>6, <2>0, <2>3, ZenonT(30)
    <3> QED
      BY <1>3, <2>0, <3>1, ZenonT(30) DEF NodeStep, Ended, Stays, ActiveNode
  <2> QED
    BY <2>1, <2>2, <2>3, ZenonT(30)
<1>11. Rest
  BY <1>1, <1>2, ZenonT(30) DEF Rest, Shape
<1>12. StatusStep
  <2>1. \A i \in Job : i # j => status'[i] = status[i]
    BY <1>1, ZenonT(30) DEF Shape
  <2>2. status'[j] = Outcome(st, status[j])
    BY <1>1, <1>3, <1>5, ZenonT(30) DEF Shape
  <2>3. status'[j] # "WAITING_WINDOW"
    BY <1>3, <2>2, OutcomeWaits, ZenonT(30)
  <2> QED
    BY <2>1, <2>3, ZenonT(30) DEF StatusStep
<1> QED
  BY <1>8, <1>10, <1>11, <1>12, <1>13, JobMoves, ZenonT(30)

LEMMA FailSteps ==
    ASSUME Shape, NEW w \in work, Fail(w)  PROVE Steps
<1> DEFINE j == w[1]  n == w[2]
           failed == [View(node[j]) EXCEPT ![n] = "FAILED"]
<1>1. PICK st : st = Skipped(failed, n)
  BY ZenonT(30)
<1>2. /\ work' = work \ {w} /\ UNCHANGED <<cancel, stamp, guarded>> /\ ClaimMatches(w)
      /\ node' = [node EXCEPT ![j] = WithStatus(node[j], st)]
      /\ status' = [status EXCEPT ![j] = Outcome(st, status[j])]
  BY <1>1, ZenonT(30) DEF Fail, windowVars, requestVars
<1>3. /\ j \in Job /\ n \in Node /\ status[j] = "RUNNING" /\ node[j][n].st = "RUNNING"
  BY <1>2, MatchedRow, ZenonT(30)
<1>4. \A m \in Node : failed[m] = IF m = n THEN "FAILED" ELSE node[j][m].st
  BY <1>3, ZenonT(30) DEF View
<1>5. \A m \in Node : st[m] = failed[m] \/ (failed[m] = "PENDING" /\ st[m] = "SKIPPED")
  BY <1>1, ZenonT(30) DEF Skipped
<1> HIDE DEF j, n, failed
<1>6. /\ DOMAIN WithStatus(node[j], st) = Node
      /\ \A m \in Node : /\ DOMAIN WithStatus(node[j], st)[m] = Field
                         /\ node'[j][m].st = st[m] /\ ClaimKept(j, m)
  BY <1>2, <1>3, RowsWritten, ZenonT(30)
<1>7. ASSUME NEW m \in Node  PROVE NodeStep(j, m)
  <2>0. node'[j][m].st = st[m] /\ ClaimKept(j, m)
    BY <1>6, ZenonT(30)
  <2>1. CASE m = n
    <3>1. node'[j][m].st = "FAILED" /\ node[j][m].st = "RUNNING"
      BY <1>3, <1>4, <1>5, <2>0, <2>1, ZenonT(30)
    <3> QED
      BY <2>0, <3>1, ZenonT(30) DEF NodeStep, Ended, ActiveNode
  <2>2. CASE m # n
    <3>1. node'[j][m].st = node[j][m].st \/ (node[j][m].st = "PENDING" /\ node'[j][m].st = "SKIPPED")
      BY <1>4, <1>5, <2>0, <2>2, ZenonT(30)
    <3> QED
      BY <2>0, <3>1, ZenonT(30) DEF NodeStep, Ended, Stays, ActiveNode
  <2> QED
    BY <2>1, <2>2, ZenonT(30)
<1>8. Rest
  BY <1>2, ZenonT(30) DEF Rest, Shape
<1>9. StatusStep
  <2>1. \A i \in Job : i # j => status'[i] = status[i]
    BY <1>2, ZenonT(30) DEF Shape
  <2>2. status'[j] = Outcome(st, status[j])
    BY <1>2, <1>3, ZenonT(30) DEF Shape
  <2>3. status'[j] # "WAITING_WINDOW"
    BY <1>3, <2>2, OutcomeWaits, ZenonT(30)
  <2> QED
    BY <2>1, <2>3, ZenonT(30) DEF StatusStep
<1> QED
  BY <1>2, <1>6, <1>7, <1>8, <1>9, JobMoves, ZenonT(30)

LEMMA FirstSteps ==
    ASSUME Shape, NEW w \in work, CompleteFirst(w)  PROVE Steps
<1> DEFINE j == w[1]  n == w[2]
<1>1. /\ work' = work \ {w} /\ UNCHANGED <<cancel, stamp, guarded, status>> /\ ClaimMatches(w)
      /\ node' = [node EXCEPT ![j][n].st = "SUCCEEDED"]
  BY ZenonT(30) DEF CompleteFirst, windowVars, requestVars
<1>2. j \in Job /\ n \in Node /\ node[j][n].st = "RUNNING"
  BY <1>1, MatchedRow, ZenonT(30)
<1> HIDE DEF j, n
<1>3. /\ DOMAIN node' = Job /\ \A i \in Job : DOMAIN node'[i] = Node
      /\ \A i \in Job, m \in Node : ~(i = j /\ m = n) => node'[i][m] = node[i][m]
      /\ DOMAIN node'[j][n] = Field /\ node'[j][n].st = "SUCCEEDED"
      /\ node'[j][n].stamp = node[j][n].stamp /\ node'[j][n].left = node[j][n].left
  BY <1>1, <1>2, OneStatus, ZenonT(30)
<1>4. NodeStep(j, n)
  BY <1>2, <1>3, ZenonT(30) DEF NodeStep, Ended, ClaimKept, ActiveNode
<1>5. Rest /\ StatusStep
  BY <1>1, ZenonT(30) DEF Rest, StatusStep, Shape
<1> QED
  BY <1>2, <1>3, <1>4, <1>5, OneMoves, SMTT(30)

LEMMA SecondSteps ==
    ASSUME Shape, NEW w, SecondStep(w) \/ WorkerLost(w) \/ Drop(w)  PROVE Steps
<1>1. CASE WorkerLost(w) \/ Drop(w) \/ RetrySecond(w)
  <2>1. UNCHANGED <<status, node, cancel, stamp, guarded>> /\ work' \subseteq work
    BY <1>1, ZenonT(30) DEF WorkerLost, Drop, RetrySecond, jobVars, requestVars, windowVars
  <2> QED
    BY <2>1, NodesKept, ZenonT(30) DEF Shape, StatusStep, WindowStep, Unstopped
<1>2. CASE CompleteSecond(w)
  <2>1. UNCHANGED <<node, work, cancel, stamp, guarded>>
    BY <1>2, ZenonT(30) DEF CompleteSecond, requestVars, windowVars
  <2>2. \/ status' = status
        \/ /\ status[w[1]] = "RUNNING"
           /\ status' = [status EXCEPT ![w[1]] = Outcome(View(node[w[1]]), status[w[1]])]
    BY <1>2, ZenonT(30) DEF CompleteSecond
  <2>3. PICK end : end = Outcome(View(node[w[1]]), status[w[1]])
    BY ZenonT(30)
  <2>4. status[w[1]] = "RUNNING" => end # "WAITING_WINDOW"
    BY <2>3, OutcomeWaits, ZenonT(30)
  <2>5. DOMAIN status' = Job /\ StatusStep
    <3>1. CASE status' = status
      BY <3>1, ZenonT(30) DEF Shape, StatusStep
    <3>2. CASE status' = [status EXCEPT ![w[1]] = end] /\ end # "WAITING_WINDOW"
      BY <3>2, ZenonT(30) DEF Shape, StatusStep
    <3> QED
      BY <2>2, <2>3, <2>4, <3>1, <3>2, ZenonT(30)
  <2> QED
    BY <2>1, <2>5, NodesKept, ZenonT(30) DEF Shape, WindowStep, Unstopped
<1> QED
  BY <1>1, <1>2, ZenonT(30) DEF SecondStep

LEMMA RetrySteps ==
    ASSUME Shape, NEW w \in work, Retry(w) \/ RetryFirst(w)  PROVE Steps
<1> DEFINE j == w[1]  n == w[2]
<1>0. PICK k : /\ work' = work \ {w} /\ UNCHANGED <<cancel, stamp, guarded, status>> /\ ClaimMatches(w)
               /\ node' = [node EXCEPT ![j][n] = Requeue(node[j][n], k)]
  BY ZenonT(30) DEF Retry, RetryFirst, windowVars, requestVars
<1> DEFINE r == Requeue(node[j][n], k)
<1>1. /\ work' = work \ {w} /\ UNCHANGED <<cancel, stamp, guarded, status>> /\ ClaimMatches(w)
      /\ node' = [node EXCEPT ![j][n] = r]
  BY <1>0, ZenonT(30)
<1>2. /\ j \in Job /\ n \in Node /\ node[j][n].st = "RUNNING" /\ status[j] = "RUNNING"
      /\ Permitted(j) /\ w = <<j, n, node[j][n].stamp>>
  BY <1>1, MatchedRow, ZenonT(30)
<1>3. DOMAIN r = Field /\ r.st = "QUEUED" /\ r.left = node[j][n].left
  <2>1. DOMAIN node[j][n] = Field
    BY <1>2, ZenonT(30) DEF Shape
  <2> QED
    BY <2>1, ZenonT(30) DEF Field, Requeue
<1> HIDE DEF j, n, r
<1>4. /\ DOMAIN node' = Job /\ \A i \in Job : DOMAIN node'[i] = Node
      /\ \A i \in Job, m \in Node : ~(i = j /\ m = n) => node'[i][m] = node[i][m]
      /\ node'[j][n] = r
  BY <1>1, <1>2, OneRow, ZenonT(60)
<1>5. NodeStep(j, n)
  BY <1>1, <1>2, <1>3, <1>4, ZenonT(30) DEF NodeStep, Requeued
<1>6. Rest /\ StatusStep
  BY <1>1, ZenonT(30) DEF Rest, StatusStep, Shape
<1> QED
  BY <1>2, <1>3, <1>4, <1>5, <1>6, OneMoves, SMTT(30)

-----------------------------------------------------------------------------
(* Recovery. *)

LEMMA Resetting ==
    ASSUME Shape, NEW j \in Job, NEW S, S \subseteq Abandoned(j), node'[j] = Reset(node[j], S)
    PROVE  /\ DOMAIN node'[j] = Node
           /\ \A n \in Node : DOMAIN node'[j][n] = Field /\ NodeStep(j, n)
<1>1. DOMAIN node'[j] = Node
  BY ZenonT(30) DEF Reset
<1>2. ASSUME NEW n \in Node  PROVE DOMAIN node'[j][n] = Field /\ NodeStep(j, n)
  <2>0. DOMAIN node[j][n] = Field
    BY ZenonT(30) DEF Shape
  <2>1. CASE n \in S
    <3>1. node'[j][n] = [node[j][n] EXCEPT !.st = "PENDING", !.stamp = 0]
      BY <2>1, ZenonT(30) DEF Reset
    <3>2. /\ DOMAIN node'[j][n] = Field /\ node'[j][n].st = "PENDING"
      BY <2>0, <3>1, RowReset, ZenonT(30)
    <3>3. /\ node[j][n].st \in ActiveNode
          /\ n \in Legacy \/ (node[j][n].stamp = 0 /\ ~node[j][n].left)
      BY <2>1, ZenonT(30) DEF Abandoned, ActiveNode
    <3> QED
      BY <3>2, <3>3, ZenonT(30) DEF NodeStep, TakenBack
  <2>2. CASE n \notin S
    <3>1. node'[j][n] = node[j][n]
      BY <2>2, ZenonT(30) DEF Reset
    <3> QED
      BY <2>0, <3>1, ZenonT(30) DEF NodeStep, Stays, ClaimKept
  <2> QED
    BY <2>1, <2>2, ZenonT(30)
<1> QED
  BY <1>1, <1>2, ZenonT(30)

LEMMA RestartSteps ==
    ASSUME Shape, Restart  PROVE Steps
<1> DEFINE open == {j \in Job : status[j] \notin Settled}
           parked == {j \in open : Defers(j)}
<1>1. PICK stale \in [Job -> SUBSET Node] :
          /\ \A j \in Job : stale[j] \subseteq Abandoned(j)
          /\ node' = [j \in Job |-> IF j \in parked THEN Parked(node[j])
                                    ELSE Reset(node[j], stale[j])]
          /\ status' = [j \in Job |->
                 IF j \in parked THEN "WAITING_WINDOW"
                 ELSE IF j \in {i \in open \ parked :
                                  stale[i] # {} \/ status[i] \in {"PENDING", "WAITING_WINDOW"}}
                 THEN (IF status[j] = "RUNNING" THEN "PENDING" ELSE status[j])
                 ELSE IF j \in open THEN Outcome(View(node[j]), status[j])
                 ELSE status[j]]
  BY ZenonT(30) DEF Restart
<1>2. /\ cancel' = [j \in Job |-> <<>>] /\ UNCHANGED <<guarded, work, stamp>>
  BY ZenonT(30) DEF Restart, windowVars
<1> HIDE DEF parked
<1>3. /\ DOMAIN node' = Job
      /\ \A j \in Job : IF j \in parked THEN node'[j] = Parked(node[j])
                        ELSE node'[j] = Reset(node[j], stale[j])
  BY <1>1, ZenonT(30)
<1>4. \A j \in Job : /\ DOMAIN node'[j] = Node
                     /\ \A n \in Node : DOMAIN node'[j][n] = Field /\ NodeStep(j, n)
  BY <1>1, <1>3, Parking, Resetting, ZenonT(30)
<1>5. \A j \in parked : j \in Job => \A n \in Node : node'[j][n].st \notin InFlight
  BY <1>3, Parking, ZenonT(30)
<1>6. DOMAIN status' = Job /\ StatusStep
  <2>1. DOMAIN status' = Job
    BY <1>1, ZenonT(30)
  <2>2. ASSUME NEW j \in Job, j \notin parked, status'[j] = "WAITING_WINDOW"
        PROVE  status[j] = "WAITING_WINDOW"
    <3>1. \/ status'[j] = (IF status[j] = "RUNNING" THEN "PENDING" ELSE status[j])
          \/ status'[j] = Outcome(View(node[j]), status[j])
          \/ status'[j] = status[j]
      BY <1>1, <2>2, ZenonT(30)
    <3>2. status'[j] = Outcome(View(node[j]), status[j]) => status[j] = "WAITING_WINDOW"
      BY <2>2, OutcomeWaits, ZenonT(30)
    <3> QED
      BY <2>2, <3>1, <3>2, ZenonT(30)
  <2> QED
    BY <1>5, <2>1, <2>2, ZenonT(30) DEF StatusStep
<1>7. Shape'
  <2>1. DOMAIN cancel' = Job
    BY <1>2, ZenonT(30)
  <2> QED
    BY <1>2, <1>3, <1>4, <1>6, <2>1, ZenonT(30) DEF Shape
<1>8. \A j \in Job : cancel'[j] = <<>>
  BY <1>2, ZenonT(30)
<1> QED
  BY <1>2, <1>4, <1>6, <1>7, <1>8, ZenonT(30) DEF Steps, JobStep, Unstopped, WorkStep, WindowStep

-----------------------------------------------------------------------------
(* The invariant and what follows. *)

LEMMA InitHolds == OrchestratorInit => OrchestratorInv
<1> SUFFICES ASSUME OrchestratorInit  PROVE OrchestratorInv
  BY ZenonT(30)
<1>1. /\ DOMAIN node = Job /\ \A j \in Job : DOMAIN node[j] = Node
      /\ \A j \in Job, n \in Node :
            node[j][n] = [st |-> "PENDING", stamp |-> 0, retry |-> 0, left |-> FALSE]
  BY ZenonT(30) DEF OrchestratorInit
<1>2. \A j \in Job, n \in Node : DOMAIN node[j][n] = Field /\ node[j][n].st = "PENDING"
  <2>1. PICK b : b = FALSE
    BY ZenonT(30)
  <2>2. \A j \in Job, n \in Node :
            node[j][n] = [st |-> "PENDING", stamp |-> 0, retry |-> 0, left |-> b]
    BY <1>1, <2>1, ZenonT(30)
  <2> QED
    BY <2>2, SMTT(30) DEF Field
<1>3. Shape /\ WorkInv /\ OneWorkerPerNode
  BY <1>1, <1>2, ZenonT(30) DEF OrchestratorInit, Shape, WorkInv, OneWorkerPerNode
<1>4. StopInv /\ GuardIsExclusive
  BY <1>2, ZenonT(30) DEF OrchestratorInit, StopInv, GuardIsExclusive
<1>5. StartsAfterDependencies /\ WaitingHoldsNothing
  BY <1>2, ZenonT(30) DEF StartsAfterDependencies, WaitingHoldsNothing
<1> QED
  BY <1>3, <1>4, <1>5, ZenonT(30) DEF OrchestratorInv

LEMMA NextSteps ==
    ASSUME Shape, [OrchestratorNext]_orchestratorVars  PROVE Steps
<1>1. CASE \/ \E w \in {"OPEN", "DRAINING", "CLOSED"} : SetWindow(w)
           \/ ReleaseReads \/ ReleaseWrites \/ Halt \/ Resume
           \/ \E j \in Job : GuardedOpen(j) \/ CancelReads(j)
  BY <1>1, WindowSteps, ZenonT(30)
<1>2. CASE \E j \in Job : Submit(j) \/ CancelWrites(j)
  BY <1>2, SubmitSteps, CancelSteps, ZenonT(30)
<1>3. CASE \E t \in Task : LaunchRefused(t) \/ LaunchPlans(t) \/ LaunchResolves(t)
  BY <1>3, RefusedSteps, PlansSteps, ResolvesSteps, ZenonT(30)
<1>4. CASE \E t \in Task : LaunchDispatches(t) \/ LaunchFails(t) \/ LaunchEnds(t)
  BY <1>4, DispatchSteps, LaunchEnding, ZenonT(30)
<1>5. CASE \E j \in Job, n \in Node, o \in Origin : Claim(j, n, o)
  BY <1>5, ClaimSteps, ZenonT(30)
<1>6. CASE \E w \in work : WorkerStep(w)
  BY <1>6, CompleteSteps, FirstSteps, RetrySteps, FailSteps, ZenonT(30) DEF WorkerStep
<1>7. CASE (\E w \in work : Drop(w) \/ WorkerLost(w)) \/ (\E w \in half \cup resend : SecondStep(w))
  BY <1>7, SecondSteps, ZenonT(30)
<1>8. CASE Restart
  BY <1>8, RestartSteps, ZenonT(30)
<1>9. CASE UNCHANGED orchestratorVars
  <2>1. UNCHANGED <<status, node, work, cancel, stamp, guarded>>
    BY <1>9, ZenonT(30) DEF orchestratorVars
  <2> QED
    BY <2>1, NodesKept, ZenonT(30) DEF Shape, StatusStep, WindowStep, Unstopped
<1> QED
  BY <1>1, <1>2, <1>3, <1>4, <1>5, <1>6, <1>7, <1>8, <1>9, ZenonT(30) DEF OrchestratorNext, LaunchStep

\* The inductive invariant: the claims of registered workers, what cancel requests
\* have read, and the properties below.
THEOREM OrchestratorInvariant == OrchestratorSpec => []OrchestratorInv
<1>1. OrchestratorInit => OrchestratorInv
  BY InitHolds, ZenonT(30)
<1>2. OrchestratorInv /\ [OrchestratorNext]_orchestratorVars => OrchestratorInv'
  <2> SUFFICES ASSUME OrchestratorInv, [OrchestratorNext]_orchestratorVars  PROVE OrchestratorInv'
    BY ZenonT(30)
  <2>1. Steps
    BY NextSteps, ZenonT(30) DEF OrchestratorInv
  <2> QED
    BY <2>1, StepsKeep, ZenonT(30)
<1> QED
  BY <1>1, <1>2, PTL DEF OrchestratorSpec

\* Registered workers never share a node: parking leaves the registration columns
\* of a claimed node, recovery does not touch it, and a retry gives it up first.
THEOREM WorkersAreAlone == OrchestratorSpec => []OneWorkerPerNode
<1>1. OrchestratorInv => OneWorkerPerNode
  BY ZenonT(30) DEF OrchestratorInv
<1> QED
  BY <1>1, OrchestratorInvariant, PTL

\* defer_job_until_next_window takes back everything, and nothing of a job that is
\* not running is dispatched, claimed or retried.
THEOREM WaitingIsEmpty == OrchestratorSpec => []WaitingHoldsNothing
<1>1. OrchestratorInv => WaitingHoldsNothing
  BY ZenonT(30) DEF OrchestratorInv
<1> QED
  BY <1>1, OrchestratorInvariant, PTL

\* Whatever dispatches a node (launch, the completion before it, a retry), in
\* whatever order cancellation, parking and recovery come, its inputs are there.
THEOREM InputsAreThere == OrchestratorSpec => []StartsAfterDependencies
<1>1. OrchestratorInv => StartsAfterDependencies
  BY ZenonT(30) DEF OrchestratorInv
<1> QED
  BY <1>1, OrchestratorInvariant, PTL

\* open_video_schedule_for_job keeps its promise for any number of jobs.
THEOREM GuardKeepsOthersOut == OrchestratorSpec => []GuardIsExclusive
<1>1. OrchestratorInv => GuardIsExclusive
  BY ZenonT(30) DEF OrchestratorInv
<1> QED
  BY <1>1, OrchestratorInvariant, PTL

\* No step puts a node in flight against the window.
THEOREM WindowIsObeyed == OrchestratorSpec => WindowHolds
<1> DEFINE Obeys == \A j \in Job, n \in Node :
                       node'[j][n].st \in {"QUEUED", "RUNNING"} /\ node'[j][n].st # node[j][n].st
                           => window # "CLOSED" /\ guarded \in {NoJob, j}
<1>1. OrchestratorInv /\ [OrchestratorNext]_orchestratorVars => [Obeys]_orchestratorVars
  <2> SUFFICES ASSUME OrchestratorInv, [OrchestratorNext]_orchestratorVars,
                      NEW j \in Job, NEW n \in Node, node'[j][n].st \in InFlight,
                      node'[j][n].st # node[j][n].st
               PROVE  window # "CLOSED" /\ guarded \in {NoJob, j}
    BY ZenonT(30) DEF InFlight
  <2>1. \A i \in Job : JobStep(i)
    BY NextSteps, ZenonT(30) DEF OrchestratorInv, Steps
  <2> QED
    BY <2>1, EntersFlight, ZenonT(30) DEF Permitted
<1> QED
  BY <1>1, OrchestratorInvariant, PTL DEF OrchestratorSpec, WindowHolds

==============================================================================
