---------------------------- MODULE PublishedProofs ----------------------------
(***************************************************************************)
(* Proofs about Production, continued: an item is completed only when its  *)
(* video was published.                                                    *)
(*                                                                         *)
(* The completion looks at rows only: the publication is scheduled, or the *)
(* operator decided.  That a row stands for a request is shown in two      *)
(* parts.  An upload's row leaves "reserved" only in the hands of the      *)
(* worker that sent it (SentInv).  A promotion's row is found reserved     *)
(* only by a handler that is tried again, and that one records its doubt   *)
(* instead of a success (PublishInv).                                      *)
(***************************************************************************)
EXTENDS ProductionProofs

\* A worker from the commit of its attempt to the record of the answer.
Sending(w) == wk[w].pc \in {"attempted", "post", "posted"}

\* The row of an upload that is being sent is reserved and nobody else's; a
\* row with an identifier had a request.
SentInv ==
    /\ \A w \in Workers : Sending(w) => op[wk[w].j].st = "reserved"
    /\ \A v, w \in Workers : (Sending(v) /\ Sending(w) /\ wk[v].j = wk[w].j) => v = w
    /\ \A w \in Workers : wk[w].pc = "posted" => posts[wk[w].j] # 0
    /\ \A w \in Workers : wk[w].pc \in {"poll", "finish"} => op[wk[w].j].st \notin {"none", "reserved"}
    /\ \A j \in Jobs : op[j].st \in {"submitted", "succeeded"} => posts[j] # 0

IsQueue(Q) == DOMAIN Q = Kinds \X Tasks /\ \A x \in Kinds \X Tasks : DOMAIN Q[x] = {"st", "att"}

\* A promotion that was reserved is found again only by a handler that was
\* retried, which leaves its mark: one recorded without that mark was sent.
PublishInv ==
    /\ IsQueue(q) /\ DOMAIN dirty = Tasks /\ DOMAIN pub = Tasks /\ rn.k \in Kinds
    /\ rn.pc \notin {"idle", "tick"} => q[<<rn.k, rn.t>>].st = "running"
    /\ At("promote", "claimed") => (promo[rn.t] # "none" => dirty[rn.t])
    /\ At("promote", "settle") => (promo[rn.t] = "submitting" /\ pposts[rn.t] = 1)
    /\ \A t \in Tasks : promo[t] # "none" => (q[<<"promote", t>>].st # "none" /\ (q[<<"promote", t>>].st = "queued" => dirty[t]))
    /\ \A t \in Tasks : promo[t] = "finalized" => (dirty[t] \/ pposts[t] = 1)
    /\ \A t \in Tasks : pub[t] = "scheduled" => promo[t] = "finalized"
    /\ \A t \in Tasks : job[BoundJob(t)].st # "none" => task[t].job = 1

\* How a step of worker w may leave the rows.
RowsGo(w) ==
    \A j \in Jobs :
        \/ op'[j].st = op[j].st
        \/ op'[j].st = "reserved" /\ op[j].st \in {"none", "reserved"}
        \/ /\ op'[j].st \notin {"none", "reserved"}
           /\ op'[j].st \in {"submitted", "succeeded"} => posts[j] # 0
           /\ op[j].st = "succeeded" => job[j].st = "running"
           /\ \A v \in Workers \ {w} : wk[v].j = j => ~Sending(v)

\* A receipt stays, unless its job still runs, and nothing is sent again.
OpStays ==
    \A j \in Jobs : (op[j].st = "succeeded" /\ job[j].st # "running") =>
                        (op'[j].st = "succeeded" /\ posts'[j] = posts[j])

Recorded == SentInv' /\ OpStays

\* A step that ends with w not sending.
LEMMA NoSend ==
    ASSUME UploadInv, SentInv, NEW w \in Workers, Moved(w), RowsGo(w), posts' = posts,
           wk'[w].pc \notin {"attempted", "post", "posted"},
           wk'[w].pc \in {"poll", "finish"} => op'[wk'[w].j].st \notin {"none", "reserved"}
    PROVE  Recorded
<1>1. \A v \in Workers : Sending(v)' => (v # w /\ Sending(v) /\ wk'[v] = wk[v] /\ wk[v].j \in Jobs)
  BY ZenonT(30) DEF Sending, Moved, UploadInv, UploadShape
<1>2. \A v \in Workers : Sending(v)' => op'[wk'[v].j].st = "reserved"
  BY <1>1, ZenonT(30) DEF SentInv, RowsGo
<1>3. \A u, v \in Workers : (Sending(u)' /\ Sending(v)' /\ wk'[u].j = wk'[v].j) => u = v
  BY <1>1, SMTT(30) DEF SentInv
<1>4. \A v \in Workers : wk'[v].pc = "posted" => posts'[wk'[v].j] # 0
  <2>1. \A v \in Workers : wk'[v].pc = "posted" => (v # w /\ wk'[v] = wk[v])
    BY ZenonT(30) DEF Moved
  <2> QED
    BY <2>1, ZenonT(30) DEF SentInv
<1>5. \A v \in Workers : wk'[v].pc \in {"poll", "finish"} => op'[wk'[v].j].st \notin {"none", "reserved"}
  <2>1. ASSUME NEW v \in Workers, v # w, wk'[v].pc \in {"poll", "finish"}
        PROVE  op'[wk'[v].j].st \notin {"none", "reserved"}
    <3>1. wk'[v] = wk[v] /\ wk[v].j \in Jobs
      BY <2>1, ZenonT(30) DEF Moved, UploadInv, UploadShape
    <3>2. op[wk[v].j].st \notin {"none", "reserved"}
      BY <2>1, <3>1, ZenonT(30) DEF SentInv
    <3> QED
      BY <3>1, <3>2, ZenonT(30) DEF RowsGo
  <2> QED
    BY <2>1, ZenonT(30)
<1>6. \A j \in Jobs : op'[j].st \in {"submitted", "succeeded"} => posts'[j] # 0
  BY ZenonT(30) DEF SentInv, RowsGo
<1>7. OpStays
  BY ZenonT(30) DEF OpStays, RowsGo
<1> QED
  BY <1>2, <1>3, <1>4, <1>5, <1>6, <1>7, ZenonT(30) DEF Recorded, SentInv

LEMMA RowsSame == ASSUME UNCHANGED op, NEW w  PROVE RowsGo(w)
  BY ZenonT(30) DEF RowsGo

\* What the row of w's job becomes.
LEMMA RowSet ==
    ASSUME UploadInv, NEW w \in Workers, NEW st, SetOp(w, st)
    PROVE  op'[wk[w].j].st = st /\ \A j \in Jobs \ {wk[w].j} : op'[j] = op[j]
  BY ZenonT(30) DEF UploadInv, UploadShape, SetOp, SetRow

\* Nobody sends for a row that was not attempted, or is past its answer.
LEMMA NotSending ==
    ASSUME UploadInv, SentInv, NEW j \in Jobs, ~op[j].att \/ op[j].st # "reserved"
    PROVE  \A v \in Workers : wk[v].j = j => ~Sending(v)
<1> SUFFICES ASSUME NEW v \in Workers, wk[v].j = j, Sending(v)  PROVE FALSE
  BY ZenonT(30)
<1>1. op[j].st = "reserved"
  BY ZenonT(30) DEF SentInv
<1>2. CASE Posting(v)
  BY <1>1, <1>2, ZenonT(30) DEF UploadInv, OnePost
<1>3. CASE wk[v].pc = "posted"
  <2>1. posts[j] # 0
    BY <1>3, ZenonT(30) DEF SentInv
  <2>2. posts[j] > 0
    BY <2>1, SMTT(30) DEF UploadInv, UploadShape
  <2> QED
    BY <1>1, <2>2, ZenonT(30) DEF UploadInv, OnePost
<1> QED
  BY <1>2, <1>3, ZenonT(30) DEF Sending, Posting

LEMMA RaiseMoves == ASSUME UploadInv, NEW w \in Workers, Raise(w)  PROVE Moved(w) /\ wk'[w].pc = "idle"
  BY LeaveMoves, ZenonT(30) DEF Raise

\* A row ends for good: nobody else was sending for it.
LEMMA RowEnds ==
    ASSUME UploadInv, NEW w \in Workers, NEW st, SetOp(w, st), st \notin {"none", "reserved"},
           st \in {"submitted", "succeeded"} => posts[wk[w].j] # 0,
           op[wk[w].j].st = "succeeded" => job[wk[w].j].st = "running",
           \A v \in Workers \ {w} : wk[v].j = wk[w].j => ~Sending(v)
    PROVE  RowsGo(w)
<1>1. op'[wk[w].j].st = st /\ \A j \in Jobs \ {wk[w].j} : op'[j] = op[j]
  BY RowSet, ZenonT(30)
<1> QED
  BY <1>1, ZenonT(30) DEF RowsGo

LEMMA WorkerRecords ==
    ASSUME UploadInv, SentInv, NEW w \in Workers, WorkerStep(w) \/ WorkerFault(w)
    PROVE  Recorded
<1> DEFINE j == wk[w].j
<1>0. j \in Jobs
  BY ZenonT(30) DEF UploadInv, UploadShape
<1>1. ASSUME UNCHANGED <<op, posts>>, Raise(w) \/ Leave(w)  PROVE Recorded
  <2>1. Moved(w) /\ wk'[w].pc = "idle"
    BY <1>1, RaiseMoves, LeaveMoves, ZenonT(30)
  <2>2. RowsGo(w)
    BY <1>1, RowsSame, ZenonT(30)
  <2> QED
    BY <1>1, <2>1, <2>2, NoSend, ZenonT(30)
<1>2. ASSUME posts' = posts, RowsGo(w), Raise(w)  PROVE Recorded
  <2>1. Moved(w) /\ wk'[w].pc = "idle"
    BY <1>2, RaiseMoves, ZenonT(30)
  <2> QED
    BY <1>2, <2>1, NoSend, ZenonT(30)
<1>3. ASSUME NEW i \in Jobs, ClaimNode(w, i)  PROVE Recorded
  <2>1. Moved(w) /\ wk'[w].pc = "claimed"
    BY <1>3, IdleShape, ZenonT(30) DEF ClaimNode, UploadInv, UploadShape, Moved
  <2>2. UNCHANGED <<op, posts>>
    BY <1>3, ZenonT(30) DEF ClaimNode
  <2>3. RowsGo(w)
    BY <2>2, RowsSame, ZenonT(30)
  <2> QED
    BY <2>1, <2>2, <2>3, NoSend, ZenonT(30)
<1>4. ASSUME NEW ok, ReserveOperation(w, ok)  PROVE Recorded
  <2>0. posts' = posts
    BY <1>4, ZenonT(30) DEF ReserveOperation
  <2>1. CASE Raise(w) /\ UNCHANGED op
    BY <1>1, <2>0, <2>1, ZenonT(30)
  <2>2. CASE ~(Raise(w) /\ UNCHANGED op)
    <3>1. ActionFor(op[j]) \in {"submit", "poll", "finish"} /\ Goto(w, ActionFor(op[j]))
      BY <1>4, <2>2, ZenonT(30) DEF ReserveOperation, ActionFor
    <3>2. Moved(w) /\ wk'[w].pc = ActionFor(op[j]) /\ wk'[w].j = j
      BY <3>1, GotoMoves, ZenonT(30)
    <3>3. CASE ActionFor(op[j]) = "submit"
      <4>1. SetOp(w, "reserved")
        BY <1>4, <2>2, <3>3, ZenonT(30) DEF ReserveOperation, ReserveRow
      <4>2. op[j].st \in {"none", "reserved"}
        BY <3>3, ZenonT(30) DEF ActionFor
      <4>3. op'[j].st = "reserved" /\ \A i \in Jobs \ {j} : op'[i] = op[i]
        BY <4>1, RowSet, ZenonT(30)
      <4>4. RowsGo(w)
        BY <4>2, <4>3, ZenonT(30) DEF RowsGo
      <4> QED
        BY <2>0, <3>2, <3>3, <4>4, NoSend, ZenonT(30)
    <3>4. CASE ActionFor(op[j]) # "submit"
      <4>1. UNCHANGED op
        BY <1>4, <2>2, <3>4, ZenonT(30) DEF ReserveOperation
      <4>2. op[j].st \notin {"none", "reserved"}
        BY <3>1, <3>4, ZenonT(30) DEF ActionFor
      <4>3. RowsGo(w)
        BY <4>1, RowsSame, ZenonT(30)
      <4> QED
        BY <2>0, <3>1, <3>2, <3>4, <4>1, <4>2, <4>3, NoSend, ZenonT(30)
    <3> QED
      BY <3>3, <3>4, ZenonT(30)
  <2> QED
    BY <2>1, <2>2, ZenonT(30)
<1>5. ASSUME NEW ok, NEW preflight, MarkAttempting(w, ok, preflight)  PROVE Recorded
  <2>0. posts' = posts
    BY <1>5, ZenonT(30) DEF MarkAttempting
  <2>1. CASE Raise(w) /\ UNCHANGED op
    BY <1>1, <2>0, <2>1, ZenonT(30)
  <2>2. CASE ~(Raise(w) /\ UNCHANGED op)
    <3>1. op[j] = [st |-> "reserved", att |-> FALSE]
      BY <1>5, <2>2, ZenonT(30) DEF MarkAttempting
    <3>2. op[j].st = "reserved" /\ ~op[j].att
      BY <3>1, SMTT(30)
    <3>3. \A v \in Workers : wk[v].j = j => ~Sending(v)
      BY <1>0, <3>2, NotSending, ZenonT(30)
    <3>4. CASE SetOp(w, "failed") /\ Raise(w)
      <4>1. RowsGo(w)
        BY <3>2, <3>3, <3>4, RowEnds, ZenonT(30)
      <4> QED
        BY <1>2, <2>0, <3>4, <4>1, ZenonT(30)
    <3>5. CASE ~(SetOp(w, "failed") /\ Raise(w))
      <4>1. SetRow(w, [op[j] EXCEPT !.att = TRUE]) /\ Goto(w, "attempted")
        BY <1>5, <2>2, <3>5, ZenonT(30) DEF MarkAttempting, PreflightFails, MarkTerminal
      <4>2. op'[j].st = "reserved" /\ \A i \in Jobs \ {j} : op'[i] = op[i]
        BY <1>0, <3>1, <4>1, SMTT(30) DEF SetRow, UploadInv, UploadShape
      <4>3. Moved(w) /\ wk'[w].pc = "attempted" /\ wk'[w].j = j
        BY <4>1, GotoMoves, ZenonT(30)
      <4>4. \A i \in Jobs : op'[i].st = op[i].st
        BY <3>2, <4>2, ZenonT(30)
      <4>5. \A v \in Workers : /\ wk'[v].j \in Jobs
                               /\ Sending(v)' => (v = w \/ (Sending(v) /\ wk'[v] = wk[v] /\ wk[v].j # j))
                               /\ v # w => wk'[v] = wk[v]
        BY <3>3, <4>3, ZenonT(30) DEF Sending, Moved
      <4>6. SentInv'
        <5>1. \A v \in Workers : Sending(v)' => op'[wk'[v].j].st = "reserved"
          BY <3>2, <4>3, <4>4, <4>5, SMTT(30) DEF SentInv
        <5>2. \A u, v \in Workers : (Sending(u)' /\ Sending(v)' /\ wk'[u].j = wk'[v].j) => u = v
          BY <4>3, <4>5, SMTT(30) DEF SentInv
        <5>3. \A v \in Workers : wk'[v].pc = "posted" => posts'[wk'[v].j] # 0
          BY <2>0, <4>3, <4>5, ZenonT(30) DEF SentInv
        <5>4. \A v \in Workers : wk'[v].pc \in {"poll", "finish"} => op'[wk'[v].j].st \notin {"none", "reserved"}
          BY <4>3, <4>4, <4>5, SMTT(30) DEF SentInv
        <5>5. \A i \in Jobs : op'[i].st \in {"submitted", "succeeded"} => posts'[i] # 0
          BY <2>0, <4>4, ZenonT(30) DEF SentInv
        <5> QED
          BY <5>1, <5>2, <5>3, <5>4, <5>5, ZenonT(30) DEF SentInv
      <4>7. OpStays
        BY <2>0, <4>4, ZenonT(30) DEF OpStays
      <4> QED
        BY <4>6, <4>7, ZenonT(30) DEF Recorded
    <3> QED
      BY <3>4, <3>5, ZenonT(30)
  <2> QED
    BY <2>1, <2>2, ZenonT(30)
<1>6. ASSUME NEW ok, AcquireFence(w, ok)  PROVE Recorded
  <2>0. UNCHANGED <<op, posts>> /\ wk[w].pc = "attempted"
    BY <1>6, ZenonT(30) DEF AcquireFence
  <2>1. CASE Raise(w)
    BY <1>1, <2>0, <2>1, ZenonT(30)
  <2>2. CASE ~Raise(w)
    <3>1. Moved(w) /\ wk'[w].pc = "post" /\ wk'[w].j = j
      BY <1>6, <2>2, GotoMoves, ZenonT(30) DEF AcquireFence
    <3>2. \A v \in Workers : wk'[v].j = wk[v].j /\ (Sending(v)' => Sending(v)) /\ (v # w => wk'[v] = wk[v])
      BY <2>0, <3>1, ZenonT(30) DEF Sending, Moved
    <3>3. SentInv'
      BY <2>0, <3>1, <3>2, SMTT(30) DEF SentInv
    <3> QED
      BY <2>0, <3>3, ZenonT(30) DEF Recorded, OpStays
  <2> QED
    BY <2>1, <2>2, ZenonT(30)
<1>7. ASSUME NEW ack, PostUpload(w, ack)  PROVE Recorded
  <2>1. Posting(w) /\ Sending(w) /\ posts[j] = 0 /\ op[j].st = "reserved"
    BY <1>7, ZenonT(30) DEF PostUpload, Posting, Sending, UploadInv, OnePost, SentInv
  <2>2. posts'[j] = 1 /\ \A i \in Jobs \ {j} : posts'[i] = posts[i]
    BY <1>0, <1>7, <2>1, SMTT(30) DEF PostUpload, UploadInv, UploadShape
  <2>3. Moved(w) /\ wk'[w].pc = "posted" /\ wk'[w].j = j
    BY <1>7, ZenonT(30) DEF PostUpload, UploadInv, UploadShape, Moved
  <2>4. op' = op
    BY <1>7, ZenonT(30) DEF PostUpload
  <2>5. \A v \in Workers : wk'[v].j = wk[v].j /\ wk[v].j \in Jobs /\ (Sending(v)' => Sending(v)) /\ (v # w => wk'[v] = wk[v])
    BY <2>1, <2>3, ZenonT(30) DEF Sending, Moved, UploadInv, UploadShape
  <2>6. \A i \in Jobs : posts[i] # 0 => posts'[i] # 0
    BY <2>2, SMTT(30)
  <2>7. SentInv'
    <3>1. \A v \in Workers : Sending(v)' => op'[wk'[v].j].st = "reserved"
      BY <2>4, <2>5, SMTT(30) DEF SentInv
    <3>2. \A u, v \in Workers : (Sending(u)' /\ Sending(v)' /\ wk'[u].j = wk'[v].j) => u = v
      BY <2>5, ZenonT(30) DEF SentInv
    <3>3. \A v \in Workers : wk'[v].pc = "posted" => posts'[wk'[v].j] # 0
      BY <2>2, <2>3, <2>5, <2>6, SMTT(30) DEF SentInv
    <3>4. \A v \in Workers : wk'[v].pc \in {"poll", "finish"} => op'[wk'[v].j].st \notin {"none", "reserved"}
      BY <2>3, <2>4, <2>5, ZenonT(30) DEF SentInv
    <3>5. \A i \in Jobs : op'[i].st \in {"submitted", "succeeded"} => posts'[i] # 0
      BY <2>4, <2>6, ZenonT(30) DEF SentInv
    <3> QED
      BY <3>1, <3>2, <3>3, <3>4, <3>5, ZenonT(30) DEF SentInv
  <2>8. OpStays
    BY <2>1, <2>2, <2>4, ZenonT(30) DEF OpStays
  <2> QED
    BY <2>7, <2>8, ZenonT(30) DEF Recorded
<1>8. CASE RecordAnswer(w)
  <2>1. posts' = posts /\ wk[w].pc = "posted"
    BY <1>8, ZenonT(30) DEF RecordAnswer
  <2>2. Sending(w) /\ posts[j] # 0 /\ op[j].st = "reserved"
    BY <2>1, ZenonT(30) DEF Sending, SentInv
  <2>3. \A v \in Workers \ {w} : wk[v].j = j => ~Sending(v)
    BY <2>2, ZenonT(30) DEF SentInv
  <2>4. CASE wk[w].ack = "ok"
    <3>1. SetOp(w, "submitted") /\ Goto(w, "poll")
      BY <1>8, <2>4, ZenonT(30) DEF RecordAnswer, MarkSubmitted
    <3>2. RowsGo(w)
      BY <2>2, <2>3, <3>1, RowEnds, ZenonT(30)
    <3>3. Moved(w) /\ wk'[w].pc = "poll" /\ wk'[w].j = j
      BY <3>1, GotoMoves, ZenonT(30)
    <3>4. op'[j].st = "submitted"
      BY <3>1, RowSet, ZenonT(30)
    <3> QED
      BY <2>1, <3>2, <3>3, <3>4, NoSend, ZenonT(30)
  <2>5. CASE wk[w].ack # "ok"
    <3>1. Raise(w) /\ (SetOp(w, "failed") \/ SetOp(w, "uncertain"))
      BY <1>8, <2>5, ZenonT(30) DEF RecordAnswer, MarkTerminal
    <3>2. RowsGo(w)
      BY <2>2, <2>3, <3>1, RowEnds, ZenonT(30)
    <3> QED
      BY <1>2, <2>1, <3>1, <3>2, ZenonT(30)
  <2> QED
    BY <2>4, <2>5, ZenonT(30)
<1>9. CASE PollManager(w)
  <2>0. posts' = posts
    BY <1>9, ZenonT(30) DEF PollManager
  <2>1. CASE Raise(w) /\ UNCHANGED op
    BY <1>1, <2>0, <2>1, ZenonT(30)
  <2>2. CASE ~(Raise(w) /\ UNCHANGED op)
    <3>1. op[j].st = "submitted"
      BY <1>9, <2>2, ZenonT(30) DEF PollManager
    <3>2. posts[j] # 0 /\ \A v \in Workers : wk[v].j = j => ~Sending(v)
      BY <1>0, <3>1, NotSending, ZenonT(30) DEF SentInv
    <3>3. CASE SetOp(w, "failed") /\ Raise(w)
      <4>1. RowsGo(w)
        BY <3>1, <3>2, <3>3, RowEnds, ZenonT(30)
      <4> QED
        BY <1>2, <2>0, <3>3, <4>1, ZenonT(30)
    <3>4. CASE ~(SetOp(w, "failed") /\ Raise(w))
      <4>1. SetOp(w, "succeeded") /\ Goto(w, "finish")
        BY <1>9, <2>2, <3>4, ZenonT(30) DEF PollManager, MarkSucceededOp, MarkTerminal
      <4>2. RowsGo(w)
        BY <3>1, <3>2, <4>1, RowEnds, ZenonT(30)
      <4>3. Moved(w) /\ wk'[w].pc = "finish" /\ wk'[w].j = j
        BY <4>1, GotoMoves, ZenonT(30)
      <4>4. op'[j].st = "succeeded"
        BY <4>1, RowSet, ZenonT(30)
      <4> QED
        BY <2>0, <4>2, <4>3, <4>4, NoSend, ZenonT(30)
    <3> QED
      BY <3>3, <3>4, ZenonT(30)
  <2> QED
    BY <2>1, <2>2, ZenonT(30)
<1>10. ASSUME NEW uncertain, PollGivesUp(w, uncertain)  PROVE Recorded
  <2>1. posts' = posts /\ Raise(w) /\ wk[w].pc = "poll" /\ (UNCHANGED op \/ (SetOp(w, "uncertain") /\ Current(w)))
    BY <1>10, ZenonT(30) DEF PollGivesUp, MarkTerminal
  <2>2. CASE UNCHANGED op
    BY <1>1, <2>1, <2>2, ZenonT(30)
  <2>3. CASE SetOp(w, "uncertain") /\ Current(w)
    <3>1. op[j].st # "reserved" /\ job[j].st = "running"
      BY <2>1, <2>3, ZenonT(30) DEF SentInv, Current
    <3>2. \A v \in Workers : wk[v].j = j => ~Sending(v)
      BY <1>0, <3>1, NotSending, ZenonT(30)
    <3>3. RowsGo(w)
      BY <2>3, <3>1, <3>2, RowEnds, ZenonT(30)
    <3> QED
      BY <1>2, <2>1, <3>3, ZenonT(30)
  <2> QED
    BY <2>1, <2>2, <2>3, ZenonT(30)
<1>11. CASE FinishNode(w) \/ WorkerCrash(w)
  BY <1>1, <1>11, ZenonT(30) DEF FinishNode, WorkerCrash
<1>12. CASE LeaseEnds(w)
  <2>1. UNCHANGED <<op, wk, posts>>
    BY <1>12, ZenonT(30) DEF LeaseEnds
  <2> QED
    BY <2>1, ZenonT(30) DEF Recorded, SentInv, OpStays, Sending
<1> QED
  BY <1>3, <1>4, <1>5, <1>6, <1>7, <1>8, <1>9, <1>10, <1>11, <1>12, ZenonT(30) DEF WorkerStep, WorkerFault

-----------------------------------------------------------------------------
(* The queue and the records of the owned handlers. *)

\* R follows Q: no promotion is forgotten or offered again, and a finished
\* reconciliation stays finished.
Grows(Q, R) ==
    /\ IsQueue(R)
    /\ \A u \in Tasks :
          /\ Q[<<"promote", u>>].st # "none" => R[<<"promote", u>>].st # "none"
          /\ R[<<"promote", u>>].st = "queued" => Q[<<"promote", u>>].st \in {"queued", "none"}
          /\ Q[<<"reconcile", u>>].st = "succeeded" => R[<<"reconcile", u>>].st = "succeeded"

LEMMA KindsOf == {"plan", "execute", "observe", "publish", "promote", "reconcile", "metrics"} \subseteq Kinds
  BY ZenonT(30) DEF Kinds

LEMMA GrowsOn ==
    ASSUME NEW Q, NEW R, NEW S, Grows(Q, R), Grows(R, S)  PROVE Grows(Q, S)
  BY ZenonT(30) DEF Grows

\* One row changes.
RowMay(Q, R, k, t, row) ==
    /\ R = [Q EXCEPT ![<<k, t>>] = row]
    /\ DOMAIN row = {"st", "att"} /\ row.st # "none"
    /\ row.st = "queued" => (k # "promote" \/ Q[<<k, t>>].st \in {"queued", "none"})
    /\ k = "reconcile" => (Q[<<k, t>>].st = "succeeded" => row.st = "succeeded")

LEMMA RowGrows ==
    ASSUME NEW Q, NEW R, IsQueue(Q), NEW k \in Kinds, NEW t \in Tasks, NEW row, RowMay(Q, R, k, t, row)
    PROVE  Grows(Q, R) /\ R[<<k, t>>] = row
<1>1. <<k, t>> \in Kinds \X Tasks
  BY ZenonT(30)
<1>2. R[<<k, t>>] = row /\ DOMAIN R = Kinds \X Tasks /\ \A x \in Kinds \X Tasks : x # <<k, t>> => R[x] = Q[x]
  BY <1>1, ZenonT(30) DEF IsQueue, RowMay
<1>3. IsQueue(R)
  BY <1>2, ZenonT(30) DEF IsQueue, RowMay
<1>4. ASSUME NEW u \in Tasks, NEW c \in Kinds  PROVE R[<<c, u>>] = Q[<<c, u>>] \/ (c = k /\ u = t /\ R[<<c, u>>] = row)
  BY <1>2, ZenonT(30)
<1>5. Grows(Q, R)
  BY <1>2, <1>3, <1>4, KindsOf, ZenonT(30) DEF Grows, RowMay
<1> QED
  BY <1>2, <1>5, ZenonT(30)

LEMMA CompleteGrows ==
    ASSUME NEW Q, IsQueue(Q), NEW k \in Kinds, NEW t \in Tasks
    PROVE  Grows(Q, Complete(Q, k, t)) /\ Complete(Q, k, t)[<<k, t>>].st = "succeeded"
<1> DEFINE row == [st |-> "succeeded", att |-> 0]
<1>1. DOMAIN row = {"st", "att"} /\ row.st = "succeeded"
  BY ZenonT(30)
<1>2. Complete(Q, k, t) = [Q EXCEPT ![<<k, t>>] = row]
  BY ZenonT(30) DEF Complete
<1> HIDE DEF row
<1>3. RowMay(Q, Complete(Q, k, t), k, t, row)
  BY <1>1, <1>2, ZenonT(30) DEF RowMay
<1>4. Grows(Q, Complete(Q, k, t)) /\ Complete(Q, k, t)[<<k, t>>] = row
  BY <1>3, RowGrows, SMTT(30)
<1> QED
  BY <1>1, <1>4, ZenonT(30)

LEMMA OnceGrows ==
    ASSUME NEW Q, IsQueue(Q), NEW k \in Kinds, NEW t \in Tasks
    PROVE  Grows(Q, EnqueueOnce(Q, k, t))
<1>1. CASE Q[<<k, t>>].st = "none"
  <2> DEFINE row == [Q[<<k, t>>] EXCEPT !.st = "queued"]
  <2>0. <<k, t>> \in Kinds \X Tasks
    BY ZenonT(30)
  <2>1. DOMAIN row = {"st", "att"} /\ row.st = "queued"
    BY <2>0, ZenonT(30) DEF IsQueue
  <2>2. EnqueueOnce(Q, k, t) = [Q EXCEPT ![<<k, t>>] = row]
    BY <1>1, ZenonT(30) DEF EnqueueOnce
  <2> HIDE DEF row
  <2>3. RowMay(Q, EnqueueOnce(Q, k, t), k, t, row)
    BY <1>1, <2>1, <2>2, ZenonT(30) DEF RowMay
  <2> QED
    BY <2>3, RowGrows, ZenonT(30)
<1>2. CASE Q[<<k, t>>].st # "none"
  BY <1>2, ZenonT(30) DEF EnqueueOnce, Grows
<1> QED
  BY <1>1, <1>2, ZenonT(30)

LEMMA NextGrows ==
    ASSUME NEW Q, IsQueue(Q), NEW k \in {"observe", "metrics"}, NEW t \in Tasks
    PROVE  Grows(Q, EnqueueNext(Q, k, t))
<1> DEFINE row == [st |-> "queued", att |-> 0]
<1>1. DOMAIN row = {"st", "att"} /\ row.st = "queued" /\ k \in Kinds /\ k \notin {"promote", "reconcile"}
  BY KindsOf, ZenonT(30)
<1>2. EnqueueNext(Q, k, t) = [Q EXCEPT ![<<k, t>>] = row]
  BY ZenonT(30) DEF EnqueueNext
<1> HIDE DEF row
<1>3. RowMay(Q, EnqueueNext(Q, k, t), k, t, row)
  BY <1>1, <1>2, ZenonT(30) DEF RowMay
<1> QED
  BY <1>1, <1>3, RowGrows, ZenonT(30)

\* One item is completed and the next one queued.
LEMMA HandOver ==
    ASSUME NEW Q, IsQueue(Q), NEW k \in Kinds, NEW l \in Kinds, NEW t \in Tasks
    PROVE  Grows(Q, EnqueueOnce(Complete(Q, k, t), l, t))
<1>1. Grows(Q, Complete(Q, k, t))
  BY CompleteGrows, ZenonT(30)
<1>2. IsQueue(Complete(Q, k, t))
  BY <1>1, ZenonT(30) DEF Grows
<1>3. Grows(Complete(Q, k, t), EnqueueOnce(Complete(Q, k, t), l, t))
  BY <1>2, OnceGrows, ZenonT(30)
<1> QED
  BY <1>1, <1>3, GrowsOn, ZenonT(30)

\* The effects most steps have on each of these.
QueueGoes ==
    /\ IsQueue(q')
    /\ \A u \in Tasks :
          /\ q[<<"promote", u>>].st # "none" => q'[<<"promote", u>>].st # "none"
          /\ q'[<<"promote", u>>].st = "queued" => (q[<<"promote", u>>].st \in {"queued", "none"} \/ dirty'[u])
          /\ q[<<"reconcile", u>>].st = "succeeded" => q'[<<"reconcile", u>>].st = "succeeded"
DirtyGoes == DOMAIN dirty' = Tasks /\ \A u \in Tasks : dirty[u] => dirty'[u]
PubGoes == DOMAIN pub' = Tasks /\ \A u \in Tasks : pub'[u] = "scheduled" <=> pub[u] = "scheduled"
JobGoes ==
    \A j \in Jobs : /\ job'[j].st # "none" => job[j].st # "none"
                    /\ job[j].st = "succeeded" => job'[j].st = "succeeded"
TaskGoes == \A u \in Tasks : task'[u].job = task[u].job
RunnerGoes ==
    /\ rn'.k \in Kinds
    /\ rn'.pc \notin {"idle", "tick"} => q'[<<rn'.k, rn'.t>>].st = "running"
    /\ rn' = rn \/ rn'.pc \notin {"claimed", "settle"}
Calm == QueueGoes /\ DirtyGoes /\ PubGoes /\ JobGoes /\ TaskGoes /\ RunnerGoes /\ UNCHANGED <<promo, pposts>>

\* What is settled stays settled.
RowsStay ==
    \A u \in Tasks :
        /\ task[u].job = 1 => task'[u].job = 1
        /\ job[BoundJob(u)].st = "succeeded" => job'[BoundJob(u)].st = "succeeded"
        /\ pub[u] = "scheduled" => pub'[u] = "scheduled"
        /\ promo[u] = "finalized" => (promo'[u] = "finalized" /\ pposts'[u] = pposts[u])
        /\ q[<<"reconcile", u>>].st = "succeeded" => q'[<<"reconcile", u>>].st = "succeeded"

Kept == PublishInv' /\ RowsStay

LEMMA CalmKeeps == ASSUME OwnedShape', PublishInv, Calm  PROVE Kept
<1>1. RowsStay
  <2>1. ASSUME NEW u \in Tasks
        PROVE  /\ task[u].job = 1 => task'[u].job = 1
               /\ job[BoundJob(u)].st = "succeeded" => job'[BoundJob(u)].st = "succeeded"
    BY BoundJobs, ZenonT(30) DEF Calm, JobGoes, TaskGoes
  <2>2. ASSUME NEW u \in Tasks
        PROVE  /\ pub[u] = "scheduled" => pub'[u] = "scheduled"
               /\ promo[u] = "finalized" => (promo'[u] = "finalized" /\ pposts'[u] = pposts[u])
               /\ q[<<"reconcile", u>>].st = "succeeded" => q'[<<"reconcile", u>>].st = "succeeded"
    BY ZenonT(30) DEF Calm, QueueGoes, PubGoes
  <2> QED
    BY <2>1, <2>2, ZenonT(30) DEF RowsStay
<1>2. IsQueue(q)' /\ DOMAIN dirty' = Tasks /\ DOMAIN pub' = Tasks /\ rn'.k \in Kinds
  BY ZenonT(30) DEF Calm, QueueGoes, DirtyGoes, PubGoes, RunnerGoes, IsQueue
<1>3. rn'.pc \notin {"idle", "tick"} => q'[<<rn'.k, rn'.t>>].st = "running"
  BY ZenonT(30) DEF Calm, RunnerGoes
<1>4. At("promote", "claimed")' => (promo'[rn'.t] # "none" => dirty'[rn'.t])
  BY ZenonT(30) DEF Calm, RunnerGoes, DirtyGoes, PublishInv, At, OwnedShape
<1>5. At("promote", "settle")' => (promo'[rn'.t] = "submitting" /\ pposts'[rn'.t] = 1)
  BY ZenonT(30) DEF Calm, RunnerGoes, PublishInv, At
<1>6. \A t \in Tasks : promo'[t] # "none" =>
          (q'[<<"promote", t>>].st # "none" /\ (q'[<<"promote", t>>].st = "queued" => dirty'[t]))
  BY ZenonT(30) DEF Calm, QueueGoes, DirtyGoes, PublishInv
<1>7. \A t \in Tasks : promo'[t] = "finalized" => (dirty'[t] \/ pposts'[t] = 1)
  BY ZenonT(30) DEF Calm, DirtyGoes, PublishInv
<1>8. \A t \in Tasks : pub'[t] = "scheduled" => promo'[t] = "finalized"
  BY ZenonT(30) DEF Calm, PubGoes, PublishInv
<1>9. \A t \in Tasks : job'[BoundJob(t)].st # "none" => task'[t].job = 1
  BY BoundJobs, ZenonT(30) DEF Calm, JobGoes, TaskGoes, PublishInv
<1> QED
  BY <1>1, <1>2, <1>3, <1>4, <1>5, <1>6, <1>7, <1>8, <1>9, ZenonT(30) DEF Kept, PublishInv

LEMMA SameGoes ==
    /\ UNCHANGED job => JobGoes
    /\ UNCHANGED task => TaskGoes
    /\ PublishInv /\ UNCHANGED pub => PubGoes
    /\ PublishInv /\ UNCHANGED dirty => DirtyGoes
    /\ PublishInv /\ UNCHANGED q => QueueGoes
    /\ Grows(q, q') => QueueGoes
<1>1. (UNCHANGED job => JobGoes) /\ (UNCHANGED task => TaskGoes)
  BY ZenonT(30) DEF JobGoes, TaskGoes
<1>2. (PublishInv /\ UNCHANGED pub => PubGoes) /\ (PublishInv /\ UNCHANGED dirty => DirtyGoes)
  BY ZenonT(30) DEF PublishInv, PubGoes, DirtyGoes
<1>3. PublishInv /\ UNCHANGED q => QueueGoes
  BY ZenonT(30) DEF PublishInv, QueueGoes, IsQueue
<1>4. Grows(q, q') => QueueGoes
  BY ZenonT(30) DEF Grows, QueueGoes
<1> QED
  BY <1>1, <1>2, <1>3, <1>4, ZenonT(30)

LEMMA RestingKind == Resting.k \in Kinds /\ Resting.pc = "idle"
  BY ZenonT(30) DEF Resting, Kinds

\* A handler ends.
LEMMA CalmEnds ==
    ASSUME OwnedShape', PublishInv, UNCHANGED <<promo, pposts, job, dirty>>, TaskGoes, PubGoes, Rest, Grows(q, q')
    PROVE  Kept
<1>1. RunnerGoes
  BY RestingKind, ZenonT(30) DEF Rest, RunnerGoes
<1> QED
  BY <1>1, SameGoes, CalmKeeps, ZenonT(30) DEF Calm

\* A handler goes on.
LEMMA CalmMoves ==
    ASSUME OwnedShape', PublishInv, UNCHANGED <<promo, pposts, job, dirty, pub, q>>, TaskGoes,
           rn.pc \notin {"idle", "tick"}, rn'.k = rn.k, rn'.t = rn.t, rn'.pc \notin {"claimed", "settle"}
    PROVE  Kept
<1>1. RunnerGoes
  BY ZenonT(30) DEF PublishInv, RunnerGoes
<1> QED
  BY <1>1, SameGoes, CalmKeeps, ZenonT(30) DEF Calm

\* A step of someone else.
LEMMA CalmOthers ==
    ASSUME OwnedShape', PublishInv, UNCHANGED <<promo, pposts, dirty, pub, q, rn>>, TaskGoes, JobGoes
    PROVE  Kept
<1>1. RunnerGoes
  BY ZenonT(30) DEF PublishInv, RunnerGoes
<1> QED
  BY <1>1, SameGoes, CalmKeeps, ZenonT(30) DEF Calm

LEMMA HoldKeeps ==
    ASSUME OwnedShape, OwnedShape', PublishInv, Hold, UNCHANGED <<promo, pposts, job, dirty, pub>>
    PROVE  Kept
<1>1. Rest /\ q' = Complete(q, rn.k, rn.t) /\ rn.k \in Kinds /\ rn.t \in Tasks /\ IsQueue(q)
  BY ZenonT(30) DEF Hold, PublishInv, OwnedShape
<1>2. Grows(q, q')
  BY <1>1, CompleteGrows, ZenonT(30)
<1>3. TaskGoes
  BY HoldQuiet, ZenonT(30) DEF TaskQuiet, TaskGoes
<1> QED
  BY <1>1, <1>2, <1>3, SameGoes, CalmEnds, ZenonT(30)

\* A handler that is retried marks its task.
LEMMA RetryKeeps ==
    ASSUME OwnedShape, OwnedShape', PublishInv, Retry, rn.pc \notin {"idle", "tick"},
           UNCHANGED <<promo, pposts, job, pub, task>>
    PROVE  Kept
<1> DEFINE k == rn.k
           t == rn.t
<1>0. k \in Kinds /\ t \in Tasks /\ <<k, t>> \in Kinds \X Tasks /\ IsQueue(q) /\ q[<<k, t>>].st = "running"
  BY ZenonT(30) DEF PublishInv, OwnedShape
<1>1. q' = RetryItem(q, k, t) /\ dirty' = [dirty EXCEPT ![t] = TRUE] /\ rn' = Resting
  BY ZenonT(30) DEF Retry, Rest
<1>2. DirtyGoes /\ dirty'[t]
  BY <1>0, <1>1, ZenonT(30) DEF PublishInv, DirtyGoes
<1>3. PICK row : /\ DOMAIN row = {"st", "att"} /\ row.st \in {"dead", "queued"}
                 /\ q' = [q EXCEPT ![<<k, t>>] = row]
  <2>1. CASE q[<<k, t>>].att >= MaxAttempts
    <3>1. q' = [q EXCEPT ![<<k, t>>] = [st |-> "dead", att |-> 0]]
      BY <1>1, <2>1, ZenonT(30) DEF RetryItem
    <3>2. /\ DOMAIN [st |-> "dead", att |-> 0] = {"st", "att"}
          /\ [st |-> "dead", att |-> 0].st = "dead"
      BY ZenonT(30)
    <3> QED
      BY <3>1, <3>2, ZenonT(30)
  <2>2. CASE ~(q[<<k, t>>].att >= MaxAttempts)
    <3>1. q' = [q EXCEPT ![<<k, t>>] = [q[<<k, t>>] EXCEPT !.st = "queued"]]
      BY <1>0, <1>1, <2>2, ZenonT(30) DEF RetryItem
    <3>2. DOMAIN q[<<k, t>>] = {"st", "att"}
      BY <1>0, ZenonT(30) DEF IsQueue
    <3>3. /\ DOMAIN [q[<<k, t>>] EXCEPT !.st = "queued"] = {"st", "att"}
          /\ [q[<<k, t>>] EXCEPT !.st = "queued"].st = "queued"
      BY <3>2, ZenonT(30)
    <3> QED
      BY <3>1, <3>3, ZenonT(30)
  <2> QED
    BY <2>1, <2>2, ZenonT(30)
<1>4. q'[<<k, t>>] = row /\ DOMAIN q' = Kinds \X Tasks /\ \A x \in Kinds \X Tasks : x # <<k, t>> => q'[x] = q[x]
  BY <1>0, <1>3, ZenonT(30) DEF IsQueue
<1>5. IsQueue(q')
  BY <1>0, <1>3, <1>4, ZenonT(30) DEF IsQueue
<1>6. ASSUME NEW u \in Tasks, NEW c \in Kinds  PROVE q'[<<c, u>>] = q[<<c, u>>] \/ (c = k /\ u = t /\ q'[<<c, u>>] = row)
  BY <1>4, ZenonT(30)
<1>7. QueueGoes
  <2>1. ASSUME NEW u \in Tasks
        PROVE  /\ q[<<"promote", u>>].st # "none" => q'[<<"promote", u>>].st # "none"
               /\ q'[<<"promote", u>>].st = "queued" => (q[<<"promote", u>>].st \in {"queued", "none"} \/ u = t)
               /\ q[<<"reconcile", u>>].st = "succeeded" => q'[<<"reconcile", u>>].st = "succeeded"
    BY <1>0, <1>3, <1>6, KindsOf, ZenonT(30)
  <2> QED
    BY <1>2, <1>5, <2>1, ZenonT(30) DEF QueueGoes
<1>8. RunnerGoes
  BY <1>1, RestingKind, ZenonT(30) DEF RunnerGoes
<1> QED
  BY <1>2, <1>7, <1>8, SameGoes, CalmKeeps, ZenonT(30) DEF Calm

LEMMA PlanKeeps ==
    ASSUME OwnedShape, OwnedShape', PublishInv,
           PlanOwned \/ (\E allow \in BOOLEAN : StorePlanPolicy(allow)) \/ ApproveOwnedPlan \/ FinishPlan
    PROVE  Kept
<1> USE DEF OwnedAt, runnerFrame, recordVars, inventoryVars
<1>1. /\ UNCHANGED <<promo, pposts, job, pub>>
      /\ rn.k = "plan" /\ rn.pc \in {"claimed", "planned", "approve", "approved"}
  BY ZenonT(30) DEF PlanOwned, StorePlanPolicy, ApproveOwnedPlan, FinishPlan, At
<1>2. \/ Hold /\ UNCHANGED dirty
      \/ Retry /\ UNCHANGED task
      \/ /\ UNCHANGED <<q, dirty>> /\ \E place \in {"planned", "approve", "approved"} : Move(place)
         /\ UNCHANGED task \/ task' = [task EXCEPT ![rn.t].pol = TRUE]
      \/ /\ UNCHANGED dirty /\ Rest /\ q' = EnqueueOnce(Complete(q, "plan", rn.t), "execute", rn.t)
         /\ task' = [task EXCEPT ![rn.t].st = "planning", ![rn.t].exp = plan[rn.t].appr]
  BY ZenonT(30) DEF PlanOwned, StorePlanPolicy, ApproveOwnedPlan, FinishPlan
<1>3. rn.t \in Tasks /\ IsQueue(q) /\ rn.pc \notin {"idle", "tick"}
  BY <1>1, ZenonT(30) DEF OwnedShape, PublishInv
<1>4. CASE Hold /\ UNCHANGED dirty
  BY <1>1, <1>4, HoldKeeps, ZenonT(30)
<1>5. CASE Retry /\ UNCHANGED task
  BY <1>1, <1>3, <1>5, RetryKeeps, ZenonT(30)
<1>6. CASE /\ UNCHANGED <<q, dirty>> /\ \E place \in {"planned", "approve", "approved"} : Move(place)
           /\ UNCHANGED task \/ task' = [task EXCEPT ![rn.t].pol = TRUE]
  <2>1. rn'.k = rn.k /\ rn'.t = rn.t /\ rn'.pc \notin {"claimed", "settle"}
    BY <1>6, ZenonT(30) DEF OwnedShape, Move
  <2>2. TaskGoes
    BY <1>3, <1>6, SMTT(30) DEF OwnedShape, TaskGoes
  <2> QED
    BY <1>1, <1>3, <1>6, <2>1, <2>2, CalmMoves, ZenonT(30)
<1>7. CASE /\ UNCHANGED dirty /\ Rest /\ q' = EnqueueOnce(Complete(q, "plan", rn.t), "execute", rn.t)
           /\ task' = [task EXCEPT ![rn.t].st = "planning", ![rn.t].exp = plan[rn.t].appr]
  <2>1. TaskGoes
    BY <1>3, <1>7, ZenonT(30) DEF OwnedShape, TaskGoes
  <2>2. "plan" \in Kinds /\ "execute" \in Kinds
    BY KindsOf, ZenonT(30)
  <2>3. Grows(q, q')
    BY <1>3, <1>7, <2>2, HandOver, ZenonT(30)
  <2> QED
    BY <1>1, <1>7, <2>1, <2>3, SameGoes, CalmEnds, ZenonT(30)
<1> QED
  BY <1>2, <1>4, <1>5, <1>6, <1>7, ZenonT(30)

LEMMA ExecuteKeeps ==
    ASSUME OwnedShape, OwnedShape', BoundInv, PublishInv, ExecuteOwned \/ FinishExecute
    PROVE  Kept
<1> USE DEF OwnedAt, runnerFrame, recordVars, inventoryVars
<1> DEFINE t == rn.t
<1>0. t \in Tasks /\ IsQueue(q)
  BY ZenonT(30) DEF OwnedShape, PublishInv
<1>1. CASE FinishExecute
  <2>1. UNCHANGED <<promo, pposts, job, pub, dirty>>
    BY <1>1, ZenonT(30) DEF FinishExecute
  <2>2. Hold \/ (Rest /\ q' = EnqueueOnce(Complete(q, "execute", t), "observe", t) /\ UNCHANGED task)
    BY <1>1, ZenonT(30) DEF FinishExecute
  <2>3. CASE Hold
    BY <2>1, <2>3, HoldKeeps, ZenonT(30)
  <2>4. CASE Rest /\ q' = EnqueueOnce(Complete(q, "execute", t), "observe", t) /\ UNCHANGED task
    <3>1. "execute" \in Kinds /\ "observe" \in Kinds
      BY KindsOf, ZenonT(30)
    <3>2. Grows(q, q')
      BY <1>0, <2>4, <3>1, HandOver, ZenonT(30)
    <3> QED
      BY <2>1, <2>4, <3>2, SameGoes, CalmEnds, ZenonT(30)
  <2> QED
    BY <2>2, <2>3, <2>4, ZenonT(30)
<1>2. CASE ExecuteOwned
  <2>1. UNCHANGED <<promo, pposts, pub, dirty>> /\ At("execute", "claimed")
    BY <1>2, ZenonT(30) DEF ExecuteOwned
  <2>2. \/ Hold /\ UNCHANGED job
        \/ UNCHANGED <<task, q, job>> /\ Move("executed")
        \/ /\ task[t].job = 0 /\ UNCHANGED q /\ Move("executed")
           /\ CreateJob(BoundJob(t)) /\ BindExecution(BoundJob(t))
    BY <1>2, ZenonT(30) DEF ExecuteOwned, Hold
  <2>3. CASE Hold /\ UNCHANGED job
    BY <2>1, <2>3, HoldKeeps, ZenonT(30)
  <2>4. Move("executed") => (rn'.k = rn.k /\ rn'.t = rn.t /\ rn'.pc = "executed")
    BY ZenonT(30) DEF OwnedShape, Move
  <2>5. CASE UNCHANGED <<task, q, job>> /\ Move("executed")
    <3>1. rn.pc \notin {"idle", "tick"} /\ rn'.pc \notin {"claimed", "settle"}
      BY <2>1, <2>4, <2>5, ZenonT(30) DEF At
    <3> QED
      BY <2>1, <2>4, <2>5, <3>1, SameGoes, CalmMoves, ZenonT(30)
  <2>6. CASE /\ task[t].job = 0 /\ UNCHANGED q /\ Move("executed")
             /\ CreateJob(BoundJob(t)) /\ BindExecution(BoundJob(t))
    <3>1. BoundJob(t) \in Jobs /\ BoundJob(t)[1] = t /\ BoundJob(t)[2] = 1
      BY <1>0, BoundJobs, ZenonT(30) DEF BoundJob
    <3>2. job[BoundJob(t)].st = "none"
      BY <1>0, <2>6, SMTT(30) DEF PublishInv
    <3>3. \A j \in Jobs \ {BoundJob(t)} : job'[j] = job[j]
      BY <2>6, <3>1, ZenonT(30) DEF OwnedShape, CreateJob
    <3>4. \A u \in Tasks \ {t} : BoundJob(u) \in Jobs \ {BoundJob(t)}
      BY <1>0, <3>1, BoundJobs, ZenonT(30)
    <3>5. task'[t].job = 1 /\ \A u \in Tasks \ {t} : task'[u] = task[u]
      BY <1>0, <2>6, <3>1, ZenonT(30) DEF OwnedShape, BindExecution
    <3>6. RowsStay
      BY <2>1, <2>6, <3>2, <3>3, <3>4, <3>5, ZenonT(30) DEF RowsStay
    <3>7. \A u \in Tasks : job'[BoundJob(u)].st # "none" => task'[u].job = 1
      BY <3>3, <3>4, <3>5, ZenonT(30) DEF PublishInv
    <3>8. rn'.k \in Kinds /\ (rn'.pc \notin {"idle", "tick"} => q'[<<rn'.k, rn'.t>>].st = "running")
      BY <2>1, <2>4, <2>6, ZenonT(30) DEF PublishInv, At
    <3>9. ~At("promote", "claimed")' /\ ~At("promote", "settle")'
      BY <2>4, <2>6, ZenonT(30) DEF At
    <3>10. PublishInv'
      BY <2>1, <2>6, <3>7, <3>8, <3>9, ZenonT(30) DEF PublishInv, IsQueue
    <3> QED
      BY <3>6, <3>10, ZenonT(30) DEF Kept
  <2> QED
    BY <2>2, <2>3, <2>5, <2>6, ZenonT(30)
<1> QED
  BY <1>1, <1>2, ZenonT(30)

LEMMA ObserveKeeps == ASSUME OwnedShape, OwnedShape', PublishInv, ObserveOwned \/ PublishOwned  PROVE Kept
<1> USE DEF OwnedAt, runnerFrame, recordVars, inventoryVars
<1> DEFINE t == rn.t
<1>0. t \in Tasks /\ IsQueue(q)
  BY ZenonT(30) DEF OwnedShape, PublishInv
<1>1. {"observe", "publish", "promote"} \subseteq Kinds
  BY KindsOf, ZenonT(30)
<1>2. CASE ObserveOwned
  <2>1. UNCHANGED <<promo, pposts, job, pub, dirty>>
    BY <1>2, ZenonT(30) DEF ObserveOwned
  <2>2. \/ Hold
        \/ Rest /\ UNCHANGED task /\ q' = EnqueueNext(q, "observe", t)
        \/ Rest /\ UNCHANGED task /\ q' = EnqueueOnce(Complete(q, "observe", t), "publish", t)
    BY <1>2, ZenonT(30) DEF ObserveOwned
  <2>3. CASE Hold
    BY <2>1, <2>3, HoldKeeps, ZenonT(30)
  <2>4. CASE Rest /\ UNCHANGED task /\ q' = EnqueueNext(q, "observe", t)
    <3>1. Grows(q, q')
      <4>1. "observe" \in {"observe", "metrics"}
        BY ZenonT(30)
      <4> QED
        BY <1>0, <2>4, <4>1, NextGrows, ZenonT(30)
    <3> QED
      BY <2>1, <2>4, <3>1, SameGoes, CalmEnds, ZenonT(30)
  <2>5. CASE Rest /\ UNCHANGED task /\ q' = EnqueueOnce(Complete(q, "observe", t), "publish", t)
    <3>1. "observe" \in Kinds /\ "publish" \in Kinds
      BY <1>1, ZenonT(30)
    <3>2. Grows(q, q')
      BY <1>0, <2>5, <3>1, HandOver, ZenonT(30)
    <3> QED
      BY <2>1, <2>5, <3>2, SameGoes, CalmEnds, ZenonT(30)
  <2> QED
    BY <2>2, <2>3, <2>4, <2>5, ZenonT(30)
<1>3. CASE PublishOwned
  <2>1. UNCHANGED <<promo, pposts, job, dirty>>
    BY <1>3, ZenonT(30) DEF PublishOwned
  <2>2. \/ Hold /\ UNCHANGED pub
        \/ /\ Rest /\ q' = EnqueueOnce(Complete(q, "publish", t), "promote", t)
           /\ UNCHANGED pub \/ (pub[t] = "none" /\ pub' = [pub EXCEPT ![t] = "uploaded"])
           /\ UNCHANGED task \/ task' = [task EXCEPT ![t].st = "uploaded_private"]
    BY <1>3, ZenonT(30) DEF PublishOwned
  <2>3. CASE Hold /\ UNCHANGED pub
    BY <2>1, <2>3, HoldKeeps, ZenonT(30)
  <2>4. CASE /\ Rest /\ q' = EnqueueOnce(Complete(q, "publish", t), "promote", t)
             /\ UNCHANGED pub \/ (pub[t] = "none" /\ pub' = [pub EXCEPT ![t] = "uploaded"])
             /\ UNCHANGED task \/ task' = [task EXCEPT ![t].st = "uploaded_private"]
    <3>1. "publish" \in Kinds /\ "promote" \in Kinds
      BY <1>1, ZenonT(30)
    <3>2. Grows(q, q')
      BY <1>0, <2>4, <3>1, HandOver, ZenonT(30)
    <3>3. TaskGoes
      BY <1>0, <2>4, SMTT(30) DEF OwnedShape, TaskGoes
    <3>4. PubGoes
      BY <1>0, <2>4, ZenonT(30) DEF PublishInv, PubGoes
    <3> QED
      BY <2>1, <2>4, <3>2, <3>3, <3>4, CalmEnds, ZenonT(30)
  <2> QED
    BY <2>2, <2>3, <2>4, ZenonT(30)
<1> QED
  BY <1>2, <1>3, ZenonT(30)

LEMMA MetricsKeeps ==
    ASSUME OwnedShape, OwnedShape', PublishInv, \E ok \in BOOLEAN : ReconcileOwned(ok) \/ CollectOwned(ok)
    PROVE  Kept
<1> USE DEF OwnedAt, runnerFrame, recordVars, inventoryVars
<1> DEFINE t == rn.t
<1>0. t \in Tasks /\ IsQueue(q) /\ "reconcile" \in Kinds /\ "metrics" \in Kinds
  BY KindsOf, ZenonT(30) DEF OwnedShape, PublishInv
<1>1. UNCHANGED <<promo, pposts, job, pub, dirty>>
  BY ZenonT(30) DEF ReconcileOwned, CollectOwned
<1>2. \/ Hold
      \/ Rest /\ UNCHANGED task /\ q' = Complete(q, "reconcile", t)
      \/ /\ Rest /\ (q' = Complete(q, "metrics", t) \/ q' = EnqueueNext(q, "metrics", t))
         /\ UNCHANGED task \/ task' = [task EXCEPT ![t].st = "measured"]
  BY ZenonT(30) DEF ReconcileOwned, CollectOwned
<1>3. CASE Hold
  BY <1>1, <1>3, HoldKeeps, ZenonT(30)
<1>4. CASE Rest /\ UNCHANGED task /\ q' = Complete(q, "reconcile", t)
  BY <1>0, <1>1, <1>4, CompleteGrows, SameGoes, CalmEnds, ZenonT(30)
<1>5. CASE /\ Rest /\ (q' = Complete(q, "metrics", t) \/ q' = EnqueueNext(q, "metrics", t))
           /\ UNCHANGED task \/ task' = [task EXCEPT ![t].st = "measured"]
  <2>1. TaskGoes
    BY <1>0, <1>5, SMTT(30) DEF OwnedShape, TaskGoes
  <2>2. Grows(q, q')
    <3>1. "metrics" \in {"observe", "metrics"}
      BY ZenonT(30)
    <3>2. Grows(q, Complete(q, "metrics", t)) /\ Grows(q, EnqueueNext(q, "metrics", t))
      BY <1>0, <3>1, CompleteGrows, NextGrows, ZenonT(30)
    <3> QED
      BY <1>5, <3>2, ZenonT(30)
  <2> QED
    BY <1>1, <1>5, <2>1, <2>2, SameGoes, CalmEnds, ZenonT(30)
<1> QED
  BY <1>2, <1>3, <1>4, <1>5, ZenonT(30)

LEMMA PromoteKeeps ==
    ASSUME OwnedShape, OwnedShape', PromotionInv, PublishInv,
           \/ PreparePromotion
           \/ \E allow \in BOOLEAN : ReservePromotion(allow)
           \/ PromotionFence
           \/ \E ok \in BOOLEAN : PostPromotion(ok)
           \/ \E ok \in BOOLEAN : SettlePromotion(ok)
    PROVE  Kept
<1> USE DEF OwnedAt, runnerFrame, recordVars, inventoryVars
<1> DEFINE t == rn.t
<1>0. t \in Tasks /\ IsQueue(q) /\ DOMAIN promo = Tasks
  BY ZenonT(30) DEF OwnedShape, PublishInv
<1>1. CASE PreparePromotion \/ PromotionFence
  <2>1. UNCHANGED <<promo, pposts, job, pub, dirty>> /\ rn.pc \in {"claimed", "fence"}
    BY <1>1, ZenonT(30) DEF PreparePromotion, PromotionFence, At
  <2>2. \/ Hold
        \/ UNCHANGED <<task, q>> /\ rn' = [rn EXCEPT !.pc = "prepared", !.ans = plan[t].appr]
        \/ UNCHANGED <<task, q>> /\ rn' = [rn EXCEPT !.pc = "post"]
    BY <1>1, ZenonT(30) DEF PreparePromotion, PromotionFence, Move
  <2>3. CASE Hold
    BY <2>1, <2>3, HoldKeeps, ZenonT(30)
  <2>4. CASE ~Hold
    <3>1. rn'.k = rn.k /\ rn'.t = rn.t /\ rn'.pc \in {"prepared", "post"}
      <4>1. CASE rn' = [rn EXCEPT !.pc = "prepared", !.ans = plan[t].appr]
        BY <4>1, ZenonT(30) DEF OwnedShape
      <4>2. CASE rn' = [rn EXCEPT !.pc = "post"]
        BY <4>2, ZenonT(30) DEF OwnedShape
      <4> QED
        BY <2>2, <2>4, <4>1, <4>2, ZenonT(30)
    <3>2. rn.pc \notin {"idle", "tick"} /\ rn'.pc \notin {"claimed", "settle"} /\ UNCHANGED <<task, q>>
      BY <2>1, <2>2, <2>4, <3>1, ZenonT(30)
    <3> QED
      BY <2>1, <3>1, <3>2, SameGoes, CalmMoves, ZenonT(30)
  <2> QED
    BY <2>3, <2>4, ZenonT(30)
<1>2. ASSUME NEW allow \in BOOLEAN, ReservePromotion(allow)  PROVE Kept
  <2>1. At("promote", "prepared") /\ UNCHANGED <<pposts, job, pub, dirty>>
    BY <1>2, ZenonT(30) DEF ReservePromotion
  <2>2. CASE Hold /\ UNCHANGED promo
    BY <2>1, <2>2, HoldKeeps, ZenonT(30)
  <2>3. CASE ~(Hold /\ UNCHANGED promo)
    <3>1. promo' = [promo EXCEPT ![t] = "submitting"] /\ Move("fence") /\ UNCHANGED <<task, q>>
      BY <1>2, <2>3, ZenonT(30) DEF ReservePromotion
    <3>2. rn'.k = rn.k /\ rn'.t = t /\ rn'.pc = "fence"
      BY <3>1, ZenonT(30) DEF OwnedShape, Move
    <3>3. promo[t] = "none" /\ q[<<"promote", t>>].st = "running"
      BY <2>1, ZenonT(30) DEF PromotionInv, PublishInv, At
    <3>4. promo'[t] = "submitting" /\ \A u \in Tasks \ {t} : promo'[u] = promo[u]
      BY <1>0, <3>1, ZenonT(30)
    <3>5. RowsStay
      BY <2>1, <3>1, <3>3, <3>4, ZenonT(30) DEF RowsStay
    <3>6. rn'.k \in Kinds /\ (rn'.pc \notin {"idle", "tick"} => q'[<<rn'.k, rn'.t>>].st = "running")
      BY <2>1, <3>1, <3>2, ZenonT(30) DEF PublishInv, At
    <3>7. ~At("promote", "claimed")' /\ ~At("promote", "settle")'
      BY <3>2, ZenonT(30) DEF At
    <3>8. \A u \in Tasks : promo'[u] # "none" =>
              (q'[<<"promote", u>>].st # "none" /\ (q'[<<"promote", u>>].st = "queued" => dirty'[u]))
      BY <2>1, <3>1, <3>3, <3>4, ZenonT(30) DEF PublishInv
    <3>9. \A u \in Tasks : promo'[u] = "finalized" => (dirty'[u] \/ pposts'[u] = 1)
      BY <2>1, <3>4, ZenonT(30) DEF PublishInv
    <3>10. \A u \in Tasks : pub'[u] = "scheduled" => promo'[u] = "finalized"
      BY <2>1, <3>3, <3>4, ZenonT(30) DEF PublishInv
    <3>11. PublishInv'
      BY <2>1, <3>1, <3>6, <3>7, <3>8, <3>9, <3>10, ZenonT(30) DEF PublishInv, IsQueue
    <3> QED
      BY <3>5, <3>11, ZenonT(30) DEF Kept
  <2> QED
    BY <2>2, <2>3, ZenonT(30)
<1>3. ASSUME NEW ok \in BOOLEAN, PostPromotion(ok)  PROVE Kept
  <2>1. /\ At("promote", "post") /\ UNCHANGED <<job, promo, task, q, dirty, pub>>
        /\ pposts' = [pposts EXCEPT ![t] = @ + 1]
        /\ rn' = [rn EXCEPT !.pc = "settle", !.ans = IF ok THEN 1 ELSE 0]
    BY <1>3, ZenonT(30) DEF PostPromotion
  <2>2. rn'.k = rn.k /\ rn'.t = t /\ rn'.pc = "settle"
    BY <2>1, ZenonT(30) DEF OwnedShape
  <2>3. pposts[t] = 0 /\ promo[t] = "submitting"
    BY <2>1, ZenonT(30) DEF PromotionInv
  <2>4. pposts'[t] = 1 /\ \A u \in Tasks \ {t} : pposts'[u] = pposts[u]
    BY <1>0, <2>1, <2>3, SMTT(30) DEF OwnedShape
  <2>5. RowsStay
    BY <2>1, <2>3, <2>4, ZenonT(30) DEF RowsStay
  <2>6. rn'.k \in Kinds /\ (rn'.pc \notin {"idle", "tick"} => q'[<<rn'.k, rn'.t>>].st = "running")
    BY <2>1, <2>2, ZenonT(30) DEF PublishInv, At
  <2>7. ~At("promote", "claimed")' /\ promo'[rn'.t] = "submitting" /\ pposts'[rn'.t] = 1
    BY <2>1, <2>2, <2>3, <2>4, ZenonT(30) DEF At
  <2>8. \A u \in Tasks : promo'[u] = "finalized" => (dirty'[u] \/ pposts'[u] = 1)
    BY <2>1, <2>3, <2>4, ZenonT(30) DEF PublishInv
  <2>9. PublishInv'
    BY <2>1, <2>6, <2>7, <2>8, ZenonT(30) DEF PublishInv, IsQueue
  <2> QED
    BY <2>5, <2>9, ZenonT(30) DEF Kept
<1>4. ASSUME NEW ok \in BOOLEAN, SettlePromotion(ok)  PROVE Kept
  <2>1. /\ rn.k = "promote" /\ UNCHANGED <<pposts, job, dirty>>
        /\ rn.pc = "settle" \/ (rn.pc = "claimed" /\ promo[t] \in {"submitting", "uncertain"})
    BY <1>4, ZenonT(30) DEF SettlePromotion
  <2>2. promo[t] \in {"submitting", "uncertain"} /\ (dirty[t] \/ pposts[t] = 1)
    BY <2>1, ZenonT(30) DEF PublishInv, At
  <2>3. pub[t] # "scheduled"
    BY <1>0, <2>2, ZenonT(30) DEF PublishInv
  <2>4. CASE Hold /\ UNCHANGED promo /\ UNCHANGED pub
    BY <2>1, <2>4, HoldKeeps, ZenonT(30)
  <2>5. CASE ~(Hold /\ UNCHANGED promo /\ UNCHANGED pub)
    <3>1. \/ promo' = [promo EXCEPT ![t] = "uncertain"] /\ Hold /\ UNCHANGED pub
          \/ /\ promo' = [promo EXCEPT ![t] = "finalized"] /\ pub' = [pub EXCEPT ![t] = "scheduled"] /\ Rest
             /\ q' = EnqueueOnce(EnqueueOnce(Complete(q, "promote", t), "metrics", t), "reconcile", t)
             /\ UNCHANGED task \/ task' = [task EXCEPT ![t].st = "scheduled"]
      BY <1>4, <2>5, ZenonT(30) DEF SettlePromotion
    <3>2. "promote" \in Kinds /\ "metrics" \in Kinds /\ "reconcile" \in Kinds /\ rn.k \in Kinds
      BY KindsOf, ZenonT(30) DEF PublishInv
    <3>3. Grows(q, q') /\ rn' = Resting
      <4>1. CASE Hold
        BY <1>0, <3>2, <4>1, CompleteGrows, ZenonT(30) DEF Hold, Rest
      <4>2. CASE ~Hold
        <5> DEFINE Q == EnqueueOnce(Complete(q, "promote", t), "metrics", t)
        <5>1. Grows(q, Q)
          BY <1>0, <3>2, HandOver, ZenonT(30)
        <5>2. Grows(Q, EnqueueOnce(Q, "reconcile", t))
          BY <1>0, <3>2, <5>1, OnceGrows, SMTT(30) DEF Grows
        <5>3. q' = EnqueueOnce(Q, "reconcile", t) /\ rn' = Resting
          BY <3>1, <4>2, ZenonT(30) DEF Rest
        <5> HIDE DEF Q
        <5> QED
          BY <5>1, <5>2, <5>3, GrowsOn, ZenonT(30)
      <4> QED
        BY <4>1, <4>2, ZenonT(30)
    <3>4. TaskGoes
      <4>1. Hold => TaskGoes
        BY HoldQuiet, ZenonT(30) DEF TaskQuiet, TaskGoes
      <4>2. (UNCHANGED task \/ task' = [task EXCEPT ![t].st = "scheduled"]) => TaskGoes
        BY <1>0, SMTT(30) DEF OwnedShape, TaskGoes
      <4> QED
        BY <3>1, <4>1, <4>2, ZenonT(30)
    <3>5. \A u \in Tasks \ {t} : promo'[u] = promo[u] /\ pub'[u] = pub[u]
      BY <1>0, <3>1, ZenonT(30) DEF PublishInv
    <3>6. DOMAIN pub' = Tasks /\ (pub'[t] = "scheduled" => promo'[t] = "finalized")
      BY <1>0, <2>3, <3>1, ZenonT(30) DEF PublishInv
    <3>7. QueueGoes /\ DirtyGoes /\ JobGoes
      BY <2>1, <3>3, SameGoes, ZenonT(30)
    <3>8. RowsStay
      <4>1. \A u \in Tasks : promo[u] = "finalized" => (promo'[u] = "finalized" /\ pposts'[u] = pposts[u])
        BY <2>1, <2>2, <3>5, ZenonT(30)
      <4>2. \A u \in Tasks : pub[u] = "scheduled" => pub'[u] = "scheduled"
        BY <2>3, <3>5, ZenonT(30)
      <4> QED
        BY <2>1, <3>4, <3>7, <4>1, <4>2, ZenonT(30) DEF RowsStay, QueueGoes, TaskGoes
    <3>9. rn'.k \in Kinds /\ rn'.pc = "idle"
      BY <3>3, RestingKind, ZenonT(30)
    <3>10. \A u \in Tasks : promo'[u] # "none" =>
              (q'[<<"promote", u>>].st # "none" /\ (q'[<<"promote", u>>].st = "queued" => dirty'[u]))
      <4>1. \A u \in Tasks : promo'[u] # "none" => promo[u] # "none"
        BY <2>2, <3>5, ZenonT(30)
      <4> QED
        BY <2>1, <3>7, <4>1, ZenonT(30) DEF PublishInv, QueueGoes
    <3>11. \A u \in Tasks : promo'[u] = "finalized" => (dirty'[u] \/ pposts'[u] = 1)
      BY <2>1, <2>2, <3>5, ZenonT(30) DEF PublishInv
    <3>12. \A u \in Tasks : pub'[u] = "scheduled" => promo'[u] = "finalized"
      BY <3>5, <3>6, ZenonT(30) DEF PublishInv
    <3>13. \A u \in Tasks : job'[BoundJob(u)].st # "none" => task'[u].job = 1
      BY <2>1, <3>4, ZenonT(30) DEF PublishInv, TaskGoes
    <3>14. IsQueue(q)' /\ DOMAIN dirty' = Tasks
      BY <3>7, ZenonT(30) DEF QueueGoes, DirtyGoes, IsQueue
    <3>15. PublishInv'
      BY <3>6, <3>9, <3>10, <3>11, <3>12, <3>13, <3>14, ZenonT(30) DEF PublishInv, At
    <3> QED
      BY <3>8, <3>15, ZenonT(30) DEF Kept
  <2> QED
    BY <2>4, <2>5, ZenonT(30)
<1> QED
  BY <1>1, <1>2, <1>3, <1>4, ZenonT(30)

LEMMA QueueKeeps ==
    ASSUME OwnedShape, OwnedShape', PublishInv, QueueStep \/ MarkSucceeded \/ HandlerFails \/ RunnerCrash
    PROVE  Kept
<1> USE DEF runnerFrame, recordVars, inventoryVars
<1>0. UNCHANGED <<promo, pposts, job, task, pub>>
  BY ZenonT(30) DEF QueueStep, ClaimItem, MarkSucceeded, HandlerFails, RunnerCrash
<1>1. CASE HandlerFails
  <2>1. Retry /\ rn.pc \notin {"idle", "tick"}
    BY <1>1, ZenonT(30) DEF HandlerFails
  <2> QED
    BY <1>0, <2>1, RetryKeeps, ZenonT(30)
<1>2. CASE MarkSucceeded \/ RunnerCrash
  <2>1. UNCHANGED dirty /\ Rest /\ (UNCHANGED q \/ q' = Complete(q, rn.k, rn.t))
    BY <1>2, ZenonT(30) DEF MarkSucceeded, RunnerCrash
  <2>2. rn.k \in Kinds /\ rn.t \in Tasks /\ IsQueue(q)
    BY ZenonT(30) DEF OwnedShape, PublishInv
  <2>3. Grows(q, q)
    BY <2>2, ZenonT(30) DEF Grows
  <2>4. Grows(q, q')
    BY <2>1, <2>2, <2>3, CompleteGrows, ZenonT(30)
  <2> QED
    BY <1>0, <2>1, <2>4, SameGoes, CalmEnds, ZenonT(30)
<1>3. ASSUME NEW k \in Kinds, NEW t \in Tasks, ClaimItem(k, t)  PROVE Kept
  <2>1. /\ q[<<k, t>>].st = "queued" /\ UNCHANGED dirty
        /\ q' = [q EXCEPT ![<<k, t>>] = [st |-> "running", att |-> @.att + 1]]
        /\ rn' = [Resting EXCEPT !.pc = "claimed", !.k = k, !.t = t]
    BY <1>3, ZenonT(30) DEF ClaimItem
  <2>2. PICK row : /\ DOMAIN row = {"st", "att"} /\ row.st = "running"
                   /\ q' = [q EXCEPT ![<<k, t>>] = row]
    <3>1. <<k, t>> \in DOMAIN q
      BY ZenonT(30) DEF PublishInv, IsQueue
    <3>2. q' = [q EXCEPT ![<<k, t>>] = [st |-> "running", att |-> q[<<k, t>>].att + 1]]
      BY <2>1, <3>1, ZenonT(30)
    <3>3. /\ DOMAIN [st |-> "running", att |-> q[<<k, t>>].att + 1] = {"st", "att"}
          /\ [st |-> "running", att |-> q[<<k, t>>].att + 1].st = "running"
      BY ZenonT(30)
    <3> QED
      BY <3>2, <3>3, ZenonT(30)
  <2>3. Grows(q, q') /\ q'[<<k, t>>] = row
    <3>1. IsQueue(q)
      BY ZenonT(30) DEF PublishInv
    <3>2. RowMay(q, q', k, t, row)
      <4>1. q[<<k, t>>].st = "queued"
        BY <2>1, ZenonT(30)
      <4> QED
        BY <2>2, <4>1, ZenonT(30) DEF RowMay
    <3> QED
      BY <3>1, <3>2, RowGrows, SMTT(30)
  <2>4. rn'.t = t /\ rn'.pc = "claimed"
    BY <2>1, ClaimedShape, ZenonT(30)
  <2>5. rn'.k = k
    BY <2>1, RestingShape, ZenonT(30)
  <2>6. QueueGoes
    BY <2>3, SameGoes, ZenonT(30)
  <2>7. RowsStay
    BY <1>0, <2>6, ZenonT(30) DEF RowsStay, QueueGoes
  <2>8. rn'.k \in Kinds /\ q'[<<rn'.k, rn'.t>>].st = "running"
    BY <2>2, <2>3, <2>4, <2>5, ZenonT(30)
  <2>9. At("promote", "claimed")' => (promo'[rn'.t] # "none" => dirty'[rn'.t])
    BY <1>0, <2>1, <2>4, <2>5, SMTT(30) DEF At, PublishInv
  <2>10. ~At("promote", "settle")'
    BY <2>4, ZenonT(30) DEF At
  <2>11. \A u \in Tasks : promo'[u] # "none" =>
              (q'[<<"promote", u>>].st # "none" /\ (q'[<<"promote", u>>].st = "queued" => dirty'[u]))
    BY <1>0, <2>1, <2>6, ZenonT(30) DEF PublishInv, QueueGoes
  <2>12. IsQueue(q)'
    BY <2>6, ZenonT(30) DEF QueueGoes, IsQueue
  <2>13. PublishInv'
    BY <1>0, <2>1, <2>8, <2>9, <2>10, <2>11, <2>12, ZenonT(30) DEF PublishInv
  <2> QED
    BY <2>7, <2>13, ZenonT(30) DEF Kept
<1> QED
  BY <1>1, <1>2, <1>3, ZenonT(30) DEF QueueStep

LEMMA TickKeeps ==
    ASSUME OwnedShape, OwnedShape', PublishInv, Owned, TickStep
    PROVE  Kept
<1> USE DEF runnerFrame, recordVars, inventoryVars
<1>0. IsQueue(q) /\ rn.t \in Tasks /\ "plan" \in Kinds
  BY KindsOf, ZenonT(30) DEF OwnedShape, PublishInv
<1>1. CASE \E ok \in BOOLEAN : OwnedTick(ok)
  <2>1. UNCHANGED <<promo, pposts, job, task, pub, q, dirty>>
    BY <1>1, ZenonT(30) DEF OwnedTick, TickHolds, TickCompletes
  <2>2. UNCHANGED rn \/ rn' = [Resting EXCEPT !.pc = "tick", !.t = Next1(Unused)]
    BY <1>1, ZenonT(30) DEF OwnedTick
  <2>3. CASE UNCHANGED rn
    BY <2>1, <2>3, SameGoes, CalmOthers, ZenonT(30)
  <2>4. CASE rn' = [Resting EXCEPT !.pc = "tick", !.t = Next1(Unused)]
    <3>1. rn'.pc = "tick" /\ rn'.k = Resting.k
      BY <2>4, RestingShape, ZenonT(30)
    <3>2. RunnerGoes
      BY <3>1, RestingKind, ZenonT(30) DEF RunnerGoes
    <3> QED
      BY <2>1, <3>2, SameGoes, CalmKeeps, ZenonT(30) DEF Calm
  <2> QED
    BY <2>2, <2>3, <2>4, ZenonT(30)
<1>2. CASE \E allow \in BOOLEAN : OwnedTickFinish(allow)
  <2>1. UNCHANGED <<promo, pposts, job, pub, dirty>> /\ Rest
    BY <1>2, ZenonT(30) DEF OwnedTickFinish
  <2>2. \/ UNCHANGED <<task, q>>
        \/ q' = EnqueueOnce(q, "plan", rn.t) /\ task' = [task EXCEPT ![rn.t].st = "selected"]
    BY <1>2, ZenonT(30) DEF OwnedTickFinish, TickHolds, TickCompletes, Admit, SelectTask
  <2>3. Grows(q, q)
    BY <1>0, ZenonT(30) DEF Grows
  <2>4. Grows(q, q')
    BY <1>0, <2>2, <2>3, OnceGrows, SMTT(30)
  <2>5. TaskGoes
    BY <1>0, <2>2, SMTT(30) DEF OwnedShape, TaskGoes
  <2> QED
    BY <2>1, <2>4, <2>5, SameGoes, CalmEnds, ZenonT(30)
<1> QED
  BY <1>1, <1>2, ZenonT(30) DEF TickStep, PlainTick

LEMMA OperatorPublishes ==
    ASSUME OwnedShape, OwnedShape', PublishInv, Owned, OperatorStep
    PROVE  Kept
<1> USE DEF operatorFrame, inventoryVars
<1>0. UNCHANGED <<promo, pposts, job, rn>>
  BY OperatorFrame, ZenonT(30)
<1>1. CASE ~\E t \in Tasks : RejectPublication(t)
  <2>1. ~\E t \in Tasks : PromotePublication(t) \/ ReleaseReview(t)
    BY ZenonT(30) DEF PromotePublication, ReleaseReview, External, Owned
  <2>2. UNCHANGED <<task, q, dirty, pub>>
    BY <1>1, <2>1, ZenonT(30) DEF OperatorStep, SetHalted, PatchChannel, EditLane, InventoryApi, PlanApi, SetSchedule
  <2> QED
    BY <1>0, <2>2, SameGoes, CalmOthers, ZenonT(30)
<1>2. ASSUME NEW t \in Tasks, RejectPublication(t)  PROVE Kept
  <2>1. /\ pub[t] = "uploaded" /\ pub' = [pub EXCEPT ![t] = "rejected"]
        /\ task' = [task EXCEPT ![t].st = "rejected"]
        /\ q' = [x \in DOMAIN q |-> IF x \in Cancelled(t) THEN [st |-> "cancelled", att |-> 0] ELSE q[x]]
        /\ dirty' = [dirty EXCEPT ![t] = @ \/ Cancelled(t) # {}]
    BY <1>2, ZenonT(30) DEF RejectPublication
  <2>2. TaskGoes /\ PubGoes
    BY <2>1, SMTT(30) DEF OwnedShape, PublishInv, TaskGoes, PubGoes
  <2>3. DirtyGoes
    <3>1. DOMAIN dirty' = Tasks /\ (\A u \in Tasks \ {t} : dirty'[u] = dirty[u]) /\ dirty'[t] = (dirty[t] \/ Cancelled(t) # {})
      BY <2>1, ZenonT(30) DEF PublishInv
    <3> QED
      BY <3>1, ZenonT(30) DEF DirtyGoes
  <2>4. DOMAIN q = Kinds \X Tasks /\ DOMAIN q' = Kinds \X Tasks
    BY <2>1, ZenonT(30) DEF PublishInv, IsQueue
  <2>5. \A x \in Kinds \X Tasks : q'[x] = q[x] \/ (q[x].st = "queued" /\ q'[x] = [st |-> "cancelled", att |-> 0])
    BY <2>1, <2>4, ZenonT(30) DEF Cancelled
  <2>6. IsQueue(q')
    BY <2>4, <2>5, SMTT(30) DEF PublishInv, IsQueue
  <2>7. ASSUME NEW u \in Tasks, NEW c \in Kinds
        PROVE  q'[<<c, u>>].st = q[<<c, u>>].st \/ (q[<<c, u>>].st = "queued" /\ q'[<<c, u>>].st = "cancelled")
    <3>1. <<c, u>> \in Kinds \X Tasks
      BY ZenonT(30)
    <3> QED
      BY <2>5, <3>1, SMTT(30)
  <2>8. QueueGoes
    BY <2>6, <2>7, KindsOf, ZenonT(30) DEF QueueGoes
  <2>9. RunnerGoes
    <3>1. rn.pc \notin {"idle", "tick"} => q'[<<rn.k, rn.t>>].st = "running"
      BY <2>7, ZenonT(30) DEF PublishInv, OwnedShape
    <3> QED
      BY <1>0, <3>1, ZenonT(30) DEF RunnerGoes, PublishInv
  <2> QED
    BY <1>0, <2>2, <2>3, <2>8, <2>9, SameGoes, CalmKeeps, ZenonT(30) DEF Calm
<1> QED
  BY <1>1, <1>2, ZenonT(30)

\* Workers, jobs and time leave the agent's records alone; a job that ended
\* or does not exist is not touched.
LEMMA OthersKeep ==
    ASSUME UploadShape, OwnedShape, OwnedShape', PublishInv,
           \/ \E w \in Workers : WorkerStep(w) \/ WorkerFault(w)
           \/ \E j \in Jobs : JobStep(j)
           \/ TimeStep
    PROVE  Kept
<1>1. UNCHANGED <<promo, pposts, dirty, pub, q, rn, task>>
  BY ZenonT(30) DEF WorkerStep, WorkerFault, JobStep, StartWaiting, TimeStep, WindowEnds, DayPasses,
    MetricsDue, MetricsLate, timeFrame, agentVars, recordVars
<1>2. JobGoes
  <2>0. ASSUME NEW j \in Jobs, job[j].st \in {"waiting", "running"}, NEW st, job' = [job EXCEPT ![j].st = st]
        PROVE  JobGoes
    BY <2>0, ZenonT(30) DEF OwnedShape, JobGoes
  <2>1. CASE TimeStep
    <3>1. UNCHANGED job
      BY <2>1, ZenonT(30) DEF TimeStep, WindowEnds, DayPasses, MetricsDue, MetricsLate, timeFrame,
        autoflowVars
    <3> QED
      BY <3>1, SameGoes, ZenonT(30)
  <2>2. ASSUME NEW j \in Jobs, JobStep(j)  PROVE JobGoes
    <3>1. UNCHANGED job \/ (job[j].st \in {"waiting", "running"} /\ \E st : job' = [job EXCEPT ![j].st = st])
      BY <2>2, ZenonT(30) DEF JobStep, StartWaiting, CancelJob, ManagerSettles
    <3> QED
      BY <2>0, <3>1, SameGoes, ZenonT(30)
  <2>3. ASSUME NEW w \in Workers, WorkerStep(w) \/ WorkerFault(w)  PROVE JobGoes
    <3> DEFINE Ends == UNCHANGED job \/ (Current(w) /\ \E st : job' = [job EXCEPT ![wk[w].j].st = st])
    <3>0. Raise(w) => Ends
      BY ZenonT(30) DEF Raise, FailNode
    <3>1. ASSUME \/ ReserveOperation(w, UploadAuthority(wk[w].j))
                 \/ \E preflight \in BOOLEAN : MarkAttempting(w, UploadAuthority(wk[w].j), preflight)
                 \/ AcquireFence(w, UploadAuthority(wk[w].j))
          PROVE  Ends
      BY <3>0, <3>1, ZenonT(30) DEF ReserveOperation, MarkAttempting, PreflightFails, AcquireFence
    <3>2. ASSUME \/ RecordAnswer(w) \/ PollManager(w) \/ FinishNode(w)
                 \/ \E uncertain \in BOOLEAN : PollGivesUp(w, uncertain)
          PROVE  Ends
      BY <3>0, <3>2, ZenonT(30) DEF RecordAnswer, PollManager, FinishNode, PollGivesUp
    <3>3. ASSUME \/ \E j \in Jobs : ClaimNode(w, j)
                 \/ \E ack \in {"ok", "lost", "refused"} : PostUpload(w, ack)
                 \/ WorkerCrash(w) \/ LeaseEnds(w)
          PROVE  Ends
      BY <3>3, ZenonT(30) DEF ClaimNode, PostUpload, WorkerCrash, LeaseEnds
    <3> HIDE DEF Ends
    <3>4. Ends
      BY <2>3, <3>1, <3>2, <3>3, ZenonT(30) DEF WorkerStep, WorkerFault
    <3> USE DEF Ends
    <3>5. wk[w].j \in Jobs /\ (Current(w) => job[wk[w].j].st \in {"waiting", "running"})
      BY ZenonT(30) DEF UploadShape, Current
    <3> QED
      BY <2>0, <3>4, <3>5, SameGoes, ZenonT(30)
  <2> QED
    BY <2>1, <2>2, <2>3, ZenonT(30)
<1> QED
  BY <1>1, <1>2, SameGoes, CalmOthers, ZenonT(30)

LEMMA OwnedPublishes ==
    ASSUME Inv, Owned, OwnedShape', PublishInv, Next
    PROVE  Kept
<1>0. UploadShape /\ OwnedShape /\ PromotionInv /\ BoundInv
  BY ZenonT(30) DEF Inv, UploadInv, OwnedInv
<1>1. CASE QueueStep \/ MarkSucceeded \/ HandlerFails \/ RunnerCrash
  BY <1>0, <1>1, QueueKeeps, ZenonT(30)
<1>2. CASE OwnedStep
  BY <1>0, <1>2, PlanKeeps, ExecuteKeeps, ObserveKeeps, PromoteKeeps, MetricsKeeps, ZenonT(30) DEF OwnedStep
<1>3. CASE PlainStep /\ ~MarkSucceeded
  BY <1>3, ZenonT(30) DEF PlainStep, PlanPlain, ApprovePlainPlan, CommitPlan, ExecutePlain, BindJob,
    ObservePlain, PublishPlain, CheckPromotion, PostPlain, CommitPromotion, QueueReconcile, ReconcilePlain,
    CollectPlain, PlainAt
<1>4. CASE TickStep
  BY <1>0, <1>4, TickKeeps, ZenonT(30)
<1>5. CASE \/ \E w \in Workers : WorkerStep(w) \/ WorkerFault(w)
           \/ \E j \in Jobs : JobStep(j)
           \/ TimeStep
  BY <1>0, <1>5, OthersKeep, ZenonT(30)
<1>6. CASE OperatorStep
  BY <1>0, <1>6, OperatorPublishes, ZenonT(30)
<1> QED
  BY <1>1, <1>2, <1>3, <1>4, <1>5, <1>6, ZenonT(30) DEF Next, RunnerStep

-----------------------------------------------------------------------------
(* What makes an item completed. *)

Published(t) ==
    /\ op[BoundJob(t)].st = "succeeded" /\ posts[BoundJob(t)] = 1
    /\ task[t].job = 1 /\ job[BoundJob(t)].st = "succeeded"
    /\ pub[t] = "scheduled" /\ promo[t] = "finalized" /\ pposts[t] = 1
    /\ q[<<"reconcile", t>>].st = "succeeded"

\* A finished history, read from the rows.
LEMMA FinishedRows ==
    ASSUME NEW Q, NEW t \in FinishedIn(Q)
    PROVE  /\ ~dirty[t] /\ op[BoundJob(t)].st = "succeeded" /\ job[BoundJob(t)].st = "succeeded"
           /\ pub[t] = "scheduled" /\ Q[<<"reconcile", t>>].st = "succeeded"
<1>1. HistoryIn(Q, t) \in {"metrics", "cooldown", "clean"}
  BY ZenonT(30) DEF FinishedIn
<1>2. /\ ~Broken(t) /\ op[BoundJob(t)].st = "succeeded" /\ job[BoundJob(t)].st = "succeeded"
      /\ pub[t] = "scheduled" /\ Reconciled(Q, t) \notin {"error", "no"}
  BY <1>1, ZenonT(30) DEF HistoryIn
<1>3. Q[<<"reconcile", t>>].st = "succeeded"
  BY <1>2, ZenonT(30) DEF Reconciled
<1>4. ~dirty[t]
  BY <1>2, ZenonT(30) DEF Broken
<1> QED
  BY <1>2, <1>3, <1>4, ZenonT(30)

\* ... and what they imply.
LEMMA FinishedIsPublished ==
    ASSUME Inv, Owned, SentInv, PublishInv, NEW Q, NEW t \in FinishedIn(Q), t \in Tasks
    PROVE  /\ op[BoundJob(t)].st = "succeeded" /\ posts[BoundJob(t)] = 1
           /\ task[t].job = 1 /\ job[BoundJob(t)].st = "succeeded"
           /\ pub[t] = "scheduled" /\ promo[t] = "finalized" /\ pposts[t] = 1
           /\ Q[<<"reconcile", t>>].st = "succeeded"
<1>1. /\ ~dirty[t] /\ op[BoundJob(t)].st = "succeeded" /\ job[BoundJob(t)].st = "succeeded"
      /\ pub[t] = "scheduled" /\ Q[<<"reconcile", t>>].st = "succeeded"
  BY FinishedRows, ZenonT(30)
<1>2. BoundJob(t) \in Jobs
  BY BoundJobs, ZenonT(30)
<1>3. posts[BoundJob(t)] = 1
  BY <1>1, <1>2, SMTT(30) DEF Inv, UploadInv, UploadShape, OnePost, SentInv
<1>4. promo[t] = "finalized" /\ task[t].job = 1
  BY <1>1, ZenonT(30) DEF PublishInv
<1>5. pposts[t] = 1
  BY <1>1, <1>4, ZenonT(30) DEF PublishInv
<1> QED
  BY <1>1, <1>3, <1>4, <1>5, ZenonT(30)

\* Only a finished history completes an item; the reconcile handler reads
\* it with its own item done.
LEMMA Completing ==
    ASSUME DOMAIN item = Tasks, Next, NEW u \in Tasks, item[u] # "completed", item'[u] = "completed"
    PROVE  \/ u \in FinishedIn(q)
           \/ u \in FinishedIn(q') /\ UNCHANGED <<op, posts, task, job, pub, promo, pposts>>
<1>0. item' # item
  BY ZenonT(30)
<1>1. CASE PlainStep \/ QueueStep
  BY <1>0, <1>1, PlainKeepsInventory, ZenonT(30) DEF inventoryVars
<1>2. CASE \/ HandlerFails \/ RunnerCrash \/ TimeStep
           \/ \E w \in Workers : WorkerStep(w) \/ WorkerFault(w)
           \/ \E j \in Jobs : JobStep(j)
  BY <1>0, <1>2, ZenonT(30) DEF HandlerFails, RunnerCrash, inventoryVars, WorkerStep, WorkerFault, JobStep,
    StartWaiting, agentVars, TimeStep, WindowEnds, DayPasses, MetricsDue, MetricsLate, timeFrame
<1>3. CASE OwnedStep
  <2>1. PICK ok \in BOOLEAN : ReconcileOwned(ok)
    <3>1. Hold => UNCHANGED item
      BY ZenonT(30) DEF Hold
    <3> QED
      BY <1>0, <1>3, <3>1, ZenonT(30) DEF OwnedStep, PlanOwned, StorePlanPolicy, ApproveOwnedPlan, FinishPlan,
        ExecuteOwned, FinishExecute, ObserveOwned, PublishOwned, PreparePromotion, ReservePromotion,
        PromotionFence, PostPromotion, SettlePromotion, CollectOwned, inventoryVars
  <2>2. /\ item' = Settle(FinishedIn(q') \cap {rn.t})
        /\ UNCHANGED <<op, posts, task, job, pub, promo, pposts>>
    BY <1>0, <2>1, ZenonT(30) DEF ReconcileOwned, FinalizeItems, Hold, runnerFrame, recordVars
  <2> QED
    BY <2>2, ZenonT(30) DEF Settle
<1>4. CASE OperatorStep \/ TickStep
  <2>1. \/ item' = Settle(FeedbackCompletes) \/ item' = Settle(FinishedItems)
        \/ item' = [Settle(FinishedItems) EXCEPT ![rn.t] = "reserved"]
    BY <1>0, <1>4, ZenonT(30) DEF OperatorStep, SetHalted, PatchChannel, EditLane, InventoryApi, CreateInventory,
      ApproveInventory, OpenIntake, RecoverInventory, RevokeInventory, Feedback, PlanApi, RejectPublication,
      PromotePublication, ReleaseReview, SetSchedule, inventoryVars, TickStep, OwnedTick, OwnedTickFinish,
      PlainTick, TickHolds, TickCompletes, Admit
  <2>2. FeedbackCompletes \subseteq FinishedItems
    BY ZenonT(30) DEF FeedbackCompletes
  <2>3. u \in FinishedItems
    <3>1. item' = Settle(FeedbackCompletes) => u \in FeedbackCompletes
      BY ZenonT(30) DEF Settle
    <3>2. item' = Settle(FinishedItems) => u \in FinishedItems
      BY ZenonT(30) DEF Settle
    <3>3. item' = [Settle(FinishedItems) EXCEPT ![rn.t] = "reserved"] => u \in FinishedItems
      BY ZenonT(30) DEF Settle
    <3> QED
      BY <2>1, <2>2, <3>1, <3>2, <3>3, ZenonT(30)
  <2> QED
    BY <2>3, ZenonT(30) DEF FinishedItems
<1> QED
  BY <1>1, <1>2, <1>3, <1>4, ZenonT(30) DEF Next, RunnerStep

PublishedInv == SentInv /\ (Owned => PublishInv) /\ CompletedIsPublished

LEMMA PublishedKept ==
    ASSUME Inv, Inv', ItemInv, ItemInv', PublishedInv, Next  PROVE PublishedInv'
<1>1. Recorded
  <2>1. CASE \E w \in Workers : WorkerStep(w) \/ WorkerFault(w)
    BY <2>1, WorkerRecords, ZenonT(30) DEF Inv, PublishedInv
  <2>2. CASE ~\E w \in Workers : WorkerStep(w) \/ WorkerFault(w)
    <3>1. UNCHANGED <<op, wk, posts>>
      BY <2>2, UploadFrame, ZenonT(30) DEF Next
    <3> QED
      BY <3>1, ZenonT(30) DEF PublishedInv, Recorded, SentInv, OpStays, Sending
  <2> QED
    BY <2>1, <2>2, ZenonT(30)
<1>2. Owned' <=> Owned
  BY KindKept, ZenonT(30) DEF Inv, SameKind, Owned
<1>3. CASE ~Owned
  <2>1. CompletedIsPublished'
    BY <1>2, <1>3, ZenonT(30) DEF ItemInv, Used, CompletedIsPublished
  <2> QED
    BY <1>1, <1>2, <1>3, <2>1, ZenonT(30) DEF PublishedInv, Recorded
<1>4. CASE Owned
  <2>0. OwnedShape' /\ PublishInv /\ SentInv /\ DOMAIN item = Tasks
    BY <1>2, <1>4, ZenonT(30) DEF Inv, OwnedInv, PublishedInv, ItemInv, ItemStates
  <2>1. PublishInv' /\ RowsStay
    BY <1>4, <2>0, OwnedPublishes, ZenonT(30) DEF Kept
  <2>2. ASSUME NEW t \in Tasks, Published(t)  PROVE Published(t)'
    <3>1. BoundJob(t) \in Jobs
      BY BoundJobs, ZenonT(30)
    <3>2. op'[BoundJob(t)].st = "succeeded" /\ posts'[BoundJob(t)] = 1
      BY <1>1, <2>2, <3>1, ZenonT(30) DEF Published, Recorded, OpStays
    <3> QED
      BY <2>1, <2>2, <3>2, ZenonT(30) DEF Published, RowsStay
  <2>3. ASSUME NEW t \in Tasks, item'[t] = "completed"  PROVE Published(t)'
    <3>1. CASE item[t] = "completed"
      BY <2>2, <3>1, ZenonT(30) DEF PublishedInv, CompletedIsPublished, Published
    <3>2. CASE t \in FinishedIn(q)
      <4>1. Published(t)
        BY <1>4, <2>0, <3>2, FinishedIsPublished, ZenonT(30) DEF Published
      <4> QED
        BY <2>2, <4>1, ZenonT(30)
    <3>3. CASE t \in FinishedIn(q') /\ UNCHANGED <<op, posts, task, job, pub, promo, pposts>>
      BY <1>4, <2>0, <3>3, FinishedIsPublished, ZenonT(30) DEF Published
    <3> QED
      BY <2>0, <2>3, <3>1, <3>2, <3>3, Completing, ZenonT(30)
  <2>4. CompletedIsPublished'
    BY <2>3, ZenonT(30) DEF CompletedIsPublished, Published
  <2> QED
    BY <1>1, <2>1, <2>4, ZenonT(30) DEF PublishedInv, Recorded
<1> QED
  BY <1>3, <1>4, ZenonT(30)

LEMMA PublishedInitially == Init => PublishedInv
<1> SUFFICES ASSUME Init  PROVE PublishedInv
  BY ZenonT(30)
<1>1. SentInv
  BY IdleShape, ZenonT(30) DEF Init, UploadInit, SentInv, Sending
<1>2. /\ q = [x \in Kinds \X Tasks |-> Nothing] /\ dirty = [t \in Tasks |-> FALSE]
      /\ pub = [t \in Tasks |-> "none"] /\ promo = [t \in Tasks |-> "none"]
      /\ rn = Resting /\ job = [j \in Jobs |-> [st |-> "none", rev |-> 0]]
      /\ item = [t \in Tasks |-> "unused"]
  BY ZenonT(30) DEF Init, AgentInit, AutoFlowInit
<1>3. IsQueue(q) /\ DOMAIN dirty = Tasks /\ DOMAIN pub = Tasks
  BY <1>2, ZenonT(30) DEF IsQueue, Nothing
<1>4. rn.k \in Kinds /\ rn.pc = "idle"
  BY <1>2, RestingKind, ZenonT(30)
<1>5. \A t \in Tasks : promo[t] = "none" /\ pub[t] = "none" /\ job[BoundJob(t)].st = "none"
  BY <1>2, BoundJobs, ZenonT(30)
<1>6. PublishInv
  BY <1>3, <1>4, <1>5, ZenonT(30) DEF PublishInv, At
<1>7. CompletedIsPublished
  BY <1>2, ZenonT(30) DEF CompletedIsPublished
<1> QED
  BY <1>1, <1>6, <1>7, ZenonT(30) DEF PublishedInv

\* An inventory item counts as completed only when its video was uploaded,
\* promoted and reconciled, each once and by the job of its own task
\* (_normal_history and finalize_owned_inventory_items), for any number of
\* items, workers, crashes, retries and interventions.
THEOREM CompletedWasPublished == Spec => []CompletedIsPublished
<1>1. Inv /\ ItemInv /\ PublishedInv /\ [Next]_vars /\ Inv' /\ ItemInv' => PublishedInv'
  <2>1. ASSUME PublishedInv, UNCHANGED vars  PROVE PublishedInv'
    <3>1. UNCHANGED <<op, wk, posts, item, task, job, pub, promo, pposts, q, dirty, rn, chan>>
      BY <2>1, ZenonT(30) DEF vars, autoflowVars, uploadVars, agentVars, inventoryVars, recordVars
    <3>2. SentInv' /\ (Owned' => Owned)
      BY <2>1, <3>1, ZenonT(30) DEF PublishedInv, SentInv, Sending, Owned
    <3>3. PublishInv => PublishInv'
      BY <3>1, ZenonT(30) DEF PublishInv, IsQueue, At
    <3>4. CompletedIsPublished'
      BY <2>1, <3>1, ZenonT(30) DEF PublishedInv, CompletedIsPublished
    <3> QED
      BY <2>1, <3>2, <3>3, <3>4, ZenonT(30) DEF PublishedInv
  <2> QED
    BY <2>1, PublishedKept, ZenonT(30)
<1>2. PublishedInv => CompletedIsPublished
  BY ZenonT(30) DEF PublishedInv
<1> QED
  BY <1>1, <1>2, Initially, Inductive, ItemsInitially, ItemsStep, PublishedInitially, PTL DEF Spec
====
