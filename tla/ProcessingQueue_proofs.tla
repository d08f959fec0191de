------------------------ MODULE ProcessingQueue_proofs ------------------------
(***************************************************************************)
(* Proofs about ProcessingQueue for any sets of documents, worker slots    *)
(* and reprocess calls, any faults and any bound on the claims.            *)
(***************************************************************************)
EXTENDS ProcessingQueue, TLAPS

\* A busy slot holds a document and an attempt that was drawn for it.
RunOK(w) ==
  \/ run[w] = NoRun
  \/ /\ run[w].pc # "idle"
     /\ run[w].doc \in Doc
     /\ run[w].attempt \in AttemptNo
     /\ run[w].attempt <= job[run[w].doc].count

TypeInv ==
  /\ TypeOK
  /\ \A w \in Worker : RunOK(w)

(***************************************************************************)
(* Every step is a claim, a requeue, or a step that leaves the attempt of  *)
(* every job alone and moves at most one run, which keeps its attempt or   *)
(* ends.                                                                   *)
(***************************************************************************)
RunMoves(w) ==
  /\ run' = [run EXCEPT ![w] = run'[w]]
  /\ run'[w] \in RunRecord
  /\ \/ run'[w] = NoRun
     \/ /\ run[w].pc # "idle"
        /\ run'[w].pc # "idle"
        /\ run'[w].doc = run[w].doc
        /\ run'[w].attempt = run[w].attempt

JobKept ==
  /\ job' \in [Doc -> JobRecord]
  /\ \A d \in Doc : job'[d].count = job[d].count /\ job'[d].current = job[d].current

Keeps == JobKept /\ (run' = run \/ \E w \in Worker : RunMoves(w))

-----------------------------------------------------------------------------
(* The helpers of the steps.                                               *)

LEMMA Records == NoJob \in JobRecord /\ NoRun \in RunRecord /\ NoRun.doc \notin Doc
BY QueueAssumption DEF NoJob, JobRecord, JobStatus, NoRun, RunRecord, RunStep, Settled

LEMMA Bound == MaxAttempts \in Nat
BY QueueAssumption

LEMMA Busy ==
  ASSUME TypeInv, NEW w \in Worker, run[w].pc # "idle"
  PROVE  /\ run[w] \in RunRecord
         /\ run[w].doc \in Doc
         /\ run[w].attempt \in AttemptNo
         /\ run[w].attempt <= job[run[w].doc].count
         /\ job[run[w].doc] \in JobRecord
BY DEF TypeInv, TypeOK, RunOK, NoRun

LEMMA GotoMoves ==
  ASSUME TypeInv, NEW w \in Worker, run[w].pc # "idle",
         NEW pc \in RunStep \ {"idle"}, Goto(w, pc)
  PROVE  RunMoves(w)
BY Busy DEF TypeInv, TypeOK, Goto, SetRun, RunMoves, RunRecord

LEMMA ClosingMoves ==
  ASSUME TypeInv, NEW w \in Worker, run[w].pc # "idle",
         NEW status \in Settled \cup {"retry_wait"}, NEW episode \in Nat,
         Closing(w, status, episode)
  PROVE  RunMoves(w)
BY Busy DEF TypeInv, TypeOK, Closing, SetRun, RunMoves, RunRecord, RunStep

LEMMA HandleMoves ==
  ASSUME TypeInv, NEW w \in Worker, run[w].pc # "idle",
         NEW status \in Settled \cup {"retry_wait"}, Handle(w, status)
  PROVE  RunMoves(w)
BY Busy DEF TypeInv, TypeOK, Handle, SetRun, RunMoves, RunRecord, RunStep

LEMMA EndMoves ==
  ASSUME TypeInv, NEW w \in Worker, SetRun(w, NoRun)
  PROVE  RunMoves(w)
BY Records DEF TypeInv, TypeOK, SetRun, RunMoves

LEMMA AfterCloseMoves ==
  ASSUME TypeInv, NEW w \in Worker, run[w].pc # "idle", SetRun(w, AfterClose(w))
  PROVE  RunMoves(w)
<1>1. CASE AfterClose(w) = NoRun
  BY <1>1, EndMoves
<1>2. CASE AfterClose(w) = [run[w] EXCEPT !.pc = "recovering"]
  BY <1>2, GotoMoves DEF Goto, RunStep
<1> QED
  BY <1>1, <1>2 DEF AfterClose

LEMMA RetryStatusType == \A d : RetryStatus(d) \in Settled \cup {"retry_wait"}
BY DEF RetryStatus, Settled

LEMMA StoreTyped ==
  ASSUME TypeInv, NEW w \in Worker, run[w].pc # "idle", NEW directed, Store(w, directed)
  PROVE  canonical' \in [Doc -> 0 .. MaxAttempts] /\ document' \in [Doc -> 0 .. MaxAttempts]
BY Busy, QueueAssumption DEF Store, TypeInv, TypeOK, AttemptNo

\* Steps of one run that touch nothing shared
Local(w) ==
  /\ RunMoves(w)
  /\ UNCHANGED <<job, attempt, mirror, canonical, document, reprocess, opened, open, late>>

LEMMA LocalKeeps ==
  ASSUME TypeInv, NEW w \in Worker, Local(w)
  PROVE  TypeOK' /\ Keeps
BY DEF Local, TypeInv, TypeOK, Keeps, JobKept, RunMoves

-----------------------------------------------------------------------------
(* Each action keeps the types and has one of the three forms.             *)

LEMMA RunSteps ==
  ASSUME TypeInv, NEW w \in Worker, WorkerStep(w), ~ \E d \in Doc : Claim(w, d)
  PROVE  TypeOK' /\ Keeps
<1> USE RetryStatusType DEF At
<1>1. CASE ClaimMirror(w)
  <2>1. RunMoves(w)
    BY <1>1, GotoMoves DEF ClaimMirror, RunStep
  <2> QED
    BY <1>1, <2>1, Busy DEF ClaimMirror, SetMirror, TypeInv, TypeOK, Keeps, JobKept, RunMoves, JobStatus
<1>2. CASE Snapshot(w)
  <2>1. Local(w)
    BY <1>2, GotoMoves DEF Snapshot, RunStep, Local
  <2> QED BY <2>1, LocalKeeps
<1>3. CASE SnapshotMirror(w)
  <2>1. RunMoves(w)
    BY <1>3, GotoMoves DEF SnapshotMirror, RunStep
  <2> QED
    BY <1>3, <2>1, Busy DEF SnapshotMirror, SetMirror, TypeInv, TypeOK, Keeps, JobKept, RunMoves, JobStatus
<1>4. ASSUME NEW directed \in Directed, Save(w, directed)
      PROVE  TypeOK' /\ Keeps
  <2>1. RunMoves(w)
    <3>1. CASE Closing(w, "completed", 0)
      BY <1>4, <3>1, ClosingMoves DEF Save, Settled
    <3>2. CASE Goto(w, "recording")
      BY <1>4, <3>2, GotoMoves DEF Save, RunStep
    <3> QED BY <1>4, <3>1, <3>2 DEF Save
  <2>2. canonical' \in [Doc -> 0 .. MaxAttempts] /\ document' \in [Doc -> 0 .. MaxAttempts]
    BY <1>4, StoreTyped DEF Save
  <2> QED
    BY <1>4, <2>1, <2>2 DEF Save, TypeInv, TypeOK, Keeps, JobKept, RunMoves
<1>5. CASE SaveRefused(w)
  <2>1. Local(w)
    BY <1>5, HandleMoves DEF SaveRefused, Settled, Local
  <2> QED BY <2>1, LocalKeeps
<1>6. CASE PipelineRaises(w)
  <2>1. Local(w)
    BY <1>6, HandleMoves DEF PipelineRaises, Settled, Local
  <2> QED BY <2>1, LocalKeeps
<1>7. CASE RecordOutage(w)
  <2>1. RunMoves(w)
    <3>1. CASE Closing(w, RetryStatus(run[w].doc), open)
      BY <1>7, <3>1, ClosingMoves DEF RecordOutage, TypeInv, TypeOK
    <3>2. CASE Goto(w, "opening")
      BY <1>7, <3>2, GotoMoves DEF RecordOutage, RunStep
    <3> QED BY <1>7, <3>1, <3>2 DEF RecordOutage
  <2>2. Local(w)
    BY <1>7, <2>1 DEF RecordOutage, Local
  <2> QED BY <2>2, LocalKeeps
<1>8. CASE OpenEpisode(w)
  <2>1. RunMoves(w)
    <3>1. CASE Closing(w, RetryStatus(run[w].doc), opened + 1)
      BY <1>8, <3>1, ClosingMoves DEF OpenEpisode, TypeInv, TypeOK
    <3>2. CASE Handle(w, "failed")
      BY <1>8, <3>2, HandleMoves DEF OpenEpisode, Settled
    <3> QED BY <1>8, <3>1, <3>2 DEF OpenEpisode
  <2>2. opened' \in Nat /\ open' \in 0 .. opened'
    BY <1>8 DEF OpenEpisode, TypeInv, TypeOK
  <2> QED
    BY <1>8, <2>1, <2>2 DEF OpenEpisode, TypeInv, TypeOK, Keeps, JobKept, RunMoves
<1>9. CASE CountWaiters(w)
  <2>1. RunMoves(w)
    <3>1. CASE SetRun(w, NoRun)
      BY <3>1, EndMoves
    <3>2. CASE Goto(w, "recounted")
      BY <1>9, <3>2, GotoMoves DEF CountWaiters, RunStep
    <3> QED BY <1>9, <3>1, <3>2 DEF CountWaiters
  <2>2. Local(w)
    BY <1>9, <2>1 DEF CountWaiters, Local
  <2> QED BY <2>2, LocalKeeps
<1>10. CASE CloseEpisode(w)
  <2>1. RunMoves(w)
    BY <1>10, EndMoves DEF CloseEpisode
  <2>2. open' \in 0 .. opened'
    BY <1>10 DEF CloseEpisode, TypeInv, TypeOK
  <2> QED
    BY <1>10, <2>1, <2>2 DEF CloseEpisode, TypeInv, TypeOK, Keeps, JobKept, RunMoves
<1>11. CASE Close(w)
  <2> DEFINE d == run[w].doc
  <2>1. /\ d \in Doc /\ job[d] \in JobRecord /\ run[w] \in RunRecord
    BY <1>11, Busy DEF Close
  <2>2. RunMoves(w)
    <3>1. CASE Goto(w, "mirroring")
      BY <1>11, <3>1, GotoMoves DEF Close, RunStep
    <3>2. CASE SetRun(w, AfterClose(w))
      BY <1>11, <3>2, AfterCloseMoves DEF Close
    <3> QED BY <1>11, <3>1, <3>2 DEF Close
  <2>3. JobKept
    <3>1. CASE UNCHANGED job
      BY <3>1 DEF TypeInv, TypeOK, JobKept
    <3>2. CASE Current(w)
      <4> DEFINE to == [job[d] EXCEPT !.status = run[w].status, !.claim = "none", !.due = FALSE,
                          !.episode = IF run[w].status = "retry_wait" THEN run[w].episode ELSE 0]
      <4>1. to \in JobRecord /\ to.count = job[d].count /\ to.current = job[d].current
        BY <2>1 DEF JobRecord, RunRecord, JobStatus
      <4>2. CASE SetJob(d, to)
        BY <2>1, <4>1, <4>2 DEF SetJob, TypeInv, TypeOK, JobKept
      <4> QED BY <1>11, <3>2, <4>2 DEF Close
    <3> QED BY <1>11, <3>1, <3>2 DEF Close
  <2>4. attempt' \in [Doc -> [AttemptNo -> AttemptStatus]]
    <3>1. run[w].status \in AttemptStatus
      BY <2>1 DEF RunRecord, AttemptStatus
    <3>2. attempt[d] \in [AttemptNo -> AttemptStatus]
      BY <2>1 DEF TypeInv, TypeOK
    <3>3. [attempt[d] EXCEPT ![job[d].count] = run[w].status] \in [AttemptNo -> AttemptStatus]
      BY <3>1, <3>2
    <3>4. CASE attempt' = [attempt EXCEPT ![d][job[d].count] = run[w].status]
      BY <3>3, <3>4 DEF TypeInv, TypeOK
    <3> QED BY <1>11, <3>4 DEF Close, TypeInv, TypeOK
  <2> QED
    BY <1>11, <2>2, <2>3, <2>4 DEF Close, TypeInv, TypeOK, Keeps, JobKept, RunMoves
<1>12. CASE CloseMirror(w)
  <2>1. RunMoves(w)
    BY <1>12, AfterCloseMoves DEF CloseMirror
  <2>2. run[w].status \in JobStatus
    BY <1>12, Busy DEF CloseMirror, RunRecord, JobStatus
  <2> QED
    BY <1>12, <2>1, <2>2 DEF CloseMirror, SetMirror, TypeInv, TypeOK, Keeps, JobKept, RunMoves
<1>13. CASE StoreRaises(w)
  <2>1. RunMoves(w)
    <3>1. run[w].pc # "idle"
      BY <1>13 DEF StoreRaises
    <3>2. CASE Handle(w, RetryStatus(run[w].doc))
      BY <3>1, <3>2, HandleMoves
    <3>3. CASE Handle(w, "failed")
      BY <3>1, <3>3, HandleMoves DEF Settled
    <3> QED BY <1>13, <3>2, <3>3 DEF StoreRaises
  <2>2. canonical' \in [Doc -> 0 .. MaxAttempts] /\ document' \in [Doc -> 0 .. MaxAttempts]
    <3>1. CASE UNCHANGED <<canonical, document>>
      BY <3>1 DEF TypeInv, TypeOK
    <3>2. ASSUME NEW directed \in Directed, At(w, "working"), Store(w, directed)
          PROVE  canonical' \in [Doc -> 0 .. MaxAttempts] /\ document' \in [Doc -> 0 .. MaxAttempts]
      BY <3>2, StoreTyped
    <3> QED BY <1>13, <3>1, <3>2 DEF StoreRaises
  <2> QED
    BY <1>13, <2>1, <2>2 DEF StoreRaises, TypeInv, TypeOK, Keeps, JobKept, RunMoves
<1>14. CASE SnapshotRaises(w)
  <2>1. Local(w)
    BY <1>14, GotoMoves DEF SnapshotRaises, RunStep, Local
  <2> QED BY <2>1, LocalKeeps
<1>15. CASE Abandon(w)
  <2>1. Local(w)
    BY <1>15, EndMoves DEF Abandon, Local
  <2> QED BY <2>1, LocalKeeps
<1> QED
  BY <1>1, <1>2, <1>3, <1>4, <1>5, <1>6, <1>7, <1>8, <1>9, <1>10, <1>11, <1>12, <1>13, <1>14, <1>15
     DEF WorkerStep, RunStepOf

LEMMA RequeueMirrorTyped ==
  ASSUME TypeInv, NEW q \in Requester, RequeueMirror(q)
  PROVE  TypeOK' /\ Keeps
BY DEF RequeueMirror, SetMirror, TypeInv, TypeOK, Keeps, JobKept, JobStatus

\* Acceptance and the passing of time.
LEMMA QueueSteps ==
  ASSUME TypeInv, NEW d \in Doc,
         Accept(d) \/ ExpireClaim(d) \/ ComeDue(d) \/ LeaveWindow(d)
  PROVE  TypeOK' /\ Keeps
<1>0. job[d] \in JobRecord
  BY DEF TypeInv, TypeOK
<1>1. CASE Accept(d)
  BY <1>0, <1>1 DEF Accept, SetJob, SetMirror, TypeInv, TypeOK, Keeps, JobKept, JobRecord, JobStatus
<1>2. CASE ExpireClaim(d)
  BY <1>0, <1>2 DEF ExpireClaim, SetJob, TypeInv, TypeOK, Keeps, JobKept, JobRecord
<1>3. CASE ComeDue(d)
  BY <1>0, <1>3 DEF ComeDue, SetJob, TypeInv, TypeOK, Keeps, JobKept, JobRecord
<1>4. CASE LeaveWindow(d)
  BY <1>4 DEF LeaveWindow, TypeInv, TypeOK, Keeps, JobKept
<1> QED
  BY <1>1, <1>2, <1>3, <1>4

LEMMA RequeueTyped ==
  ASSUME TypeInv, NEW q \in Requester, NEW d \in Doc, Requeue(q, d)
  PROVE  /\ TypeOK'
         /\ \A e \in Doc : job'[e].count = job[e].count
         /\ job'[d].current = 0
         /\ \A e \in Doc \ {d} : job'[e] = job[e]
<1>1. job[d] \in JobRecord
  BY DEF TypeInv, TypeOK
<1> DEFINE to == [job[d] EXCEPT !.status = "queued", !.claim = "none", !.current = 0]
<1>2. to \in JobRecord /\ to.count = job[d].count /\ to.current = 0
  <2> DEFINE unclaimed == [job[d] EXCEPT !.status = "queued", !.claim = "none"]
  <2>1. unclaimed \in JobRecord /\ unclaimed.count = job[d].count
    BY <1>1 DEF JobRecord, JobStatus
  <2>2. to = [unclaimed EXCEPT !.current = 0]
    BY <1>1 DEF JobRecord
  <2>3. 0 \in 0 .. MaxAttempts
    BY Bound
  <2> HIDE DEF unclaimed, to
  <2> QED BY <2>1, <2>2, <2>3 DEF JobRecord
<1>3. job' = [job EXCEPT ![d] = to]
  BY DEF Requeue, SetJob
<1>4. attempt' \in [Doc -> [AttemptNo -> AttemptStatus]]
  BY DEF Requeue, TypeInv, TypeOK, AttemptStatus
<1> QED
  BY <1>2, <1>3, <1>4 DEF Requeue, TypeInv, TypeOK

LEMMA ClaimTyped ==
  ASSUME TypeInv, NEW w \in Worker, NEW d \in Doc, Claim(w, d)
  PROVE  /\ TypeOK'
         /\ job[d].count + 1 \in AttemptNo
         /\ job'[d].status = "processing"
         /\ job'[d].count = job[d].count + 1
         /\ job'[d].current = job[d].count + 1
         /\ \A e \in Doc \ {d} : job'[e] = job[e]
         /\ run'[w].pc = "claimed" /\ run'[w].doc = d /\ run'[w].attempt = job[d].count + 1
         /\ \A v \in Worker \ {w} : run'[v] = run[v]
<1> DEFINE n == job[d].count + 1
           to == [job[d] EXCEPT !.status = "processing", !.count = n, !.current = n, !.claim = "live"]
           local == [NoRun EXCEPT !.pc = "claimed", !.doc = d, !.attempt = n, !.had = job[d].episode]
<1>1. job[d] \in JobRecord /\ n \in AttemptNo
  BY DEF TypeInv, TypeOK, Claim, ClaimWith
<1>2. to \in JobRecord /\ to.status = "processing" /\ to.count = n /\ to.current = n
  <2> DEFINE taken == [job[d] EXCEPT !.status = "processing", !.claim = "live"]
  <2>1. taken \in JobRecord /\ taken.status = "processing"
    BY <1>1 DEF JobRecord, JobStatus
  <2>2. to = [taken EXCEPT !.count = n, !.current = n]
    BY <1>1 DEF JobRecord
  <2>3. n \in 0 .. MaxAttempts
    BY <1>1, Bound DEF AttemptNo
  <2> HIDE DEF taken, n
  <2> QED BY <2>1, <2>2, <2>3 DEF JobRecord
<1>3. local \in RunRecord /\ local.pc = "claimed" /\ local.doc = d /\ local.attempt = n
  <2>1. job[d].episode \in Nat /\ n \in 0 .. MaxAttempts
    BY <1>1, Bound DEF JobRecord, AttemptNo
  <2> QED
    BY <2>1, Bound DEF RunRecord, RunStep, NoRun, Settled
<1>4. job' = [job EXCEPT ![d] = to] /\ run' = [run EXCEPT ![w] = local]
  BY DEF Claim, ClaimWith, SetJob, SetRun
<1>5. attempt' \in [Doc -> [AttemptNo -> AttemptStatus]]
  BY DEF Claim, ClaimWith, TypeInv, TypeOK, AttemptStatus
<1> HIDE DEF to, local
<1> QED
  BY <1>1, <1>2, <1>3, <1>4, <1>5 DEF Claim, ClaimWith, TypeInv, TypeOK

-----------------------------------------------------------------------------
(* Type correctness.                                                       *)

LEMMA StepForms ==
  ASSUME TypeInv, Next
  PROVE  \/ Keeps
         \/ \E q \in Requester, d \in Doc : Requeue(q, d)
         \/ \E w \in Worker, d \in Doc : Claim(w, d)
<1>1. CASE \E d \in Doc : Accept(d) \/ ExpireClaim(d) \/ ComeDue(d) \/ LeaveWindow(d)
  BY <1>1, QueueSteps
<1>2. CASE \E q \in Requester : RequeueMirror(q)
  BY <1>2, RequeueMirrorTyped
<1>3. CASE \E w \in Worker : WorkerStep(w)
  BY <1>3, RunSteps
<1> QED
  BY <1>1, <1>2, <1>3 DEF Next

LEMMA StepTyped ==
  ASSUME TypeInv, Next
  PROVE  TypeOK'
<1>1. CASE \E d \in Doc : Accept(d) \/ ExpireClaim(d) \/ ComeDue(d) \/ LeaveWindow(d)
  BY <1>1, QueueSteps
<1>2. CASE \E q \in Requester : RequeueMirror(q)
  BY <1>2, RequeueMirrorTyped
<1>3. CASE \E w \in Worker : WorkerStep(w)
  BY <1>3, RunSteps, ClaimTyped
<1>4. CASE \E q \in Requester, d \in Doc : Requeue(q, d)
  BY <1>4, RequeueTyped
<1> QED
  BY <1>1, <1>2, <1>3, <1>4 DEF Next

LEMMA RunKept ==
  ASSUME TypeInv, Keeps, NEW w \in Worker
  PROVE  RunOK(w)'
<1>1. CASE run'[w] = run[w]
  BY <1>1 DEF TypeInv, RunOK, Keeps, JobKept
<1>2. ASSUME RunMoves(w)
      PROVE  RunOK(w)'
  <2>1. CASE run'[w] = NoRun
    BY <2>1 DEF RunOK
  <2>2. CASE run[w].pc # "idle" /\ run'[w].pc # "idle"
    BY <1>2, <2>2, Busy, Records DEF RunMoves, Keeps, JobKept, RunOK, NoRun
  <2> QED BY <1>2, <2>1, <2>2 DEF RunMoves
<1> QED
  BY <1>1, <1>2 DEF Keeps, RunMoves, TypeInv, TypeOK

LEMMA RunRequeued ==
  ASSUME TypeInv, NEW q \in Requester, NEW d \in Doc, Requeue(q, d), NEW w \in Worker
  PROVE  RunOK(w)'
BY RequeueTyped DEF Requeue, TypeInv, RunOK

LEMMA RunClaimed ==
  ASSUME TypeInv, NEW v \in Worker, NEW d \in Doc, Claim(v, d), NEW w \in Worker
  PROVE  RunOK(w)'
<1>1. CASE w = v
  BY <1>1, ClaimTyped, Bound DEF RunOK, AttemptNo
<1>2. CASE w # v
  <2>1. run'[w] = run[w] /\ RunOK(w)
    BY <1>2, ClaimTyped DEF TypeInv
  <2>2. ASSUME NEW e \in Doc
        PROVE  job[e].count \in Nat /\ job[e].count <= job'[e].count
    <3>1. job[e].count \in Nat
      BY Bound DEF TypeInv, TypeOK, JobRecord
    <3>2. job'[e].count = job[e].count \/ job'[e].count = job[e].count + 1
      BY ClaimTyped
    <3> QED BY <3>1, <3>2
  <2> QED
    BY <2>1, <2>2, ClaimTyped, Bound DEF RunOK, AttemptNo
<1> QED
  BY <1>1, <1>2

LEMMA TypeInit == Init => TypeInv
<1> SUFFICES ASSUME Init PROVE TypeInv
  OBVIOUS
<1>1. TypeOK
  BY Records, Bound DEF Init, TypeOK, JobStatus, AttemptStatus
<1>2. \A w \in Worker : RunOK(w)
  BY DEF Init, RunOK
<1> QED
  BY <1>1, <1>2 DEF TypeInv

LEMMA TypeStep == TypeInv /\ [Next]_vars => TypeInv'
<1> SUFFICES ASSUME TypeInv, [Next]_vars PROVE TypeInv'
  OBVIOUS
<1>1. CASE Next
  <2>1. ASSUME NEW w \in Worker
        PROVE  RunOK(w)'
    BY <1>1, <2>1, StepForms, RunKept, RunRequeued, RunClaimed
  <2> QED
    BY <1>1, <2>1, StepTyped DEF TypeInv
<1>2. CASE UNCHANGED vars
  BY <1>2 DEF vars, TypeInv, TypeOK, RunOK
<1> QED
  BY <1>1, <1>2

LEMMA TypeInvariant == Spec => []TypeInv
BY TypeInit, TypeStep, PTL DEF Spec

\* The queue's state keeps its types: whatever fails, a claim number, an episode id
\* and the local state of a run stay in their ranges.
THEOREM TypeCorrect == Spec => []TypeOK
BY TypeInvariant, PTL DEF TypeInv

-----------------------------------------------------------------------------
(* The fence: attempts are drawn upwards, the job names the newest or none *)
(* (after a requeue), and nothing older than it was stored as canonical.   *)

FenceInv ==
  /\ \A d \in Doc : job[d].current \in {0, job[d].count}
  /\ \A d \in Doc : canonical[d] <= job[d].count
  /\ OneRunPerAttempt

LEMMA Counts ==
  ASSUME TypeInv, NEW d \in Doc
  PROVE  job[d].count \in Nat /\ canonical[d] \in Nat
BY Bound DEF TypeInv, TypeOK, JobRecord

\* Only a run whose attempt is current stores a canonical journal, in its own name.
LEMMA CanonicalMoves ==
  ASSUME TypeInv, Next
  PROVE  \/ canonical' = canonical
         \/ \E w \in Worker :
              /\ run[w].pc # "idle"
              /\ Current(w)
              /\ Keeps
              /\ canonical' = [canonical EXCEPT ![run[w].doc] = run[w].attempt]
<1>1. CASE canonical' # canonical
  <2>1. PICK w \in Worker : WorkerStep(w)
    BY <1>1 DEF Next, Accept, ExpireClaim, ComeDue, LeaveWindow, Requeue, RequeueMirror
  <2>2. (\E directed \in Directed : Save(w, directed)) \/ StoreRaises(w)
    BY <1>1, <2>1
       DEF WorkerStep, RunStepOf, Claim, ClaimWith, ClaimMirror, Snapshot, SnapshotMirror,
           SaveRefused, PipelineRaises, RecordOutage, OpenEpisode, CountWaiters, CloseEpisode,
           Close, CloseMirror, SnapshotRaises, Abandon
  <2>3. PICK directed \in Directed : At(w, "working") /\ Store(w, directed)
    BY <1>1, <2>2 DEF Save, StoreRaises
  <2>4. directed /\ Current(w) /\ canonical' = [canonical EXCEPT ![run[w].doc] = run[w].attempt]
    BY <1>1, <2>3 DEF Store
  <2>5. run[w].pc # "idle"
    BY <2>3 DEF At
  <2>6. Keeps
    <3>1. ~ \E d \in Doc : Claim(w, d)
      BY <2>5 DEF Claim, ClaimWith, At
    <3> QED BY <2>1, <3>1, RunSteps
  <2> QED
    BY <2>4, <2>5, <2>6
<1> QED
  BY <1>1

\* After a step of the third form a run that is busy holds what it held.
LEMMA RunHolds ==
  ASSUME TypeInv, Keeps, NEW w \in Worker, run'[w].doc # None
  PROVE  /\ run[w].pc # "idle"
         /\ run'[w].doc = run[w].doc
         /\ run'[w].attempt = run[w].attempt
<1>1. run'[w] = run[w] \/ RunMoves(w)
  BY DEF Keeps, RunMoves, TypeInv, TypeOK
<1> QED
  BY <1>1 DEF RunMoves, NoRun, TypeInv, RunOK

LEMMA OneRunStep ==
  ASSUME TypeInv, OneRunPerAttempt, Next
  PROVE  OneRunPerAttempt'
<1> SUFFICES ASSUME NEW v \in Worker, NEW w \in Worker, v # w,
                    run'[v].doc = run'[w].doc, run'[v].attempt = run'[w].attempt,
                    run'[v].doc # None
             PROVE  FALSE
  BY DEF OneRunPerAttempt
<1>1. CASE Keeps
  BY <1>1, RunHolds DEF OneRunPerAttempt
<1>2. CASE \E q \in Requester, d \in Doc : Requeue(q, d)
  BY <1>2 DEF Requeue, OneRunPerAttempt
<1>3. ASSUME NEW u \in Worker, NEW d \in Doc, Claim(u, d)
      PROVE  FALSE
  <2>1. ASSUME NEW x \in Worker, x # u, run'[x].doc = d
        PROVE  run'[x].attempt # run'[u].attempt
    <3>1. run'[x] = run[x] /\ run'[u].attempt = job[d].count + 1
      BY <1>3, <2>1, ClaimTyped
    <3>2. run[x].pc # "idle"
      BY <2>1, <3>1, QueueAssumption DEF TypeInv, RunOK, NoRun
    <3>3. run[x].attempt <= job[d].count /\ run[x].attempt \in Nat
      BY <2>1, <3>1, <3>2, Busy, Bound DEF AttemptNo
    <3> QED BY <3>1, <3>3, Counts
  <2>2. CASE v = u
    BY <1>3, <2>1, <2>2, ClaimTyped
  <2>3. CASE w = u
    BY <1>3, <2>1, <2>3, ClaimTyped
  <2>4. CASE v # u /\ w # u
    BY <1>3, <2>4, ClaimTyped DEF OneRunPerAttempt
  <2> QED BY <2>2, <2>3, <2>4
<1> QED
  BY <1>1, <1>2, <1>3, StepForms

\* The count only grows, and the job names its newest attempt or none.
LEMMA CountStep ==
  ASSUME TypeInv, FenceInv, Next, NEW d \in Doc
  PROVE  job[d].count <= job'[d].count /\ job'[d].current \in {0, job'[d].count}
<1>1. CASE Keeps
  BY <1>1, Counts DEF Keeps, JobKept, FenceInv
<1>2. ASSUME NEW q \in Requester, NEW e \in Doc, Requeue(q, e)
      PROVE  job[d].count <= job'[d].count /\ job'[d].current \in {0, job'[d].count}
  BY <1>2, RequeueTyped, Counts DEF FenceInv
<1>3. ASSUME NEW w \in Worker, NEW e \in Doc, Claim(w, e)
      PROVE  job[d].count <= job'[d].count /\ job'[d].current \in {0, job'[d].count}
  BY <1>3, ClaimTyped, Counts DEF FenceInv
<1> QED
  BY <1>1, <1>2, <1>3, StepForms

\* The canonical journal moves to the newest attempt, at least as new as the old one.
LEMMA CanonicalStep ==
  ASSUME TypeInv, FenceInv, Next, NEW d \in Doc
  PROVE  canonical[d] <= canonical'[d] /\ canonical'[d] <= job'[d].count
<1>1. CASE canonical' = canonical
  <2>1. job'[d].count \in Nat
    BY StepTyped, Bound DEF TypeOK, JobRecord
  <2> QED
    BY <1>1, <2>1, CountStep, Counts DEF FenceInv
<1>2. ASSUME NEW w \in Worker, run[w].pc # "idle", Current(w), Keeps,
             canonical' = [canonical EXCEPT ![run[w].doc] = run[w].attempt]
      PROVE  canonical[d] <= canonical'[d] /\ canonical'[d] <= job'[d].count
  <2>1. /\ run[w].attempt \in Nat /\ run[w].attempt # 0
        /\ run[w].attempt <= job[run[w].doc].count
        /\ run[w].doc \in Doc
    BY <1>2, Busy, Bound DEF AttemptNo
  <2>2. job'[d].count = job[d].count
    BY <1>2 DEF Keeps, JobKept
  <2>3. CASE run[w].doc = d
    <3>1. job[d].count = run[w].attempt
      BY <1>2, <2>1, <2>3 DEF Current, FenceInv
    <3>2. canonical'[d] = run[w].attempt
      BY <1>2, <2>3 DEF TypeInv, TypeOK
    <3> QED BY <2>1, <2>2, <3>1, <3>2, Counts DEF FenceInv
  <2>4. CASE run[w].doc # d
    <3>1. canonical'[d] = canonical[d]
      BY <1>2, <2>4 DEF TypeInv, TypeOK
    <3> QED BY <2>2, <3>1, Counts DEF FenceInv
  <2> QED BY <2>3, <2>4
<1> QED
  BY <1>1, <1>2, CanonicalMoves

LEMMA FenceInit == Init => FenceInv
BY DEF Init, FenceInv, OneRunPerAttempt, NoJob, NoRun

LEMMA FenceStep == TypeInv /\ FenceInv /\ [Next]_vars => FenceInv'
<1> SUFFICES ASSUME TypeInv, FenceInv, [Next]_vars PROVE FenceInv'
  OBVIOUS
<1>1. CASE Next
  BY <1>1, CountStep, CanonicalStep, OneRunStep DEF FenceInv
<1>2. CASE UNCHANGED vars
  BY <1>2 DEF vars, FenceInv, OneRunPerAttempt
<1> QED
  BY <1>1, <1>2

LEMMA FenceInvariant == Spec => [](TypeInv /\ FenceInv)
BY TypeInit, TypeStep, FenceInit, FenceStep, PTL DEF Spec

\* However claims expire and jobs are requeued, no two slots work under one attempt:
\* the current_attempt_id that update_processing_job, persist_canonical_journal and
\* update_processing_snapshot compare tells any two runs of a job apart.
THEOREM RunsToldApart == Spec => []OneRunPerAttempt
BY FenceInvariant, PTL DEF FenceInv

\* The canonical invoice and journal of a document never go back to an older attempt,
\* whatever results without a direction do to the document record.
THEOREM JournalNeverBack == Spec => JournalInOrder
<1>1. TypeInv /\ FenceInv /\ [Next]_vars => [\A d \in Doc : canonical'[d] >= canonical[d]]_vars
  <2> SUFFICES ASSUME TypeInv, FenceInv, Next, NEW d \in Doc
               PROVE  canonical'[d] >= canonical[d]
    BY DEF vars
  <2>1. canonical'[d] \in Nat /\ canonical[d] \in Nat
    BY StepTyped, Counts, Bound DEF TypeOK
  <2> QED
    BY <2>1, CanonicalStep
<1> QED
  BY <1>1, FenceInvariant, PTL DEF Spec, JournalInOrder

-----------------------------------------------------------------------------
(* The attempts: the current one was never superseded.                     *)

LiveInv ==
  \A d \in Doc : job[d].current # 0 => attempt[d][job[d].current] # "superseded"

LEMMA ClosedAttempt ==
  ASSUME TypeInv, FenceInv, NEW w \in Worker, Close(w), Current(w)
  PROVE  \E d \in Doc :
           /\ d = run[w].doc /\ run[w].pc = "closing"
           /\ run[w].attempt \in AttemptNo /\ run[w].attempt = job[d].current
           /\ attempt' = [attempt EXCEPT ![d][run[w].attempt] = run[w].status]
           /\ run[w].status \in Outcome
<1>1. /\ run[w].pc = "closing" /\ run[w].doc \in Doc /\ run[w].attempt \in AttemptNo
      /\ run[w].status \in Outcome /\ run[w].attempt # 0
  BY Busy, Bound DEF Close, At, AttemptNo, RunRecord, Outcome
<1>2. job[run[w].doc].count = run[w].attempt /\ job[run[w].doc].current = run[w].attempt
  BY <1>1 DEF Current, FenceInv
<1> QED
  BY <1>1, <1>2 DEF Close

LEMMA AttemptMoves ==
  ASSUME TypeInv, Next
  PROVE  \/ attempt' = attempt /\ Keeps
         \/ \E q \in Requester, d \in Doc : Requeue(q, d)
         \/ \E w \in Worker, d \in Doc : Claim(w, d)
         \/ \E w \in Worker : Close(w) /\ Current(w) /\ Keeps
<1>1. ASSUME NEW w \in Worker, WorkerStep(w), attempt' # attempt
      PROVE  (\E d \in Doc : Claim(w, d)) \/ (Close(w) /\ Current(w))
  BY <1>1
     DEF WorkerStep, RunStepOf, ClaimMirror, Snapshot, SnapshotMirror, Save,
         SaveRefused, PipelineRaises, RecordOutage, OpenEpisode, CountWaiters, CloseEpisode,
         Close, CloseMirror, StoreRaises, SnapshotRaises, Abandon
<1> QED
  BY <1>1, StepForms DEF Next, Accept, ExpireClaim, ComeDue, LeaveWindow, RequeueMirror

LEMMA LiveStep ==
  ASSUME TypeInv, FenceInv, LiveInv, Next
  PROVE  LiveInv'
<1> SUFFICES ASSUME NEW d \in Doc, job'[d].current # 0
             PROVE  attempt'[d][job'[d].current] # "superseded"
  BY DEF LiveInv
<1>1. CASE attempt' = attempt /\ Keeps
  BY <1>1 DEF Keeps, JobKept, LiveInv
<1>2. ASSUME NEW q \in Requester, NEW e \in Doc, Requeue(q, e)
      PROVE  attempt'[d][job'[d].current] # "superseded"
  <2>1. d # e /\ job'[d] = job[d]
    BY <1>2, RequeueTyped
  <2>2. attempt'[d] = attempt[d]
    BY <1>2, <2>1 DEF Requeue, TypeInv, TypeOK
  <2> QED BY <2>1, <2>2 DEF LiveInv
<1>3. ASSUME NEW w \in Worker, NEW e \in Doc, Claim(w, e)
      PROVE  attempt'[d][job'[d].current] # "superseded"
  <2>1. CASE d = e
    <3>1. attempt'[d][job[d].count + 1] = "processing"
      BY <1>3, <2>1, ClaimTyped DEF Claim, ClaimWith, TypeInv, TypeOK
    <3> QED BY <1>3, <2>1, <3>1, ClaimTyped
  <2>2. CASE d # e
    <3>1. attempt'[d] = attempt[d]
      BY <1>3, <2>2 DEF Claim, ClaimWith, TypeInv, TypeOK
    <3> QED BY <1>3, <2>2, <3>1, ClaimTyped DEF LiveInv
  <2> QED BY <2>1, <2>2
<1>4. ASSUME NEW w \in Worker, Close(w), Current(w), Keeps
      PROVE  attempt'[d][job'[d].current] # "superseded"
  <2>1. PICK e \in Doc :
          /\ e = run[w].doc /\ run[w].attempt \in AttemptNo /\ run[w].attempt = job[e].current
          /\ attempt' = [attempt EXCEPT ![e][run[w].attempt] = run[w].status]
          /\ run[w].status \in Outcome
    BY <1>4, ClosedAttempt
  <2>2. job'[d].current = job[d].current
    BY <1>4 DEF Keeps, JobKept
  <2>3. CASE d = e
    <3>1. attempt'[d][job[d].current] = run[w].status
      BY <2>1, <2>3 DEF TypeInv, TypeOK
    <3> QED BY <2>1, <2>2, <3>1 DEF Outcome, Settled
  <2>4. CASE d # e
    <3>1. attempt'[d] = attempt[d]
      BY <2>1, <2>4 DEF TypeInv, TypeOK
    <3> QED BY <2>2, <3>1 DEF LiveInv
  <2> QED BY <2>3, <2>4
<1> QED
  BY <1>1, <1>2, <1>3, <1>4, AttemptMoves

LEMMA LiveInvariant == Spec => [](TypeInv /\ FenceInv /\ LiveInv)
<1>1. Init => LiveInv
  BY DEF Init, LiveInv, NoJob
<1>2. TypeInv /\ FenceInv /\ LiveInv /\ [Next]_vars => LiveInv'
  <2>1. CASE UNCHANGED vars
    BY <2>1 DEF vars, LiveInv
  <2> QED BY <2>1, LiveStep
<1> QED
  BY <1>1, <1>2, TypeInit, TypeStep, FenceInit, FenceStep, PTL DEF Spec

LEMMA CloseStep ==
  ASSUME TypeInv, FenceInv, LiveInv, Next, NEW d \in Doc, NEW n \in AttemptNo,
         attempt'[d][n] # attempt[d][n], attempt'[d][n] \in Outcome
  PROVE  /\ attempt[d][n] # "superseded"
         /\ \E w \in Worker : At(w, "closing") /\ run[w].doc = d /\ run[w].attempt = n
<1>1. ASSUME NEW q \in Requester, NEW e \in Doc, Requeue(q, e)
      PROVE  FALSE
  BY <1>1 DEF Requeue, TypeInv, TypeOK, Outcome, Settled
<1>2. ASSUME NEW w \in Worker, NEW e \in Doc, Claim(w, e)
      PROVE  FALSE
  BY <1>2 DEF Claim, ClaimWith, TypeInv, TypeOK, Outcome, Settled
<1>3. ASSUME NEW w \in Worker, Close(w), Current(w)
      PROVE  /\ attempt[d][n] # "superseded"
             /\ At(w, "closing") /\ run[w].doc = d /\ run[w].attempt = n
  <2>1. PICK e \in Doc :
          /\ e = run[w].doc /\ run[w].pc = "closing"
          /\ run[w].attempt \in AttemptNo /\ run[w].attempt = job[e].current
          /\ attempt' = [attempt EXCEPT ![e][run[w].attempt] = run[w].status]
    BY <1>3, ClosedAttempt
  <2>2. d = e /\ n = run[w].attempt
    BY <2>1 DEF TypeInv, TypeOK
  <2>3. n # 0
    BY DEF AttemptNo
  <2> QED BY <2>1, <2>2, <2>3 DEF At, LiveInv
<1> QED
  BY <1>1, <1>2, <1>3, AttemptMoves

\* update_processing_job closes the processing_attempts row it finds by attempt_count;
\* this is the row of the run that calls it, and never one that a requeue superseded.
THEOREM OnlyOwnRunCloses == Spec => OwnRunCloses
<1>1. TypeInv /\ FenceInv /\ LiveInv /\ [Next]_vars =>
        [\A d \in Doc, n \in AttemptNo :
           (attempt'[d][n] # attempt[d][n] /\ attempt'[d][n] \in Outcome)
             => /\ attempt[d][n] # "superseded"
                /\ \E w \in Worker : At(w, "closing") /\ run[w].doc = d /\ run[w].attempt = n]_vars
  BY CloseStep DEF vars
<1> QED
  BY <1>1, LiveInvariant, PTL DEF Spec, OwnRunCloses

-----------------------------------------------------------------------------
(* The result, when every result has a direction: what the current run of  *)
(* a job knows about it until it has written its outcome.                  *)

BeforeEnd == {"claimed", "working", "snapped", "recording", "opening"}

Completing(w) == run[w].pc = "closing" /\ run[w].status = "completed"

ResultInv ==
  /\ CompletedHasResult
  /\ \A d \in Doc : job[d].status = "absent" => job[d].current = 0
  /\ \A w \in Worker : run[w].pc \in BeforeEnd /\ Current(w) => job[run[w].doc].status = "processing"
  /\ \A w \in Worker :
       Completing(w) /\ Current(w) =>
         job[run[w].doc].status = "processing" /\ document[run[w].doc] = run[w].attempt

StatusKept ==
  \A d \in Doc :
    /\ job'[d].status = job[d].status
    /\ job'[d].count = job[d].count
    /\ job'[d].current = job[d].current

\* Only four actions touch a job's status or attempt.
LEMMA StatusMoves ==
  ASSUME TypeInv, Next
  PROVE  \/ StatusKept
         \/ \E d \in Doc : Accept(d)
         \/ \E q \in Requester, d \in Doc : Requeue(q, d)
         \/ \E w \in Worker, d \in Doc : Claim(w, d)
         \/ \E w \in Worker : Close(w) /\ Current(w)
<1>1. ASSUME NEW d \in Doc, ExpireClaim(d) \/ ComeDue(d)
      PROVE  StatusKept
  <2>1. job[d] \in JobRecord
    BY DEF TypeInv, TypeOK
  <2>2. CASE ExpireClaim(d)
    BY <2>1, <2>2 DEF ExpireClaim, SetJob, StatusKept, TypeInv, TypeOK, JobRecord
  <2>3. CASE ComeDue(d)
    BY <2>1, <2>3 DEF ComeDue, SetJob, StatusKept, TypeInv, TypeOK, JobRecord
  <2> QED BY <1>1, <2>2, <2>3
<1>2. CASE UNCHANGED job
  BY <1>2 DEF StatusKept
<1>3. ASSUME NEW w \in Worker, WorkerStep(w), job' # job
      PROVE  (\E d \in Doc : Claim(w, d)) \/ (Close(w) /\ Current(w))
  BY <1>3
     DEF WorkerStep, RunStepOf, ClaimMirror, Snapshot, SnapshotMirror, Save,
         SaveRefused, PipelineRaises, RecordOutage, OpenEpisode, CountWaiters, CloseEpisode,
         Close, CloseMirror, StoreRaises, SnapshotRaises, Abandon
<1> QED
  BY <1>1, <1>2, <1>3 DEF Next, LeaveWindow, RequeueMirror

\* A run that is before its end was so before the step, or has just claimed; one
\* that is about to complete was so, or has just saved its result.
LEMMA OthersStay ==
  ASSUME TypeInv, NEW v \in Worker, NEW w \in Worker, v # w, WorkerStep(v)
  PROVE  run'[w] = run[w]
<1>1. \A to : SetRun(v, to) => run'[w] = run[w]
  BY DEF SetRun, TypeInv, TypeOK
<1>2. \E to : SetRun(v, to)
  BY DEF WorkerStep, RunStepOf, Claim, ClaimWith, ClaimMirror, Snapshot, SnapshotMirror, Save,
         SaveRefused, PipelineRaises, RecordOutage, OpenEpisode, CountWaiters, CloseEpisode,
         Close, CloseMirror, StoreRaises, SnapshotRaises, Abandon, Goto, Closing, Handle
<1> QED
  BY <1>1, <1>2

LEMMA RunEnters ==
  ASSUME TypeInv, Next, NEW w \in Worker
  PROVE  /\ run'[w].pc \in BeforeEnd => run[w].pc \in BeforeEnd \/ \E d \in Doc : Claim(w, d)
         /\ Completing(w)' => run'[w] = run[w] \/ \E directed \in Directed : Save(w, directed)
<1>1. CASE run'[w] = run[w]
  BY <1>1
<1>2. CASE run'[w] # run[w]
  <2>1. WorkerStep(w)
    BY <1>2, OthersStay DEF Next, Accept, ExpireClaim, ComeDue, LeaveWindow, Requeue, RequeueMirror
  <2>2. \A pc : Goto(w, pc) => run'[w].pc = pc /\ run'[w].status = run[w].status
    BY DEF Goto, SetRun, TypeInv, TypeOK, RunRecord
  <2>3. \A status, episode : Closing(w, status, episode) => run'[w].pc = "closing" /\ run'[w].status = status
    BY DEF Closing, SetRun, TypeInv, TypeOK, RunRecord
  <2>4. \A status : Handle(w, status) => run'[w].pc = "closing" /\ run'[w].status = status
    BY DEF Handle, SetRun, TypeInv, TypeOK, RunRecord
  <2>5. SetRun(w, NoRun) => run'[w].pc = "idle"
    BY DEF SetRun, NoRun, TypeInv, TypeOK
  <2>6. SetRun(w, AfterClose(w)) => run'[w].pc \in {"idle", "recovering"}
    BY DEF SetRun, AfterClose, NoRun, TypeInv, TypeOK, RunRecord
  <2>7. \A d : RetryStatus(d) # "completed"
    BY DEF RetryStatus
  <2>8. CASE \/ ClaimMirror(w) \/ Snapshot(w) \/ SnapshotMirror(w) \/ SnapshotRaises(w)
             \/ CountWaiters(w) \/ CloseEpisode(w) \/ Abandon(w)
    BY <2>2, <2>5, <2>8
       DEF ClaimMirror, Snapshot, SnapshotMirror, SnapshotRaises, CountWaiters, CloseEpisode,
           Abandon, At, BeforeEnd, Completing
  <2>9. CASE SaveRefused(w) \/ PipelineRaises(w) \/ StoreRaises(w)
    <3>1. \E status : status # "completed" /\ Handle(w, status)
      BY <2>7, <2>9 DEF SaveRefused, PipelineRaises, StoreRaises
    <3> QED BY <2>4, <3>1 DEF BeforeEnd, Completing
  <2>10. CASE RecordOutage(w) \/ OpenEpisode(w)
    BY <2>2, <2>3, <2>4, <2>7, <2>10 DEF RecordOutage, OpenEpisode, At, BeforeEnd, Completing
  <2>11. CASE Close(w) \/ CloseMirror(w)
    BY <2>2, <2>6, <2>11 DEF Close, CloseMirror, BeforeEnd, Completing
  <2>12. ASSUME NEW directed \in Directed, Save(w, directed)
         PROVE  run'[w].pc \in BeforeEnd => run[w].pc \in BeforeEnd
    BY <2>12 DEF Save, At, BeforeEnd
  <2>13. ASSUME NEW d \in Doc, Claim(w, d)
         PROVE  ~Completing(w)'
    BY <2>13, ClaimTyped DEF Completing
  <2> QED
    BY <2>1, <2>8, <2>9, <2>10, <2>11, <2>12, <2>13 DEF WorkerStep, RunStepOf
<1> QED
  BY <1>1, <1>2

LEMMA DocumentMoves ==
  ASSUME TypeInv, Next, Directed = {TRUE}
  PROVE  \/ document' = document
         \/ \E w \in Worker :
              /\ run[w].pc = "working"
              /\ Current(w)
              /\ job' = job
              /\ document' = [document EXCEPT ![run[w].doc] = run[w].attempt]
<1>1. CASE document' # document
  <2>1. PICK w \in Worker : WorkerStep(w)
    BY <1>1 DEF Next, Accept, ExpireClaim, ComeDue, LeaveWindow, Requeue, RequeueMirror
  <2>2. (\E directed \in Directed : Save(w, directed)) \/ StoreRaises(w)
    BY <1>1, <2>1
       DEF WorkerStep, RunStepOf, Claim, ClaimWith, ClaimMirror, Snapshot, SnapshotMirror,
           SaveRefused, PipelineRaises, RecordOutage, OpenEpisode, CountWaiters, CloseEpisode,
           Close, CloseMirror, SnapshotRaises, Abandon
  <2>3. PICK directed \in Directed : At(w, "working") /\ Store(w, directed)
    BY <1>1, <2>2 DEF Save, StoreRaises
  <2> QED
    BY <2>2, <2>3 DEF Store, At, Save, StoreRaises
<1> QED
  BY <1>1

\* While a run is still current after a step that neither starts nor ends it, the job
\* has kept its status: nobody else can have ended it.
LEMMA StaysCurrent ==
  ASSUME TypeInv, FenceInv, ResultInv, Next, NEW w \in Worker,
         run[w].pc # "idle", run'[w].doc = run[w].doc, run'[w].attempt = run[w].attempt,
         Current(w)', ~ (\E d \in Doc : Claim(w, d)), ~ (Close(w) /\ Current(w))
  PROVE  Current(w) /\ job'[run[w].doc].status = job[run[w].doc].status
<1> DEFINE d == run[w].doc
<1>0. /\ d \in Doc /\ run[w].attempt \in Nat /\ run[w].attempt # 0
      /\ run[w].attempt <= job[d].count /\ job[d].count \in Nat
      /\ job'[d].current = run[w].attempt
  BY Busy, Counts, Bound DEF AttemptNo, Current
<1>1. CASE StatusKept
  BY <1>0, <1>1 DEF StatusKept, Current
<1>2. ASSUME NEW e \in Doc, Accept(e)
      PROVE  Current(w) /\ job'[d].status = job[d].status
  <2>1. job'[e].current = job[e].current /\ job[e].current = 0
    BY <1>2 DEF Accept, SetJob, ResultInv, TypeInv, TypeOK, JobRecord
  <2>2. d # e /\ job'[d] = job[d]
    BY <1>0, <1>2, <2>1 DEF Accept, SetJob, TypeInv, TypeOK
  <2> QED BY <1>0, <2>2 DEF Current
<1>3. ASSUME NEW q \in Requester, NEW e \in Doc, Requeue(q, e)
      PROVE  Current(w) /\ job'[d].status = job[d].status
  <2>1. d # e
    BY <1>0, <1>3, RequeueTyped
  <2> QED BY <1>0, <1>3, <2>1, RequeueTyped DEF Current
<1>4. ASSUME NEW v \in Worker, NEW e \in Doc, Claim(v, e)
      PROVE  Current(w) /\ job'[d].status = job[d].status
  <2>1. d # e
    BY <1>0, <1>4, ClaimTyped
  <2> QED BY <1>0, <1>4, <2>1, ClaimTyped DEF Current
<1>5. ASSUME NEW v \in Worker, Close(v), Current(v)
      PROVE  Current(w) /\ job'[d].status = job[d].status
  <2>1. run[v].pc # "idle" /\ v # w
    BY <1>5 DEF Close, At
  <2>2. run[v].doc \in Doc
    BY <2>1, Busy
  <2>3. run[v].doc # d
    <3>1. job'[d].current = job[d].current
      <4>1. Keeps
        <5>1. ~ \E e \in Doc : Claim(v, e)
          BY <2>1 DEF Claim, ClaimWith, At
        <5> QED BY <1>5, <5>1, RunSteps DEF WorkerStep, RunStepOf
      <4> QED BY <1>0, <4>1 DEF Keeps, JobKept
    <3> QED BY <1>0, <1>5, <2>1, <2>2, <3>1, QueueAssumption DEF Current, FenceInv, OneRunPerAttempt
  <2>4. job'[d] = job[d]
    BY <1>0, <1>5, <2>2, <2>3 DEF Close, SetJob, TypeInv, TypeOK
  <2> QED BY <1>0, <2>4 DEF Current
<1> QED
  BY <1>1, <1>2, <1>3, <1>4, <1>5, StatusMoves

\* A run that goes on keeps its document and attempt, whatever the step.
LEMMA RunGoesOn ==
  ASSUME TypeInv, Next, NEW w \in Worker, run'[w].pc # "idle", ~ \E d \in Doc : Claim(w, d)
  PROVE  run[w].pc # "idle" /\ run'[w].doc = run[w].doc /\ run'[w].attempt = run[w].attempt
<1>1. run'[w].doc # None
  <2>1. RunOK(w)'
    BY TypeStep DEF TypeInv
  <2> QED BY <2>1, QueueAssumption DEF RunOK, NoRun
<1>2. CASE Keeps
  BY <1>1, <1>2, RunHolds
<1>3. CASE \E q \in Requester, d \in Doc : Requeue(q, d)
  BY <1>3 DEF Requeue
<1>4. CASE \E v \in Worker, d \in Doc : Claim(v, d)
  BY <1>4, ClaimTyped
<1> QED
  BY <1>2, <1>3, <1>4, StepForms

LEMMA ClosedJob ==
  ASSUME TypeInv, NEW w \in Worker, Close(w), Current(w)
  PROVE  /\ run[w].pc = "closing" /\ run[w].doc \in Doc /\ run[w].attempt # 0
         /\ job'[run[w].doc].status = run[w].status
         /\ job'[run[w].doc].current = job[run[w].doc].current
         /\ job'[run[w].doc].count = job[run[w].doc].count
         /\ \A d \in Doc \ {run[w].doc} : job'[d] = job[d]
         /\ document' = document
<1> DEFINE d == run[w].doc
           to == [job[d] EXCEPT !.status = run[w].status, !.claim = "none", !.due = FALSE,
                    !.episode = IF run[w].status = "retry_wait" THEN run[w].episode ELSE 0]
<1>1. run[w].pc = "closing" /\ d \in Doc /\ run[w].attempt # 0 /\ job[d] \in JobRecord
  BY Busy, Bound DEF Close, At, AttemptNo
<1>2. to.status = run[w].status /\ to.current = job[d].current /\ to.count = job[d].count
  BY <1>1 DEF JobRecord
<1>3. job' = [job EXCEPT ![d] = to]
  BY DEF Close, SetJob
<1> HIDE DEF to
<1> QED
  BY <1>1, <1>2, <1>3 DEF Close, TypeInv, TypeOK

LEMMA ResultInit == Init => ResultInv
BY DEF Init, ResultInv, CompletedHasResult, NoJob, NoRun, BeforeEnd, Completing

\* A job is completed only by the run whose result the document holds, and the
\* result of a completed job is not replaced.
LEMMA CompletedStep ==
  ASSUME TypeInv, FenceInv, ResultInv, Next, Directed = {TRUE},
         NEW d \in Doc, job'[d].status = "completed"
  PROVE  document'[d] = job'[d].current /\ document'[d] # 0
<1>1. CASE StatusKept
  <2>1. job[d].status = "completed" /\ job'[d].current = job[d].current
    BY <1>1 DEF StatusKept
  <2>2. document'[d] = document[d]
    BY <2>1, DocumentMoves DEF ResultInv, BeforeEnd, TypeInv, TypeOK
  <2> QED BY <2>1, <2>2 DEF ResultInv, CompletedHasResult
<1>2. ASSUME NEW e \in Doc, Accept(e)
      PROVE  job'[d] = job[d] /\ document' = document
  BY <1>2 DEF Accept, SetJob, TypeInv, TypeOK, JobRecord
<1>3. ASSUME NEW q \in Requester, NEW e \in Doc, Requeue(q, e)
      PROVE  job'[d] = job[d] /\ document' = document
  BY <1>3 DEF Requeue, SetJob, TypeInv, TypeOK, JobRecord
<1>4. ASSUME NEW w \in Worker, NEW e \in Doc, Claim(w, e)
      PROVE  job'[d] = job[d] /\ document' = document
  BY <1>4 DEF Claim, ClaimWith, SetJob, TypeInv, TypeOK, JobRecord
<1>5. ASSUME NEW w \in Worker, Close(w), Current(w)
      PROVE  document'[d] = job'[d].current /\ document'[d] # 0
  <2>1. run[w].pc = "closing" /\ run[w].doc \in Doc /\ run[w].attempt # 0 /\ document' = document
    BY <1>5, ClosedJob
  <2>2. CASE run[w].doc # d
    <3>1. job'[d] = job[d]
      BY <1>5, <2>2, ClosedJob
    <3> QED BY <2>1, <3>1 DEF ResultInv, CompletedHasResult
  <2>3. CASE run[w].doc = d
    <3>1. job'[d].status = run[w].status /\ job'[d].current = job[d].current
      BY <1>5, <2>3, ClosedJob
    <3>2. Completing(w)
      BY <2>1, <3>1 DEF Completing
    <3>3. document[d] = run[w].attempt
      BY <1>5, <2>3, <3>2 DEF ResultInv
    <3> QED BY <1>5, <2>1, <2>3, <3>1, <3>3 DEF Current
  <2> QED BY <2>2, <2>3
<1> QED
  BY <1>1, <1>2, <1>3, <1>4, <1>5, StatusMoves DEF ResultInv, CompletedHasResult

LEMMA AbsentStep ==
  ASSUME TypeInv, ResultInv, Next, NEW d \in Doc, job'[d].status = "absent"
  PROVE  job'[d].current = 0
<1>1. CASE StatusKept
  BY <1>1 DEF StatusKept, ResultInv
<1>2. ASSUME NEW e \in Doc, Accept(e)
      PROVE  job'[d] = job[d]
  BY <1>2 DEF Accept, SetJob, TypeInv, TypeOK, JobRecord
<1>3. ASSUME NEW q \in Requester, NEW e \in Doc, Requeue(q, e)
      PROVE  job'[d] = job[d]
  BY <1>3 DEF Requeue, SetJob, TypeInv, TypeOK, JobRecord
<1>4. ASSUME NEW w \in Worker, NEW e \in Doc, Claim(w, e)
      PROVE  job'[d] = job[d]
  BY <1>4 DEF Claim, ClaimWith, SetJob, TypeInv, TypeOK, JobRecord
<1>5. ASSUME NEW w \in Worker, Close(w), Current(w)
      PROVE  job'[d] = job[d]
  <2>1. run[w].doc \in Doc /\ run[w].status # "absent"
    BY <1>5, Busy DEF Close, At, RunRecord, Settled
  <2> QED BY <1>5, <2>1, ClosedJob
<1> QED
  BY <1>1, <1>2, <1>3, <1>4, <1>5, StatusMoves DEF ResultInv

LEMMA WorkingStep ==
  ASSUME TypeInv, FenceInv, ResultInv, Next, NEW w \in Worker,
         run'[w].pc \in BeforeEnd, Current(w)'
  PROVE  job'[run'[w].doc].status = "processing"
<1>1. ASSUME NEW d \in Doc, Claim(w, d)
      PROVE  job'[run'[w].doc].status = "processing"
  BY <1>1, ClaimTyped
<1>2. CASE ~ \E d \in Doc : Claim(w, d)
  <2>1. run[w].pc \in BeforeEnd
    BY <1>2, RunEnters
  <2>2. run[w].pc # "idle" /\ run'[w].doc = run[w].doc /\ run'[w].attempt = run[w].attempt
    BY <1>2, RunGoesOn DEF BeforeEnd
  <2>3. ~Close(w)
    BY <2>1 DEF Close, At, BeforeEnd
  <2> QED
    BY <1>2, <2>1, <2>2, <2>3, StaysCurrent DEF ResultInv
<1> QED
  BY <1>1, <1>2

LEMMA CompletingStep ==
  ASSUME TypeInv, FenceInv, ResultInv, Next, Directed = {TRUE}, NEW w \in Worker,
         Completing(w)', Current(w)'
  PROVE  /\ job'[run'[w].doc].status = "processing"
         /\ document'[run'[w].doc] = run'[w].attempt
<1>0. ~ \E d \in Doc : Claim(w, d)
  BY ClaimTyped DEF Completing
<1>1. run[w].pc # "idle" /\ run'[w].doc = run[w].doc /\ run'[w].attempt = run[w].attempt
  BY <1>0, RunGoesOn DEF Completing
<1>2. ~Close(w) \/ ~Current(w)
  <2>1. Close(w) /\ Current(w) => run'[w].pc = "mirroring"
    BY DEF Close, Goto, SetRun, TypeInv, TypeOK, RunRecord
  <2> QED BY <2>1 DEF Completing
<1>3. Current(w) /\ job'[run[w].doc].status = job[run[w].doc].status
  BY <1>0, <1>1, <1>2, StaysCurrent
<1>4. run[w].doc \in Doc
  BY <1>1, Busy
<1>5. CASE run'[w] = run[w]
  <2>1. job[run[w].doc].status = "processing" /\ document[run[w].doc] = run[w].attempt
    BY <1>3, <1>5 DEF Completing, ResultInv
  <2>2. document'[run[w].doc] = run[w].attempt
    BY <1>3, <1>4, <2>1, DocumentMoves DEF Current, TypeInv, TypeOK
  <2> QED BY <1>1, <1>3, <2>1, <2>2
<1>6. ASSUME NEW directed \in Directed, Save(w, directed)
      PROVE  /\ job'[run'[w].doc].status = "processing"
             /\ document'[run'[w].doc] = run'[w].attempt
  <2>1. job[run[w].doc].status = "processing"
    BY <1>3, <1>6 DEF Save, At, BeforeEnd, ResultInv
  <2>2. document'[run[w].doc] = run[w].attempt
    BY <1>4, <1>6 DEF Save, Store, TypeInv, TypeOK
  <2> QED BY <1>1, <1>3, <2>1, <2>2
<1> QED
  BY <1>5, <1>6, RunEnters

LEMMA ResultStep ==
  ASSUME Directed = {TRUE}
  PROVE  TypeInv /\ FenceInv /\ ResultInv /\ [Next]_vars => ResultInv'
<1> SUFFICES ASSUME TypeInv, FenceInv, ResultInv, [Next]_vars PROVE ResultInv'
  OBVIOUS
<1>1. CASE Next
  BY <1>1, CompletedStep, AbsentStep, WorkingStep, CompletingStep DEF ResultInv, CompletedHasResult
<1>2. CASE UNCHANGED vars
  BY <1>2 DEF vars, ResultInv, CompletedHasResult, Completing, Current
<1> QED
  BY <1>1, <1>2

LEMMA ResultInvariant ==
  ASSUME Directed = {TRUE}
  PROVE  Spec => [](TypeInv /\ FenceInv /\ ResultInv)
BY TypeInit, TypeStep, FenceInit, FenceStep, ResultInit, ResultStep, PTL DEF Spec

\* When every result has a direction, a completed job has the result of the attempt
\* that completed it: save_simulation_result and update_processing_job are two
\* transactions, with expiries, requeues and other runs between them.
THEOREM CompletedKeepsResult ==
  ASSUME Directed = {TRUE}
  PROVE  Spec => []CompletedHasResult
BY ResultInvariant, PTL DEF ResultInv

-----------------------------------------------------------------------------
(* Refinement: the queue implements FencedTurns when every result has a    *)
(* direction.                                                              *)

Stages  == [d \in Doc |-> Stage(d)]
Turn    == [d \in Doc |-> job[d].count]
Holders == [d \in Doc |-> job[d].current]

LEMMA StageOf ==
  \A d : /\ job[d].status \in {"queued", "retry_wait"} => Stage(d) = "waiting"
         /\ job[d].status = "absent" => Stage(d) = "absent"
         /\ job[d].status = "processing" => Stage(d) = "working"
         /\ job[d].status = "completed" => Stage(d) = "done"
         /\ job[d].status \in {"failed", "manual_attention"} => Stage(d) = "attention"
BY DEF Stage

LEMMA StageStays ==
  ASSUME NEW d, job'[d].status = job[d].status
  PROVE  Stage(d)' = Stage(d)
BY DEF Stage

\* A step that changes one job moves the mapped variables of that job.
LEMMA OneJob ==
  ASSUME TypeInv, NEW d \in Doc, \A e \in Doc \ {d} : job'[e] = job[e]
  PROVE  /\ Stages' = [Stages EXCEPT ![d] = Stage(d)']
         /\ Turn' = [Turn EXCEPT ![d] = job'[d].count]
         /\ Holders' = [Holders EXCEPT ![d] = job'[d].current]
BY StageStays DEF Stages, Turn, Holders

LEMMA KeptTurns ==
  ASSUME StatusKept
  PROVE  Stages' = Stages /\ Turn' = Turn /\ Holders' = Holders
BY StageStays DEF Stages, Turn, Holders, StatusKept

LEMMA TurnsInit == Init => Turns!Init
BY DEF Init, Turns!Init, NoJob, Stage

LEMMA TurnsStep ==
  ASSUME TypeInv, FenceInv, ResultInv, Next, Directed = {TRUE}
  PROVE  Turns!Next \/ UNCHANGED Turns!vars
<1> USE DEF Stages, Turn, Holders
<1>1. CASE StatusKept
  <2>1. CASE document' = document
    BY <1>1, <2>1, KeptTurns DEF Turns!vars
  <2>2. ASSUME NEW w \in Worker, run[w].pc = "working", Current(w), job' = job,
               document' = [document EXCEPT ![run[w].doc] = run[w].attempt]
        PROVE  Turns!Next
    <3>1. run[w].doc \in Doc
      BY <2>2, Busy
    <3>2. job[run[w].doc].status = "processing"
      BY <2>2 DEF ResultInv, BeforeEnd
    <3>3. Stages[run[w].doc] = "working" /\ Holders[run[w].doc] = run[w].attempt
      BY <2>2, <3>1, <3>2, StageOf DEF Current
    <3>4. Turns!Deliver(run[w].doc)
      BY <1>1, <2>2, <3>3, KeptTurns DEF Turns!Deliver
    <3> QED BY <3>1, <3>4 DEF Turns!Next
  <2> QED BY <2>1, <2>2, DocumentMoves
<1>2. ASSUME NEW d \in Doc, Accept(d)
      PROVE  Turns!Next
  <2>1. /\ \A e \in Doc \ {d} : job'[e] = job[e]
        /\ job'[d].status = "queued" /\ job'[d].count = job[d].count
        /\ job'[d].current = job[d].current /\ document' = document
    BY <1>2 DEF Accept, SetJob, TypeInv, TypeOK, JobRecord
  <2>2. Stages[d] = "absent" /\ Stage(d)' = "waiting"
    BY <1>2, <2>1 DEF Accept, Stage
  <2>3. Turns!Submit(d)
    BY <2>1, <2>2, OneJob DEF Turns!Submit, Turns!Enter
  <2> QED BY <2>3 DEF Turns!Next
<1>3. ASSUME NEW q \in Requester, NEW d \in Doc, Requeue(q, d)
      PROVE  Turns!Next
  <2>1. job'[d].status = "queued" /\ document' = document /\ Stages[d] # "absent"
    BY <1>3 DEF Requeue, SetJob, Stage, TypeInv, TypeOK, JobRecord
  <2>2. Stage(d)' = "waiting"
    BY <2>1 DEF Stage
  <2>3. Turns!Resubmit(d)
    BY <1>3, <2>1, <2>2, OneJob, RequeueTyped DEF Turns!Resubmit, Turns!Enter
  <2> QED BY <2>3 DEF Turns!Next
<1>4. ASSUME NEW w \in Worker, NEW d \in Doc, Claim(w, d)
      PROVE  Turns!Next
  <2>1. document' = document /\ Stages[d] \in {"waiting", "working"}
    BY <1>4, StageOf DEF Claim, ClaimWith, Claimable
  <2>2. Stage(d)' = "working"
    BY <1>4, ClaimTyped DEF Stage
  <2>3. Turn[d] = job[d].count
    OBVIOUS
  <2>4. /\ Stages' = [Stages EXCEPT ![d] = "working"]
        /\ Turn' = [Turn EXCEPT ![d] = job[d].count + 1]
        /\ Holders' = [Holders EXCEPT ![d] = job[d].count + 1]
    <3>1. /\ job'[d].count = job[d].count + 1 /\ job'[d].current = job[d].count + 1
          /\ \A e \in Doc \ {d} : job'[e] = job[e]
      BY <1>4, ClaimTyped
    <3> QED BY <2>2, <3>1, OneJob
  <2>5. Turns!Take(d)
    BY <2>1, <2>3, <2>4 DEF Turns!Take, Turns!Enter
  <2> QED BY <2>5 DEF Turns!Next
<1>5. ASSUME NEW w \in Worker, Close(w), Current(w)
      PROVE  Turns!Next
  <2>0. PICK d \in Doc : d = run[w].doc
    BY <1>5, ClosedJob
  <2>1. d \in Doc /\ Holders[d] = run[w].attempt /\ Holders[d] # 0
    BY <1>5, <2>0, ClosedJob DEF Current
  <2>2. /\ Stages' = [Stages EXCEPT ![d] = Stage(d)'] /\ Turn' = Turn
        /\ Holders' = Holders /\ document' = document
    <3>1. /\ document' = document
          /\ \A e \in Doc : job'[e].count = job[e].count /\ job'[e].current = job[e].current
          /\ \A e \in Doc \ {d} : job'[e] = job[e]
      BY <1>5, <2>0, ClosedJob
    <3> QED BY <3>1, OneJob
  <2>3. job'[d].status = run[w].status
    BY <1>5, <2>0, ClosedJob
  <2>4. run[w].status \in {"completed", "failed", "manual_attention", "retry_wait"}
    BY <1>5, Busy, ClosedJob DEF RunRecord, Settled
  <2>5. job[d].status # "absent" /\ job[d].status \in JobStatus
    BY <2>1 DEF ResultInv, TypeInv, TypeOK, JobRecord
  <2>6. CASE run[w].status = "completed"
    <3>1. job[d].status = "processing" /\ document[d] = run[w].attempt
      BY <1>5, <2>0, <2>6, ClosedJob DEF ResultInv, Completing
    <3>2. Stages[d] = "working" /\ Stage(d)' = "done"
      BY <2>1, <2>3, <2>6, <3>1 DEF Stage
    <3>3. Turns!End(d)
      BY <2>1, <2>2, <3>1, <3>2 DEF Turns!End, Turns!Enter
    <3> QED BY <2>1, <3>3 DEF Turns!Next
  <2>7. CASE run[w].status # "completed"
    <3>1. Stage(d)' \in {"waiting", "attention"}
      BY <2>4, <2>3, <2>7 DEF Stage
    <3>2. CASE Stages[d] = "working"
      <4>1. Turns!End(d)
        BY <2>2, <3>1, <3>2 DEF Turns!End, Turns!Enter
      <4> QED BY <2>1, <4>1 DEF Turns!Next
    <3>3. CASE Stages[d] # "working"
      <4>1. Stages[d] \in {"waiting", "attention", "done"}
        BY <2>1, <2>5, <3>3, StageOf DEF JobStatus, Settled
      <4>2. Turns!Reopen(d)
        BY <2>1, <2>2, <3>1, <4>1 DEF Turns!Reopen, Turns!Enter
      <4> QED BY <2>1, <4>2 DEF Turns!Next
    <3> QED BY <3>2, <3>3
  <2> QED BY <2>6, <2>7
<1> QED
  BY <1>1, <1>2, <1>3, <1>4, <1>5, StatusMoves

\* The queue implements FencedTurns: only the newest turn delivers and ends, and an
\* item is done only with the output of its last turn.
THEOREM QueueImplementsTurns ==
  ASSUME Directed = {TRUE}
  PROVE  Spec => ImplementsTurns
<1>1. TypeInv /\ FenceInv /\ ResultInv /\ [Next]_vars => [Turns!Next]_Turns!vars
  <2>1. CASE UNCHANGED vars
    BY <2>1 DEF vars, Turns!vars, Stage
  <2> QED BY <2>1, TurnsStep
<1> QED
  BY <1>1, TurnsInit, ResultInvariant, PTL DEF Spec, ImplementsTurns, Turns!Spec

-----------------------------------------------------------------------------
(* What the API shows: a run that is about to show "completed" comes after *)
(* a save, and no document ever loses its result again.                    *)

ShownEnd(w) == run[w].pc \in {"closing", "mirroring"} /\ run[w].status = "completed"

ShownInv ==
  /\ ShownDoneHasResult
  /\ \A w \in Worker : ShownEnd(w) => document[run[w].doc] # 0

\* Where the helpers of the steps leave a run.
LEMMA RunLeft ==
  ASSUME TypeInv, NEW w \in Worker
  PROVE  /\ \A pc : Goto(w, pc) =>
              /\ run'[w].pc = pc
              /\ run'[w].doc = run[w].doc /\ run'[w].status = run[w].status
              /\ run'[w].had = run[w].had /\ run'[w].episode = run[w].episode
         /\ \A status, episode : Closing(w, status, episode) =>
              /\ run'[w].pc = "closing" /\ run'[w].status = status
              /\ run'[w].episode = episode
              /\ run'[w].doc = run[w].doc
         /\ \A status : Handle(w, status) =>
              /\ run'[w].pc = "closing" /\ run'[w].status = status
              /\ run'[w].episode = 0
              /\ run'[w].doc = run[w].doc
         /\ SetRun(w, NoRun) => run'[w].pc = "idle"
         /\ SetRun(w, AfterClose(w)) =>
              \/ run'[w].pc = "idle"
              \/ run'[w].pc = "recovering" /\ run[w].had # 0 /\ run'[w].had = run[w].had
<1>1. /\ run[w] \in RunRecord
      /\ \A to : SetRun(w, to) => run'[w] = to
  BY DEF SetRun, TypeInv, TypeOK
<1>2. NoRun.pc = "idle"
  BY DEF NoRun
<1> QED
  BY <1>1, <1>2 DEF Goto, Closing, Handle, AfterClose, RunRecord

\* A retry is never a completion or a failure.
LEMMA RetryStatusWaits == \A d : RetryStatus(d) \notin {"completed", "failed"}
  BY DEF RetryStatus

\* The document record changes when a run saves, and then names its attempt.
LEMMA DocumentSaved ==
  ASSUME TypeInv, Next
  PROVE  \/ document' = document
         \/ \E w \in Worker :
              /\ run[w].doc \in Doc /\ run[w].attempt # 0
              /\ document' = [document EXCEPT ![run[w].doc] = run[w].attempt]
<1>1. CASE document' # document
  <2>1. PICK w \in Worker : WorkerStep(w)
    BY <1>1 DEF Next, Accept, ExpireClaim, ComeDue, LeaveWindow, Requeue, RequeueMirror
  <2>2. (\E directed \in Directed : Save(w, directed)) \/ StoreRaises(w)
    BY <1>1, <2>1
       DEF WorkerStep, RunStepOf, Claim, ClaimWith, ClaimMirror, Snapshot, SnapshotMirror,
           SaveRefused, PipelineRaises, RecordOutage, OpenEpisode, CountWaiters, CloseEpisode,
           Close, CloseMirror, SnapshotRaises, Abandon
  <2>3. PICK directed \in Directed : At(w, "working") /\ Store(w, directed)
    BY <1>1, <2>2 DEF Save, StoreRaises
  <2>4. run[w].doc \in Doc /\ run[w].attempt # 0
    BY <2>3, Busy, Bound DEF At, AttemptNo
  <2> QED
    BY <2>3, <2>4 DEF Store
<1> QED
  BY <1>1

LEMMA ResultStays ==
  ASSUME TypeInv, Next, NEW d \in Doc, document[d] # 0
  PROVE  document'[d] # 0
  BY DocumentSaved DEF TypeInv, TypeOK

\* A run comes to its completion from a save.
LEMMA ShownEndStep ==
  ASSUME TypeInv, ShownInv, Next, NEW w \in Worker, ShownEnd(w)'
  PROVE  document'[run'[w].doc] # 0
<1>1. CASE run'[w] = run[w]
  <2>1. run[w].doc \in Doc
    BY <1>1, Busy DEF ShownEnd
  <2> QED
    BY <1>1, <2>1, ResultStays DEF ShownInv, ShownEnd
<1>2. CASE run'[w] # run[w]
  <2> USE RunLeft
  <2>1. WorkerStep(w)
    BY <1>2, OthersStay DEF Next, Accept, ExpireClaim, ComeDue, LeaveWindow, Requeue, RequeueMirror
  <2>2. CASE \/ ClaimMirror(w) \/ Snapshot(w) \/ SnapshotMirror(w) \/ SnapshotRaises(w)
             \/ CountWaiters(w) \/ CloseEpisode(w) \/ Abandon(w) \/ CloseMirror(w)
    BY <2>2
       DEF ClaimMirror, Snapshot, SnapshotMirror, SnapshotRaises, CountWaiters, CloseEpisode,
           Abandon, CloseMirror, ShownEnd
  <2>3. CASE SaveRefused(w) \/ PipelineRaises(w) \/ StoreRaises(w)
    <3>1. \E status : status # "completed" /\ Handle(w, status)
      BY <2>3, RetryStatusWaits DEF SaveRefused, PipelineRaises, StoreRaises
    <3> QED BY <3>1 DEF ShownEnd
  <2>4. CASE RecordOutage(w) \/ OpenEpisode(w)
    BY <2>4, RetryStatusWaits DEF RecordOutage, OpenEpisode, ShownEnd
  <2>5. CASE Close(w)
    <3>1. At(w, "closing") /\ Goto(w, "mirroring")
      BY <2>5 DEF Close, ShownEnd
    <3>2. run[w].doc \in Doc /\ ShownEnd(w)
      BY <3>1, Busy DEF At, ShownEnd
    <3> QED BY <3>1, <3>2, ResultStays DEF ShownInv
  <2>6. ASSUME NEW directed \in Directed, Save(w, directed)
        PROVE  document'[run'[w].doc] # 0
    <3>1. run'[w].doc = run[w].doc
      BY <2>6 DEF Save
    <3>2. run[w].doc \in Doc /\ run[w].attempt # 0
      BY <2>6, Busy, Bound DEF Save, At, AttemptNo
    <3> QED BY <2>6, <3>1, <3>2 DEF Save, Store, TypeInv, TypeOK
  <2>7. ASSUME NEW d \in Doc, Claim(w, d)
        PROVE  FALSE
    BY <2>7, ClaimTyped DEF ShownEnd
  <2> QED
    BY <2>1, <2>2, <2>3, <2>4, <2>5, <2>6, <2>7 DEF WorkerStep, RunStepOf
<1> QED
  BY <1>1, <1>2

\* The shown status becomes "completed" by the run that ends so.
LEMMA ShownMoves ==
  ASSUME TypeInv, Next, NEW d \in Doc, mirror'[d] = "completed"
  PROVE  \/ mirror[d] = "completed"
         \/ \E w \in Worker : ShownEnd(w) /\ run[w].doc = d /\ document' = document
<1>1. \A e, to : SetMirror(e, to) => mirror'[d] = IF e = d THEN to ELSE mirror[d]
  BY DEF SetMirror, TypeInv, TypeOK
<1>2. CASE UNCHANGED mirror
  BY <1>2
<1>3. ASSUME NEW w \in Worker, CloseMirror(w)
      PROVE  \/ mirror[d] = "completed"
             \/ ShownEnd(w) /\ run[w].doc = d /\ document' = document
  BY <1>1, <1>3 DEF CloseMirror, At, ShownEnd
<1>4. ASSUME NEW e \in Doc, Accept(e)
      PROVE  mirror[d] = "completed"
  BY <1>1, <1>4 DEF Accept
<1>5. ASSUME NEW q \in Requester, RequeueMirror(q)
      PROVE  mirror[d] = "completed"
  BY <1>1, <1>5 DEF RequeueMirror
<1>6. ASSUME NEW w \in Worker, WorkerStep(w), ~CloseMirror(w), ~UNCHANGED mirror
      PROVE  mirror[d] = "completed"
  <2>1. ClaimMirror(w) \/ SnapshotMirror(w)
    BY <1>6
       DEF WorkerStep, RunStepOf, Claim, ClaimWith, Snapshot, Save,
           SaveRefused, PipelineRaises, RecordOutage, OpenEpisode, CountWaiters, CloseEpisode,
           Close, StoreRaises, SnapshotRaises, Abandon
  <2> QED BY <1>1, <2>1 DEF ClaimMirror, SnapshotMirror
<1> QED
  BY <1>2, <1>3, <1>4, <1>5, <1>6 DEF Next, ExpireClaim, ComeDue, LeaveWindow, Requeue

LEMMA ShownStep == TypeInv /\ ShownInv /\ [Next]_vars => ShownInv'
<1> SUFFICES ASSUME TypeInv, ShownInv, [Next]_vars PROVE ShownInv'
  OBVIOUS
<1>1. CASE Next
  <2>1. ASSUME NEW d \in Doc, mirror'[d] = "completed"
        PROVE  document'[d] # 0
    BY <1>1, <2>1, ShownMoves, ResultStays DEF ShownInv, ShownDoneHasResult
  <2> QED
    BY <1>1, <2>1, ShownEndStep DEF ShownInv, ShownDoneHasResult
<1>2. CASE UNCHANGED vars
  BY <1>2 DEF vars, ShownInv, ShownDoneHasResult, ShownEnd
<1> QED
  BY <1>1, <1>2

LEMMA ShownInit == Init => ShownInv
  BY DEF Init, ShownInv, ShownDoneHasResult, ShownEnd, NoRun

\* What is shown as completed has a result, whichever runs wrote the result, the job and
\* the shown record, in transactions of their own.
THEOREM ShownHasResult == Spec => []ShownDoneHasResult
<1>1. Spec => [](TypeInv /\ ShownInv)
  BY TypeInit, TypeStep, ShownInit, ShownStep, PTL DEF Spec
<1> QED
  BY <1>1, PTL DEF ShownInv

=============================================================================
