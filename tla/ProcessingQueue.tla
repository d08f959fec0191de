--------------------------- MODULE ProcessingQueue ---------------------------
(***************************************************************************)
(* The document processing queue of one tenant: acceptance, claim with a   *)
(* 15 minute expiry and an attempt id that fences the worker, the save of  *)
(* the result, retries, AI outage episodes, and the reprocess call that    *)
(* takes a job away from its worker                                        *)
(* (backend/app/workflows/document_processing.py over the normalized       *)
(* PostgreSQL repository and the workflow store).                          *)
(*                                                                         *)
(* A Worker is a worker slot, which runs one job after another; each step  *)
(* is one transaction of the store, or one raise.  A job is named by its   *)
(* document and an attempt by its attempt_no, which the claim draws from   *)
(* the job's attempt_count together with a fresh uuid.                     *)
(***************************************************************************)
EXTENDS Naturals, FiniteSets

CONSTANTS
  Doc, Worker,
  Requester,     \* reprocess calls, one each
  None,          \* no document
  Directed,      \* may a result have (TRUE), lack (FALSE) a purchase/sales direction
  Faults,        \* what may go wrong: see FaultKind
  MaxAttempts    \* bound: claims of one job

FaultKind ==
  {"permanent",    \* the pipeline raises an error that is not retried
   "transient",    \* the pipeline raises one that is
   "store",        \* a store call raises, its transaction committed or not
   "crash",        \* the worker process dies
   "slow"}         \* a run outlives its claim

ASSUME QueueAssumption ==
  /\ None \notin Doc
  /\ Directed \in (SUBSET BOOLEAN) \ {{}}
  /\ Faults \subseteq FaultKind
  /\ MaxAttempts \in Nat

VARIABLES
  job,          \* processing_jobs
  attempt,      \* processing_attempts.status, by job and attempt_no
  mirror,       \* the processing_job workflow record, which the API shows: its status
  canonical,    \* the attempt whose canonical invoice and journal are stored
  document,     \* the attempt whose result the document record holds
  run,          \* the local state of every worker slot
  reprocess,    \* the local state of every reprocess call
  opened,       \* ai_outage_episodes inserted so far: the ids 1 .. opened
  open,         \* the open episode (uq_ai_outage_episode_open_task), or 0
  late          \* jobs whose next retry would fall past the 24 hour window

vars == <<job, attempt, mirror, canonical, document, run, reprocess, opened, open, late>>

Settled   == {"completed", "failed", "manual_attention"}
JobStatus == {"absent", "queued", "processing", "retry_wait"} \cup Settled

AttemptNo == 1 .. MaxAttempts

JobRecord ==
  [status  : JobStatus,
   count   : 0 .. MaxAttempts,               \* attempt_count
   current : 0 .. MaxAttempts,               \* current_attempt_id, 0 when null
   claim   : {"none", "live", "expired"},    \* claim_expires_at
   due     : BOOLEAN,                        \* next_attempt_at has passed
   episode : Nat]                            \* outage_episode_id, 0 when null

AttemptStatus == {"none", "processing", "superseded", "retry_wait"} \cup Settled

NoJob ==
  [status |-> "absent", count |-> 0, current |-> 0, claim |-> "none",
   due |-> FALSE, episode |-> 0]

RunStep ==
  {"idle", "claimed", "working", "snapped", "recording", "opening", "closing",
   "mirroring", "recovering", "recounted"}

RunRecord ==
  [pc       : RunStep,
   doc      : Doc \cup {None},
   attempt  : 0 .. MaxAttempts,              \* normalized_attempt_id
   had      : Nat,                           \* outage_episode_id when it was claimed
   status   : Settled \cup {"retry_wait"},   \* what update_processing_job is to write
   episode  : Nat,                           \* the episode it is to write
   handling : BOOLEAN]                       \* in the except block

NoRun ==
  [pc |-> "idle", doc |-> None, attempt |-> 0, had |-> 0,
   status |-> "failed", episode |-> 0, handling |-> FALSE]

TypeOK ==
  /\ job \in [Doc -> JobRecord]
  /\ attempt \in [Doc -> [AttemptNo -> AttemptStatus]]
  /\ mirror \in [Doc -> JobStatus]
  /\ canonical \in [Doc -> 0 .. MaxAttempts]
  /\ document \in [Doc -> 0 .. MaxAttempts]
  /\ run \in [Worker -> RunRecord]
  /\ reprocess \in [Requester -> {"idle", "done"} \cup Doc]
  /\ opened \in Nat
  /\ open \in 0 .. opened
  /\ late \in SUBSET Doc

Init ==
  /\ job = [d \in Doc |-> NoJob]
  /\ attempt = [d \in Doc |-> [n \in AttemptNo |-> "none"]]
  /\ mirror = [d \in Doc |-> "absent"]
  /\ canonical = [d \in Doc |-> 0]
  /\ document = [d \in Doc |-> 0]
  /\ run = [w \in Worker |-> NoRun]
  /\ reprocess = [q \in Requester |-> "idle"]
  /\ opened = 0
  /\ open = 0
  /\ late = {}

At(w, pc) == run[w].pc = pc

SetJob(d, to)    == job' = [job EXCEPT ![d] = to]
SetRun(w, to)    == run' = [run EXCEPT ![w] = to]
SetMirror(d, to) == mirror' = [mirror EXCEPT ![d] = to]

Goto(w, pc) == SetRun(w, [run[w] EXCEPT !.pc = pc])

\* The run's attempt is the one on the job: what every fenced statement asks
Current(w) == job[run[w].doc].current = run[w].attempt

-----------------------------------------------------------------------------
(* Acceptance, reprocess, claim.                                           *)

\* accept_document_source: document, queued job and workflow record in one transaction
Accept(d) ==
  /\ job[d].status = "absent"
  /\ SetJob(d, [job[d] EXCEPT !.status = "queued"])
  /\ SetMirror(d, "queued")
  /\ UNCHANGED <<attempt, canonical, document, run, reprocess, opened, open, late>>

RequeueUnfenced(q, d) ==                              \* mutant: current_attempt_id kept
  /\ reprocess[q] = "idle"
  /\ job[d].status # "absent"
  /\ SetJob(d, [job[d] EXCEPT !.status = "queued", !.claim = "none"])
  /\ reprocess' = [reprocess EXCEPT ![q] = d]
  /\ attempt' = [attempt EXCEPT ![d] =
       [n \in AttemptNo |-> IF @[n] = "processing" THEN "superseded" ELSE @[n]]]
  /\ UNCHANGED <<mirror, canonical, document, run, opened, open, late>>

\* create_processing_job(force_requeue=True): whatever the job's state; its
\* retry fields and its outage episode stay
Requeue(q, d) ==
  /\ reprocess[q] = "idle"
  /\ job[d].status # "absent"
  /\ SetJob(d, [job[d] EXCEPT !.status = "queued", !.claim = "none", !.current = 0])
  /\ reprocess' = [reprocess EXCEPT ![q] = d]
  /\ attempt' = [attempt EXCEPT ![d] =
       [n \in AttemptNo |-> IF @[n] = "processing" THEN "superseded" ELSE @[n]]]
  /\ UNCHANGED <<mirror, canonical, document, run, opened, open, late>>

RequeueMirror(q) ==
  /\ reprocess[q] \in Doc
  /\ SetMirror(reprocess[q], "queued")
  /\ reprocess' = [reprocess EXCEPT ![q] = "done"]
  /\ UNCHANGED <<job, attempt, canonical, document, run, opened, open, late>>

ClaimableQueued(d) ==                                 \* mutant: expired claims not taken over
  job[d].status = "queued" \/ (job[d].status = "retry_wait" /\ job[d].due)

Claimable(d) ==
  \/ job[d].status = "queued"
  \/ job[d].status = "retry_wait" /\ job[d].due
  \/ job[d].status = "processing" /\ job[d].claim = "expired"

ClaimWith(w, d, n) ==
  /\ At(w, "idle")
  /\ Claimable(d)
  /\ n \in AttemptNo
  /\ SetJob(d, [job[d] EXCEPT !.status = "processing", !.count = n, !.current = n,
                              !.claim = "live"])
  /\ attempt' = [attempt EXCEPT ![d][n] = "processing"]
  /\ SetRun(w, [NoRun EXCEPT !.pc = "claimed", !.doc = d, !.attempt = n,
                             !.had = job[d].episode])
  /\ UNCHANGED <<mirror, canonical, document, reprocess, opened, open, late>>

ClaimSameAttempt(w, d) ==                             \* mutant: attempt_count not raised on reclaim
  ClaimWith(w, d, IF job[d].current = 0 THEN job[d].count + 1 ELSE job[d].current)

\* claim_next_processing_job: any claimable job, as older ones may be locked
\* (SKIP LOCKED)
Claim(w, d) == ClaimWith(w, d, job[d].count + 1)

ClaimMirror(w) ==
  /\ At(w, "claimed")
  /\ SetMirror(run[w].doc, "processing")
  /\ Goto(w, "working")
  /\ UNCHANGED <<job, attempt, canonical, document, reprocess, opened, open, late>>

\* update_processing_snapshot: fenced; then the workflow record is read and
\* written back with the status the job had
Snapshot(w) ==
  /\ At(w, "working")
  /\ Current(w)
  /\ Goto(w, "snapped")
  /\ UNCHANGED <<job, attempt, mirror, canonical, document, reprocess, opened, open, late>>

SnapshotMirror(w) ==
  /\ At(w, "snapped")
  /\ SetMirror(run[w].doc, "processing")
  /\ Goto(w, "working")
  /\ UNCHANGED <<job, attempt, canonical, document, reprocess, opened, open, late>>

-----------------------------------------------------------------------------
(* The result.                                                             *)

\* next_ai_retry: the 24 hour window is counted from the job's creation
RetryStatus(d) == IF d \in late THEN "manual_attention" ELSE "retry_wait"

Closing(w, status, episode) ==
  SetRun(w, [run[w] EXCEPT !.pc = "closing", !.status = status, !.episode = episode])

\* The except block: update_processing_job without an episode
Handle(w, status) ==
  SetRun(w, [run[w] EXCEPT !.pc = "closing", !.status = status, !.episode = 0,
                           !.handling = TRUE])

StoreUnfenced(w, directed) ==                         \* mutant: current_attempt_id not compared
  /\ document' = [document EXCEPT ![run[w].doc] = run[w].attempt]
  /\ IF directed THEN canonical' = [canonical EXCEPT ![run[w].doc] = run[w].attempt]
                 ELSE UNCHANGED canonical

\* save_simulation_result: the fence stands in persist_canonical_journal, which
\* only a result with a direction goes through
Store(w, directed) ==
  /\ directed => Current(w)
  /\ document' = [document EXCEPT ![run[w].doc] = run[w].attempt]
  /\ IF directed THEN canonical' = [canonical EXCEPT ![run[w].doc] = run[w].attempt]
                 ELSE UNCHANGED canonical

SaveNothing(w, directed) ==                           \* mutant: completed without a result
  /\ At(w, "working")
  /\ Closing(w, "completed", 0) \/ Goto(w, "recording")
  /\ UNCHANGED <<job, attempt, mirror, canonical, document, reprocess, opened, open, late>>

\* The result is saved, and the job to be closed, or the AI chain was down
Save(w, directed) ==
  /\ At(w, "working")
  /\ Store(w, directed)
  /\ Closing(w, "completed", 0) \/ Goto(w, "recording")
  /\ UNCHANGED <<job, attempt, mirror, reprocess, opened, open, late>>

\* "stale processing attempt cannot persist accounting state"
SaveRefused(w) ==
  /\ At(w, "working")
  /\ TRUE \in Directed /\ ~Current(w)
  /\ Handle(w, "failed")
  /\ UNCHANGED <<job, attempt, mirror, canonical, document, reprocess, opened, open, late>>

\* The pipeline raises before there is a result to save
PipelineRaises(w) ==
  /\ At(w, "working")
  /\ \/ "permanent" \in Faults /\ Handle(w, "failed")
     \/ "transient" \in Faults /\ Handle(w, RetryStatus(run[w].doc))
  /\ UNCHANGED <<job, attempt, mirror, canonical, document, reprocess, opened, open, late>>

-----------------------------------------------------------------------------
(* AI outage episodes.                                                     *)

\* record_ai_outage_failure: join the open episode under its row lock, or find none
RecordOutage(w) ==
  /\ At(w, "recording")
  /\ IF open # 0 THEN Closing(w, RetryStatus(run[w].doc), open)
                 ELSE Goto(w, "opening")
  /\ UNCHANGED <<job, attempt, mirror, canonical, document, reprocess, opened, open, late>>

\* Its insert, on which the unique index raises when another one came first
OpenEpisode(w) ==
  /\ At(w, "opening")
  /\ IF open = 0
     THEN /\ opened' = opened + 1
          /\ open' = opened + 1
          /\ Closing(w, RetryStatus(run[w].doc), opened + 1)
     ELSE Handle(w, "failed") /\ UNCHANGED <<opened, open>>
  /\ UNCHANGED <<job, attempt, mirror, canonical, document, reprocess, late>>

\* recover_ai_outage_episode: count the waiting jobs of the episode ...
CountWaiters(w) ==
  /\ At(w, "recovering")
  /\ IF \E d \in Doc : job[d].status = "retry_wait" /\ job[d].episode = run[w].had
     THEN SetRun(w, NoRun)
     ELSE Goto(w, "recounted")
  /\ UNCHANGED <<job, attempt, mirror, canonical, document, reprocess, opened, open, late>>

\* ... and close it when there was none
CloseEpisode(w) ==
  /\ At(w, "recounted")
  /\ open' = IF open = run[w].had THEN 0 ELSE open
  /\ SetRun(w, NoRun)
  /\ UNCHANGED <<job, attempt, mirror, canonical, document, reprocess, opened, late>>

-----------------------------------------------------------------------------
(* The end of a run.                                                       *)

\* Only the regular completion goes on to the recovery of the claimed episode
AfterClose(w) ==
  IF run[w].status = "completed" /\ run[w].had # 0
  THEN [run[w] EXCEPT !.pc = "recovering"]
  ELSE NoRun

CloseAnyAttempt(w) ==                                 \* mutant: update not fenced
  LET d == run[w].doc
      waits == run[w].status = "retry_wait"
  IN /\ At(w, "closing")
     /\ SetJob(d, [job[d] EXCEPT !.status = run[w].status, !.claim = "none", !.due = FALSE,
                     !.episode = IF waits THEN run[w].episode ELSE 0])
     /\ attempt' = [attempt EXCEPT ![d][job[d].count] = run[w].status]
     /\ Goto(w, "mirroring")
     /\ UNCHANGED <<mirror, canonical, document, reprocess, opened, open, late>>

\* update_processing_job: fenced; the attempt it closes is the one numbered
\* attempt_count
Close(w) ==
  LET d == run[w].doc
      waits == run[w].status = "retry_wait"
  IN /\ At(w, "closing")
     /\ \/ /\ Current(w)
           /\ SetJob(d, [job[d] EXCEPT !.status = run[w].status, !.claim = "none",
                           !.due = FALSE, !.episode = IF waits THEN run[w].episode ELSE 0])
           /\ attempt' = [attempt EXCEPT ![d][job[d].count] = run[w].status]
           /\ Goto(w, "mirroring")
        \/ ~Current(w) /\ SetRun(w, AfterClose(w)) /\ UNCHANGED <<job, attempt>>
     /\ UNCHANGED <<mirror, canonical, document, reprocess, opened, open, late>>

CloseMirrorAsDone(w) ==                               \* mutant: every end shown as completed
  /\ At(w, "mirroring")
  /\ SetMirror(run[w].doc, "completed")
  /\ SetRun(w, AfterClose(w))
  /\ UNCHANGED <<job, attempt, canonical, document, reprocess, opened, open, late>>

CloseMirror(w) ==
  /\ At(w, "mirroring")
  /\ SetMirror(run[w].doc, run[w].status)
  /\ SetRun(w, AfterClose(w))
  /\ UNCHANGED <<job, attempt, canonical, document, reprocess, opened, open, late>>

-----------------------------------------------------------------------------
(* Failures and time.                                                      *)

\* A store call of the try block raises: the job is to be retried, or to fail when
\* the error is not transient, even if its completion was already committed
StoreRaises(w) ==
  /\ "store" \in Faults
  /\ ~run[w].handling
  /\ run[w].pc \in {"working", "snapped", "recording", "opening", "closing",
                    "mirroring", "recovering", "recounted"}
  /\ \/ Handle(w, RetryStatus(run[w].doc))
     \/ "permanent" \in Faults /\ Handle(w, "failed")
  /\ \/ UNCHANGED <<canonical, document>>
     \/ At(w, "working") /\ \E directed \in Directed : Store(w, directed)
  /\ UNCHANGED <<job, attempt, mirror, reprocess, opened, open, late>>

\* A raising snapshot of the three stage pipeline is swallowed
SnapshotRaises(w) ==
  /\ "store" \in Faults
  /\ At(w, "snapped")
  /\ Goto(w, "working")
  /\ UNCHANGED <<job, attempt, mirror, canonical, document, reprocess, opened, open, late>>

\* The process dies, or an error escapes process_next_job_once: the claim is left
Abandon(w) ==
  /\ \/ "crash" \in Faults /\ ~At(w, "idle")
     \/ "store" \in Faults /\ (run[w].handling \/ At(w, "claimed"))
  /\ SetRun(w, NoRun)
  /\ UNCHANGED <<job, attempt, mirror, canonical, document, reprocess, opened, open, late>>

Held(d) == \E w \in Worker : run[w].doc = d /\ run[w].attempt = job[d].current

\* 15 minutes pass since the claim
ExpireClaim(d) ==
  /\ job[d].status = "processing"
  /\ job[d].claim = "live"
  /\ "slow" \in Faults \/ ~Held(d)
  /\ SetJob(d, [job[d] EXCEPT !.claim = "expired"])
  /\ UNCHANGED <<attempt, mirror, canonical, document, run, reprocess, opened, open, late>>

\* next_attempt_at passes
ComeDue(d) ==
  /\ job[d].status = "retry_wait"
  /\ ~job[d].due
  /\ SetJob(d, [job[d] EXCEPT !.due = TRUE])
  /\ UNCHANGED <<attempt, mirror, canonical, document, run, reprocess, opened, open, late>>

\* The next delay no longer fits into the 24 hours since the job was created
LeaveWindow(d) ==
  /\ job[d].status # "absent"
  /\ d \notin late
  /\ late' = late \cup {d}
  /\ UNCHANGED <<job, attempt, mirror, canonical, document, run, reprocess, opened, open>>

-----------------------------------------------------------------------------
RunStepOf(w) ==
  \/ ClaimMirror(w) \/ \E directed \in Directed : Save(w, directed)
  \/ SaveRefused(w) \/ RecordOutage(w) \/ OpenEpisode(w) \/ Close(w)
  \/ CloseMirror(w) \/ CountWaiters(w) \/ CloseEpisode(w) \/ SnapshotMirror(w)

WorkerStep(w) ==
  \/ \E d \in Doc : Claim(w, d)
  \/ RunStepOf(w)
  \/ Snapshot(w) \/ PipelineRaises(w) \/ StoreRaises(w) \/ SnapshotRaises(w) \/ Abandon(w)

Next ==
  \/ \E d \in Doc : Accept(d) \/ ExpireClaim(d) \/ ComeDue(d) \/ LeaveWindow(d)
  \/ \E q \in Requester, d \in Doc : Requeue(q, d)
  \/ \E q \in Requester : RequeueMirror(q)
  \/ \E w \in Worker : WorkerStep(w)

Spec == Init /\ [][Next]_vars

-----------------------------------------------------------------------------
(* Safety.                                                                 *)

\* At most one run works under a given attempt, however claims expire and
\* jobs are requeued: the fence tells any two runs of a job apart.
OneRunPerAttempt ==
  \A v, w \in Worker :
    run[v].doc = run[w].doc /\ run[v].attempt = run[w].attempt /\ run[v].doc # None
      => v = w

\* A completed job has the result of the very attempt that completed it, although
\* result and completion are separate transactions and other runs of the
\* document may end in between.
CompletedHasResult ==
  \A d \in Doc :
    job[d].status = "completed" => document[d] = job[d].current /\ document[d] # 0

\* A document shown as completed has a result, although what is shown is written in a
\* transaction of its own, by runs that may have lost the job, and is not read again.
ShownDoneHasResult == \A d \in Doc : mirror[d] = "completed" => document[d] # 0

\* A job fails only when its pipeline raised an error that is not retried.  An
\* unreachable AI chain is retried: the document joins the open episode, or opens one
\* (record_ai_outage_failure).
OnlyErrorsFail ==
  "permanent" \notin Faults => \A d \in Doc : job[d].status # "failed"

-----------------------------------------------------------------------------
(* Action properties.                                                      *)

\* Canonical invoice and journal never go back to an older attempt's.
JournalInOrder == [][\A d \in Doc : canonical'[d] >= canonical[d]]_vars

\* Nor does the result the document record holds.
DocumentInOrder == [][\A d \in Doc : document'[d] >= document[d]]_vars

\* An attempt is closed by its own run, and never after it was superseded,
\* although the closing update finds it by the job's attempt_count.
Outcome == Settled \cup {"retry_wait"}

OwnRunCloses ==
  [][\A d \in Doc, n \in AttemptNo :
       (attempt'[d][n] # attempt[d][n] /\ attempt'[d][n] \in Outcome)
         => /\ attempt[d][n] # "superseded"
            /\ \E w \in Worker : At(w, "closing") /\ run[w].doc = d /\ run[w].attempt = n]_vars

-----------------------------------------------------------------------------
(* Liveness.  Worker slots poll the queue, time passes; nobody is obliged  *)
(* to ask for a reprocess.  A run takes finitely many snapshots, hence the *)
(* strong fairness of its save.                                            *)

Fairness ==
  /\ \A w \in Worker :
       /\ WF_vars(RunStepOf(w))
       /\ SF_vars(SaveRefused(w) \/ \E directed \in Directed : Save(w, directed))
  /\ \A d \in Doc :
       /\ WF_vars(\E w \in Worker : Claim(w, d))
       /\ WF_vars(ExpireClaim(d))
       /\ WF_vars(ComeDue(d))

FairSpec == Spec /\ Fairness

\* Every accepted job settles, unless it has used up the claims of the bound:
\* a dead worker, a raising store or a wait never strands it.
JobSettles ==
  \A d \in Doc :
    job[d].status # "absent" ~> job[d].status \in Settled \/ job[d].count = MaxAttempts

-----------------------------------------------------------------------------
(* What the queue promises: FencedTurns, for directed results.             *)

Stage(d) ==
  CASE job[d].status = "absent"                     -> "absent"
    [] job[d].status \in {"queued", "retry_wait"}   -> "waiting"
    [] job[d].status = "processing"                 -> "working"
    [] job[d].status = "completed"                  -> "done"
    [] OTHER                                        -> "attention"

Turns == INSTANCE FencedTurns
           WITH Item   <- Doc,
                stage  <- [d \in Doc |-> Stage(d)],
                turn   <- [d \in Doc |-> job[d].count],
                holder <- [d \in Doc |-> job[d].current],
                output <- document

\* The queue implements FencedTurns as long as every result has a direction.
ImplementsTurns == Turns!Spec
=============================================================================
