# Fisora: formal models

TLA+ models of the parts of Fisora in which several processes, an unreliable
outside service or a crash can do damage that a unit test would hardly reach:
sending an invoice once and only once, processing a document under a fenced
claim, reviewing a journal while workers still write it, pulling incoming
invoices under leases, deleting raw files on schedule, and a few smaller
protocols and algorithms around them. TLC checks them on small instances, TLAPS
proves the theorems listed below for every value of the constants. Paths are
relative to the repository root (`src/...`).

Fisora is an accounting preparation system for accounting offices. Source
documents (PDF, XML, HTML, bank statements, invoices pulled from the QNB
e-invoice service) are accepted, queued and processed by workers that call AI
providers and write a canonical invoice and a draft journal. Accountants review,
correct, approve or reject the draft; approved journals are exported. Sales
invoices can also be written in Fisora and sent through QNB.

The system is a FastAPI application with several worker processes over one
PostgreSQL database. There is no message broker: processes interact through
rows, row locks and the commit order of short transactions. Everything the
models call a step is one such transaction, one row lock, one unlocked read or
one request to a provider.

- [1 Inventory](#1-inventory)
- [2 Plan](#2-plan)
- [3 The modules and the code](#3-the-modules-and-the-code)
- [4 Runs, bounds and what they show](#4-runs-bounds-and-what-they-show)
- [5 Fairness](#5-fairness)
- [6 Proofs](#6-proofs)
- [7 Where code and documents disagree](#7-where-code-and-documents-disagree)
- [8 Known limits that no run shows](#8-known-limits-that-no-run-shows)
- [9 Not modelled](#9-not-modelled)

## 1 Inventory

### Components with a protocol

**Outgoing invoices** (`domain/outgoing_invoices.py`, the
`outgoing_invoice*` methods of `persistence/postgres_workflow_store.py`,
`api/phase0_routes_outgoing_invoices.py`).
*State*: the invoice record, which the API shows; one record for each
idempotency key; one record for each send attempt with its event list and the
lease of its reconciler.
*Operations*: create draft, approve, send with an idempotency key, reconcile,
link a confirmed sale to the accounting flow.
*Interaction*: API calls run concurrently and share records; `send` and
`reconcile` call the provider in the middle; a confirmed sale is handed to
document acceptance.
*Hard*: the provider's answer can be lost after it took the document; the
process can die at any point; a lease can run out under its owner; invoices are
saved by a merge over an unlocked read.
*Correct means*: one submission per invoice, a request is on record before it
leaves, a verdict is final and true, only the lease's owner ends a
reconciliation, nothing stays blocked for ever.

**Document processing queue** (`workflows/document_processing.py`,
`worker.py`, `domain/ai_outage.py`, `services/outage_service.py`, and the job
methods of `persistence/normalized_accounting_repository.py` and of the workflow
store).
*State*: `processing_jobs`, `processing_attempts`, `ai_outage_episodes`, the
workflow record of the job that the API shows, the document record and the
canonical rows.
*Operations*: accept, claim with `SKIP LOCKED`, snapshot, save the result,
close, retry, record and recover an outage, requeue by force.
*Interaction*: worker slots compete for jobs; a reprocess call takes a job away
from the slot that runs it; a success of one document ends the outage episode
others wait on.
*Hard*: a claim expires after 15 minutes although its run is still alive;
result, completion and workflow record are separate transactions; workers die;
several slots meet an outage at once.
*Correct means*: only the newest attempt writes and closes, a completed job has
its own result, the journal never goes back, an outage never fails a document,
every job settles.

**Journal review and revisions** (`persist_canonical_journal`, `save_review`,
`reopen` in `persistence/normalized_accounting_repository.py`,
`save_simulation_result`, `save_review_decision`, `reopen_journal` in
`persistence/postgres_workflow_store.py`).
*State*: `journal_entries` with `journal_revisions`, `documents.status` and
`current_revision_no`, the document workflow record.
*Operations*: a run stores a draft, holds it back or records that nothing is to
be posted; a reviewer approves, corrects, rejects or reopens.
*Interaction*: row locks taken in opposite orders by runs and reviews, and
reads before the transaction begins.
*Hard*: deadlock; a decision made on a page that is out of date; a run that
looks at the journal without a lock.
*Correct means*: three copies of the revision number agree, a review is made
from the revision that it replaces (or from a result kept aside beside it), an
approved revision stays, the export is what was approved.

**Edit leases and working drafts** (`services/review_collaboration_service.py`,
`api/phase0_routes_review_collaboration.py`).
*State*: a five-minute lease per journal and a recoverable draft.
*Operations*: acquire, renew by activity, release, takeover, save the draft; a
review takes the lease first.
*Hard*: each of them is a sequence of separate transactions, so they interleave.
*Correct means* that only a takeover, or a call that read the lease before it was
granted, gets past its holder; the one owner at a time the plan asks for is more
than the code gives (section 8).

**QNB incoming synchronisation** (`qnb_worker.py`, `domain/qnb_scheduler.py`,
`domain/qnb_efatura.py`, sync methods of the workflow store).
*State*: the schedule with its lease, the manual requests with theirs, the
cursor, the accepted documents, the run of every worker process.
*Operations*: save the schedule, ask for a synchronisation, claim, renew, list a
page, store an invoice, save the cursor, complete.
*Interaction*: worker processes compete for leases; an administrator saves the
schedule under a running one.
*Hard*: a lease that ends during a run; a cursor saved without the token; limits
that end a run inside a page.
*Correct means*: the cursor passes no invoice that is not stored, a request is
answered once, an administrator's save stands, every listed invoice is stored in
the end.

**Period retention** (`services/retention_service.py`,
`persistence/operational_control_repository.py`, `domain/period_retention.py`).
*State*: the raw files, their rows, a batch for each period and its members, the
claim of the hourly tick.
*Hard*: a tick is a chain of transactions with unlinked files in between, its
claim lapses after five minutes, and processes die. *Correct means* nothing goes
before its day and everything due goes.

**Source acceptance and document identity** (`services/document_service.py`, the
intake methods of `persistence/normalized_accounting_repository.py`).
*State*: source files, documents, identities (an ETTN, or a key of issuer and
invoice), processing jobs.
*Hard*: one invoice is uploaded, delivered by QNB and read by a run in any
order; a listing may leave out either identity; the advisory lock is on the
first identity only. *Correct means* that deliveries which share an identity end
in one document, or are refused.

**Learning rules** (`persistence/learning_rule_repository.py`,
`services/learning_rule_service.py`).
*State*: the versions of a rule as draft, active, paused or archived.
*Hard*: activations under READ COMMITTED, each of which sees what was committed
when its first statement began. *Correct means* that two versions are active
together only if their own activations were under way at once, and no rule is
silenced by a failed activation.

**Gemini project pool** (`domain/gemini_project_pool.py`).
*State*: cooldown, calls in flight and last selection of every credential slot.
*Hard*: threads lease and cool slots while a structured call fails over.
*Correct means* a call does not come back to a project it has tried while
another could answer.

**VAT splits** (`domain/vat_splits.py`, `split_vat` of
`domain/journal_entries.py`). Pure, but of many steps: amounts of lines, summary
and totals are mixed per rate. *Correct means* a split called exact accounts for
the whole invoice.

**Reconciliation of components and the journal draft**
(`domain/monetary_reconciliation.py`, `domain/journal_draft_builder.py`). Pure as
well: a solver chooses which discounts, taxes and balances are part of the
payable total, and a builder posts lines, VAT and components by that choice and
the accountant's decisions. *Hard*: the two files read the text of an amount
differently. *Correct means* an invoice called exact gets a draft that balances,
or one that warns of an amount it could not read.

**Staged accounting pipeline** (`workflows/three_stage_accounting_pipeline.py`).
*State*: the draft of one run with its warnings and the status of its repairs.
*Hard*: two repairs follow each other, each may fail, be refused or replace the
draft. *Correct means* what is reported is true of the draft that was kept.

**Authentication, sessions and portal access** (`api/phase0_routes_auth.py`,
`domain/session_auth.py`, `domain/auth_policy.py`, `domain/portal_access.py`).
Sessions and single-use action tokens. Not modelled.

### Components without a protocol of their own

The other AI pipelines and adapters, the other accounting algorithms, bank
statements, invoice parsing, exports, AI artifacts and snapshots, the reference
corpus, the QNB wire adapter, capacity and rate counters, tax certificates,
maintenance, the JSON development store, the read models of the API, the schema,
the frontend, deployment, research and the vendored HTML reader. `PROJECT.json` lists each with its sources and the reason
it is not modelled; section 9 gives the reasons in groups.

### How the modelled parts meet

Acceptance creates the document, its queued job and the job's workflow record in
one transaction (`Accept` of ProcessingQueue). A claimed run ends in
`save_simulation_result`, which ProcessingQueue has as the single step `Save`
and JournalRevisions opens into its row locks and reads (`LockDocument` to
`Keep` or `Post`). The `holder` of JournalRevisions is the
`current_attempt_id` of ProcessingQueue, and `Start` is its `Claim`. A confirmed
outgoing sale (`Link` of OutgoingInvoice) enters the same acceptance.

An invoice that QnbSync stores (`StoreInvoice`) is a delivery of SourceIntake
(`AttachDelivery` or `AcceptDelivery`); what SourceIntake refuses for good is
what QnbSync calls a poison, an invoice every attempt at which fails. The canonical
write that SourceIntake has as `WriteHeader` is inside `Save` of
ProcessingQueue. PeriodRetention deletes the raw files that SourceIntake
stores. The pool, the stages of AccountingStages, the VAT splits and the drafts
are used inside a processing run, which ProcessingQueue takes as one outcome. A
review of EditLeases that gets its lease is an `Ask` of JournalRevisions. Beyond
these hand-overs the components share no state, which is why the compositions
may look at one of them at a time.

## 2 Plan

The order followed what an error would cost, and all but the last of its parts
are done:

1. `OutgoingInvoice` with the abstract `InvoiceDispatch`: an invoice sent twice
   or shown as failed although the provider has it cannot be undone.
2. `ProcessingQueue` with the abstract `FencedTurns`: the engine everything else
   passes through.
3. `JournalRevisions` with the abstract `RevisionStore`: what reviewers decide
   against what workers write.
4. `QnbSync`: leases, cursor, requests and the schedule.
5. `PeriodRetention`: deletion cannot be undone either.
6. `SourceIntake`, `LearningRules`, `GeminiPool` and `EditLeases`: small
   protocols.
7. `AccountingStages`, `VatSplits` and `InvoiceDraft`: what happens inside a
   processing run, one pipeline and two algorithms.
8. Compositions that check several of them in one run: `MCProcessing`,
   `MCLeases`, `MCBackOffice`.
9. Authentication, not done (section 9).

Of the properties of the passing runs, every invariant, action property and
refinement is a theorem as well (section 6); only liveness is checked without
being proved. What would be worth most next is a first component of
authentication, and the bank statements.

## 3 The modules and the code

| module | kind | code |
|---|---|---|
| `OutgoingInvoice` | system | outgoing invoices over the PostgreSQL store |
| `InvoiceDispatch` | abstract | what `OutgoingInvoice` promises |
| `MCOutgoingInvoice` | instances | numbers of their own; calls that start in order, a symmetry by hand |
| `OutgoingInvoice_proofs` | proofs | |
| `ProcessingQueue` | system | queue, attempts, outage episodes |
| `FencedTurns` | abstract | what `ProcessingQueue` promises |
| `MCProcessingQueue` | instances | symmetry for TLC |
| `ProcessingQueue_proofs` | proofs | |
| `JournalRevisions` | system | journal, document and record under row locks |
| `RevisionStore` | abstract | what `JournalRevisions` promises |
| `MCJournalRevisions` | instances | symmetry for TLC |
| `JournalRevisions_proofs` | proofs | |
| `QnbSync` | system | synchronisation of a client's incoming invoices |
| `QnbSync_proofs` | proofs | |
| `PeriodRetention`, `PeriodRetention_proofs` | system, proofs | retention of raw sources |
| `SourceIntake`, `SourceIntake_proofs` | system, proofs | uploads, deliveries, document identity |
| `LearningRules`, `LearningRules_proofs` | system, proofs | versions of a learning rule |
| `GeminiPool` | system | the project pool of one process |
| `EditLeases` | system | edit lease and working draft of a journal |
| `AccountingStages` | system | one run of the staged pipeline |
| `VatSplits` | algorithm | reconciliation of VAT splits |
| `InvoiceDraft` | algorithm | reconciliation of components, journal draft |
| `Preparation_proofs` | proofs | of VatSplits, InvoiceDraft, AccountingStages, EditLeases and GeminiPool |
| `MCProcessing` | instances | ProcessingQueue, and beside it VatSplits, InvoiceDraft and AccountingStages |
| `MCLeases` | instances | QnbSync with two workers, SourceIntake, GeminiPool, EditLeases |
| `MCBackOffice` | instances | QnbSync with one worker, PeriodRetention, LearningRules |

`PROJECT.json` maps every definition to its lines.

In each system module some operators marked `mutant` stand next to the action
they vary: a guard dropped, a field not reset, a lock not taken. They are not
part of any specification; each shows that one property fails when the code has
that bug.

### OutgoingInvoice

| state | code |
|---|---|
| `invoice` | the `outgoing_invoice` record: status, current attempt, whether the provider field and the canonical reference are there |
| `sendKey` | `outgoing_invoice_send_key` records |
| `attempt` | `outgoing_invoice_send_attempt` records: state, `request_started` event and its age, owner and lease |
| `call` | the locals of every running API call, its program point, the copy of the invoice it holds |
| `request`, `submits` | the provider's side: the fate of the request of an attempt, and the requests per invoice |
| `source` | attempts whose UBL entered document acceptance |

An approver, sender or reconciler is one API call. `Approve` reads, checks and
fixes its copy; `SaveRead` and `SaveWrite` are `save_outgoing_invoice`, whose
read lies outside the transaction of its write. `Claim` is the one transaction
that binds key, attempt and invoice. `PassPreflight`, `StartRequest`, `Submit`,
`Answer`, `LoseAnswer`, `RefuseLocally` and `StoreRaises` are the program points
of `send()`. `ReadInvoice`, `LoadAttempt`, `ClaimReconciliation`, the save and
`Query` are those of `reconcile()`. `Finalize` is
`finalize_outgoing_invoice_attempt_and_invoice` with its checks of state and
owner; `Link` is the hand-over of a confirmed sale. `ProviderDecides`,
`BecomeStale`, `ExpireLease` and `Crash` are the environment.

The provider is asked by the number of the invoice (`numberOf`), which
`create_draft` does not keep unique, and its answer is taken without comparing
the ETTN: `QueryAnswer` is about all requests with that number.

Abstracted: the UBL and its validation; the event list, of which
only `request_started` matters; the clock, which is two facts (the event is
older than 120 s, the lease has run out); the caller that loses the race for a
key, which waits and returns the projection.

`InvoiceDispatch` has an invoice go from open through dispatching or unresolved
to sent or failed, with at most one submission. `ImplementsDispatch` maps the
attempt of an invoice to its phase.

### ProcessingQueue

| state | code |
|---|---|
| `job` | `processing_jobs`: status, `attempt_count`, `current_attempt_id`, claim expiry, whether the retry is due, outage episode |
| `attempt` | `processing_attempts.status` by attempt number |
| `mirror` | the `processing_job` workflow record, as the API shows it |
| `canonical` | the attempt whose canonical invoice and journal are stored |
| `document` | the attempt whose result the document record holds |
| `run` | the locals of each worker slot |
| `reprocess` | each reprocess call, which writes the job and then the mirror |
| `opened`, `open` | `ai_outage_episodes` with its unique open row |
| `late` | jobs whose next retry would fall behind the 24 hour window |

`Claim` is `claim_next_processing_job`; `Save` is `save_simulation_result`,
fenced by the attempt only for results that have a purchase or sales direction
(the constant `Directed`); `Close` is the fenced `update_processing_job`, with
the attempt it closes taken from `attempt_count` as in the code; every write of
the workflow record is a step of its own. `RecordOutage` and `OpenEpisode` are
the select and the insert of `record_ai_outage_failure`, `CountWaiters` and
`CloseEpisode` the two halves of the recovery. `Faults` chooses what may go
wrong: errors of the pipeline that are final or transient, store calls that
raise before or after their commit, processes that die, runs that outlive their
claim.

Abstracted: the accounting content of a result (a whole pipeline run is its
outcome); the order of the queue, since `SKIP LOCKED` may pass over locked rows;
times, which are the facts that a claim has expired, a retry is due, a window
has closed. Left out: bulk acceptance, the lanes of `worker.py`, the retirement
of exhausted episodes.

`FencedTurns` describes work in turns: only the newest turn delivers, a
resubmission or takeover ends the older turn for good, and an item is done only
with the output of its last turn. `ImplementsTurns` maps jobs to it.

### JournalRevisions

| state | code |
|---|---|
| `journal` | `journal_entries` and its current row of `journal_revisions`: number, status, who made it, what its content was made from (a revision, or 0 for a result that was held back), whether any was approved |
| `document` | `documents.status` and `current_revision_no` |
| `record` | the document workflow record: its `normalized_revision`, and the revision whose content it shows, 0 for a result that was held back |
| `holder` | `processing_jobs.current_attempt_id` |
| `lock` | who holds the row locks of documents, processing_jobs and the journal |
| `run`, `call` | the locals of every run and of every review or reopen call |

A run takes the documents row (`LockDocument`), then the job row with the fence
(`CheckFence`), reads the journal without a lock (`ReadJournal`) and then either
keeps its result aside (`Keep`) or waits for the journal row and writes the next
revision (`Post`). A review is asked for with an expected revision (`Ask`), reads
the content of the workflow record before its transaction (`ReadRecord`), takes the journal row
and compares the revision (`LockJournal`), and needs the documents row to write
(`Decide` or `Reopen`): the insert into `journal_revisions` has a foreign key to `documents`,
which waits for the worker's `for update`. The two orders are opposite, so
`BreakDeadlock` is PostgreSQL raising in one of the two.

Abstracted: lines, amounts and allocations; the validation that makes an
approval an approval or a correction (any of the three statuses may come out);
uncommitted writes, which appear with the commit; the advisory lock of
`save_simulation_result`, which the documents lock makes redundant here; statuses
of a result other than `review_required`, none of which is `approved`; fields of
the record other than its revision and content, which a run carries over from
a read it makes before it has the documents lock. Left out: decisions that only
teach a rule, which write no journal; the edit lease, which can only refuse a
call before it reads and is the subject of EditLeases; results without a direction, which ProcessingQueue covers.

`RevisionStore` has no locks, no reads and no transactions: a run takes the job,
then saves once or gives up, a reviewer decides or reopens, and each of these is
one step on the journal as it is. Its guards are the promises: a save needs the
job, an approved journal is not replaced, a reviewed revision is made from the
one before it or from a result that is still held back beside it, never from
older content. `ImplementsStore` maps the revision, what the document is shown
as, whether its record holds a result beside the journal, and the runs that are
under way. This is also the reason why ProcessingQueue may have
`save_simulation_result` as the single step `Save`.

### QnbSync

| state | code |
|---|---|
| `listed`, `poison` | the provider's mailbox: invoices 1 to `listed`, and those whose content is never accepted |
| `stored` | invoices with an accepted document |
| `cursor` | `qnb_sync_cursor` |
| `policy` | `qnb_sync_policy`: on or off, due, lease |
| `request` | `qnb_sync_request` in order of creation |
| `sync` | the locals of `sync_incoming_invoices` and its callers, for each worker process (`Syncer`) |

`ClaimRequest` and `ClaimPolicy` are the claims of `run_manual_sync_once` and
`run_due_once`; `ReadCursor` to `EndPage` are the page loop, with the look for a
duplicate (`LookAtInvoice`) apart from the acceptance (`StoreInvoice`), as in
the code; `FailedAttempt` is an attempt at an invoice that raises, before its acceptance
is committed or after it, so that a page may count as failed with the invoice stored;
`RenewLease` is the heartbeat thread of a scheduled run, which manual
runs do not have. Completions compare the token, the cursor does not. A lease
token is the worker whose current run drew it, or `Gone` when that run died.
Abstracted: times (a lease has run out, the next run is due); the backoff; the
PDF copy; which error a run ended with. Left out: safety holds and the
reconciliation of statuses, which come after the cursor.

### PeriodRetention, SourceIntake, LearningRules, GeminiPool

*PeriodRetention*: one action for each transaction of a tick and one for each
unlinked file; `day` of a tick is the `now` it read once. Days are the firsts
and lasts of months, which is all the schedule uses. `LoseTick` is a process
that dies or raises. A failing unlink is left out (section 8).

*SourceIntake*: a document is named by the content whose source gave it its
reference. `StoreUpload` and `CreateUploadJob` are the two transactions of an
upload. What QNB lists is a `Summary`, which gives an ETTN, a key of issuer and
invoice, both or neither. `LookUpDelivery` takes the locks (`Contend` says which
acceptances wait for one another) and searches the identities;
`AttachDelivery` and `AcceptDelivery` join the document that was found or insert
one, and both claim the identities in `CommitDelivery`. An identity that names
another document by then is `document_identity_conflict`, and with it, or with a
unique key that raises (`EttnFree`), the acceptance can only end in
`RefuseDelivery`. `WriteHeader` is the header a run writes, which is no identity.
Left out: the PDF copy a user may ask QNB for, which is saved as evidence of its
invoice and is no acceptance.

*LearningRules*: the two statements of a transition with their row locks.
`BeginTransition` takes the rows the first statement finds, `PauseRow` waits for
and pauses one of them, `Commit` runs the second statement. `Released` is the
end of a transaction. `rivals` remembers the pairs of versions whose activations
were in their transactions at once (`Meeting`).

*GeminiPool*: each action is one critical section of the pool's lock, or the
answer of the provider between two of them. `cooling` holds times on a bounded
clock, `Forever` is `float("inf")`. The order of selection (in flight, last
selected, position) is as in the code. Fields that report the last call are
left out. `alone` remembers that no other call has been under way since this one
began, and `AtProvider` is the set of the calls that a load has to count.

### EditLeases

| state | code |
|---|---|
| `editLease` | the row of `journal_edit_leases`: owner, last activity, expiry |
| `draft` | the row of `journal_working_drafts`: who saved it, from which revision |
| `revision`, `minute` | `current_revision_no` and the clock, in minutes |
| `edit` | the locals of each HTTP call, with the lease it read |

Every method of the repository is a transaction and an action: `ReadRevision`,
`ReadLease`, `DeleteExpired`, `DeleteLease`, `WriteLease`, `SaveDraft`. The
operation of a call says which of them follow each other. A call takes the time
once, in `Submit`. `Review` is `store_review_decision` once it has the lease, of
which only the new revision matters here; `Revise` is a worker's run or a
reopening, which do not ask for the lease. Abstracted: roles, the text of a
draft, the reason of a takeover.

### AccountingStages

`invoice` is what reader and planner found, `answer` the draft that is kept,
`warnings` those of its composition, `repairs` the status of the two repairs.
`FirstDraft`, `RepairAccounts` and `RepairBalance` are the three calls of the
accountant with what the code decides on the answer; `TryAgain` is the second
attempt of a call, `NoFirstDraft`, `FailAccounts` and `FailBalance` a call that
gave none. `Report` is `_compatibility_result`. What a model answers is the
constant `Output`: which kinds of account codes it uses on lines and rows, its
sums, whether it covers the rows. Abstracted: prompts, texts, times, and every
field of the result but its status, reasons and request for a retry.

### VatSplits and InvoiceDraft

*VatSplits*: `Completed` and `BuildResult` are `_complete_summary_splits` and
`_build_result` in whole cents; a missing amount is the empty set. The invoices
to reconcile are the constant `Evidence`. `OverRates` adds over the six rates that
the code reads from an invoice, one by one.

*InvoiceDraft*: `Baseline` to `Mandatory` are the total of lines and VAT;
`Candidates`, `Penalty` and `Solved` the choice of a mode for every component,
as the minimum the solver's table ends with; `Reconciled` the outcome. `Built` is
`build_journal_draft` under decisions of the accountant, as debits and credits.
Account codes and the memberships in totals other than the payable one, which
nothing posts, are left out; below `max_states` subtotals the solver is exact.
An amount is the set of its value, or empty where `_money` gives `None`
(`Figure`); sums skip what is missing, as `_sum_money` does. The invoices are the
constant `Draftable`, the decisions `Proposals`; `DraftAssumption` gives their
types only. The two files read the text of an amount differently: `marked` are
the amounts written with a currency other than the header's code, a percent
sign or the like, which `_money` of the reconciliation strips and `_money` of
the builder does not. `Legible` says which of them the builder can read after
all (what an allocation has written anew), and `AmountInvalid` are the lines
that warn of one.

### Compositions

*MCProcessing*, *MCLeases* and *MCBackOffice* compose independent components:
their variable `focus` chooses one in the first state, the others stand still.
This gives TLC the sum of their state spaces, not the product. It is sound for
their properties because they share no variable.

## 4 Runs, bounds and what they show

| run | instance | states | result |
|---|---|---|---|
| `outgoing` | 1 invoice, 2 keys, 1 approval, 2 sends, 2 reconciles, raising store | 16 K | request on record, sent is accepted, one submission, an open attempt stays reachable, linked once and only when accepted, final verdicts, owner ends reconciliation, implements `InvoiceDispatch`; every call ends, every request is closed or can be reconciled |
| `outgoing_double_approval` | 1 invoice, 2 approvals | | violates `OneSubmission` |
| `outgoing_store_fault` | 1 invoice, raising store | | violates `FailedIsNotAccepted` |
| `processing` | 1 document, 2 slots, 1 reprocess, all faults, 3 claims; or the invoices of `Invoices`; or those of `Drafts` with one decision that differs; or a run of the stages over `Answers` | 506 K | one run per attempt, completed (or shown so) has a result, journal in order, own run closes, implements `FencedTurns`; an exact split is whole; an exact draft balances or warns; a report is true |
| `queue_outage` | 2 documents, 2 slots, transient errors, 2 claims each | | violates `OnlyErrorsFail` |
| `queue_live` | 1 document, 2 slots, 1 reprocess, transient errors, crashes and raising store, 3 claims | 187 K | every job settles |
| `queue_undirected` | 1 document, 2 slots, slow runs, both directions | | violates `DocumentInOrder` |
| `review_locks` | 2 runs, which start below revision 2, and 2 calls, below revision 3 | 57 K | revisions agree, the export is what was approved, approval stands, every transaction ends, implements `RevisionStore` |
| `review_manual_work` | 2 runs, which start below revision 3, and 2 calls, below revision 4 | | violates `ManualWorkStands` |
| `leases` | 2 QNB workers, 2 invoices, pages of 2, 1 download a run, 1 request, 1 save of the schedule, 1 fault; or 4 contents of 2 invoices, 2 deliveries at a time, 1 upload at a time; or 2 threads and 2 slots with 3 calls; or 2 editors, 2 calls at a time, a lease of 2 of the minutes 0 to 2, 2 revisions | 1.06 M | cursor passes only what is stored, answers are final, saves stand; one document per identity; loads of the pool count its calls, failover to an untried project; only stale calls and takeovers intrude on a lease |
| `intake_copy` | the instance of `leases` | | violates `ListedIsNotDoubled` |
| `desk` | 1 QNB worker with 3 invoices; or 2 ticks and 2 periods; or 2 calls on 2 versions | 163 K | every listed invoice is stored and every request answered; files go on schedule and deletions complete; only versions activated at once are active together, no rule is silenced by an activation |

State counts are after symmetry, where the run uses it. `SYMMETRY` is used for
safety only. `outgoing` checks liveness as well, and has a symmetry by hand
instead: keys, sends and reconciles are interchangeable and used once, so an
action constraint has the first of each used first. No fairness condition obliges
a call to start, so this takes nothing from the fair behaviours. All runs set `CHECK_DEADLOCK FALSE`,
since calls, claims and reviews are bounded and the system then simply has
nothing left to do; the deadlock a reader should care about, that of row locks,
is a state of JournalRevisions and is the subject of `AllEnd`.

Why the bounds are enough:

- *Outgoing.* Two keys and two senders are what a race for one invoice, a reused
  key or a second submission needs. Two reconcilers are an owner and one that
  takes the lease over or comes after the verdict; the theorems are for any
  number. Invoices share keys, and possibly a number: that a key names one attempt
  is proved for any number of invoices (`KeyNamesOne`), and what a shared number
  does is in section 8. Calls are used once: a repetition of a call is
  another caller.
- *Queue.* Documents share only outage episodes, so the fence is checked with
  one document; the first outage of two slots is `queue_outage`. Three claims let a run be taken over,
  requeued and taken over again while the first is still alive; with `slow` and
  two slots both runs of a document are live at every pair of program points.
  `MaxAttempts` is the only counter and is reached in each run.
- *Reviews.* Two runs are one that lost its claim and one that took it. Two calls
  are two reviewers, or a review and a reopen. Calls and runs repeat; starts are
  bounded by `MaxRevision`, which allows a draft, its approval, a
  held result and a reopen or second review in one behaviour.

- *QNB.* Two workers give a run and the one that takes its lease; pages of two
  with one download a run make the document limit end a run inside a page, and
  the set `{2}` of poisons a page that never gets through. With one worker three
  invoices are two pages.
- *Intake.* The contents are an invoice in two renditions of UBL and as a PDF, and
  another invoice; it is listed in full, by its key alone, by its ETTN alone, and
  once with the key of the other, which makes the identities conflict. Two
  deliveries are one between the search and the claim of the other.
- *Leases.* Three pool calls are two that overlap and a third that finds what
  they left. Two calls at a time are a holder's and an intruder's; one of them
  may have read the lease before the other's editor got it, and both editors
  call again and again. Minutes 0 to 2 let a lease of two run out under a call
  that still believes in it.
- *Inside a run.* The invoices of `Invoices` have two rates, with lines and
  summaries that agree, are off by a kurus, are wrong or are missing, and totals
  that fit some of them. Those of `Drafts` have two lines whose VAT base agrees,
  is two kurus off or is missing, at most one component of each kind beside the
  allowance, and payable totals with and without them, so that the solver has to
  choose; or no lines at all; and amounts that only the reconciliation can read. `Answers` combine each kind of account code on lines and rows with
  sums that agree or not; three of them in a row are a first draft and both
  repairs.
- *Desk.* Two ticks overlap; two periods meet on the day the first is deleted
  and the second prepared. Two calls on a rule with two versions activate against each
  other.

What the properties say, beyond types:

- `RequestOnRecord`: no crash leaves a request that reconciliation refuses to
  look at. `SentIsAccepted`, `FailedIsNotAccepted`: a verdict is true,
  the former of the documents with the invoice's number.
  `OneSubmission`, `KeyNamesOneAttempt`: idempotency, across keys and callers.
  `OpenAttemptIsReachable`: the projection always leads to the open attempt.
  `SourceIsConfirmedSale`: the accounting flow gets a sale once, and only one
  that exists. `VerdictIsFinal`, `OnlyOwnerEndsReconciliation`: late answers and
  former owners change nothing.
- `OneRunPerAttempt`, `JournalInOrder`, `OwnRunCloses`: the fence holds at each
  write. `CompletedHasResult`, `ShownDoneHasResult`: two and three transactions
  later there is still the right result behind a completion.
  `OnlyErrorsFail`, which the code violates: an outage is waited out.
- `RevisionsAgree`, `ExportIsShown`, `ApprovedStands`, `ImplementsStore`: see
  section 3; the interesting part is that a run decides from an unlocked read,
  and is right only because reviews need the documents row for a foreign key.
  The step `Review` of `RevisionStore` says from which content a review may be made.
- `NothingSkipped`: runs that overlap, lose their lease or save an older cursor
  never hide an invoice. `FinalAnswerStands`, `SaveStands`: what a run that
  lost its lease does no longer counts. `EveryInvoiceStored`, `RequestsEnd`: with
  the one worker of production, and content that can be accepted, the work gets
  done.
- `FilesGoOnSchedule`, `DeletionCompletes`: deletion is neither early nor, when
  ticks do not overlap, forgotten. `OneDocumentPerIdentity`: a delivery that lacks
  one identity, is not kept out by the lock, or finds the other identity taken
  after its search still makes no second document of an identity.
  `OnlyRivalsBothActive`: calls that follow one another leave one active version,
  and of those that overlap only two that activate against each other leave two.
  `ExactDraftBalances`: a draft that is out of balance although the invoice was
  exact says so itself, with an `amount_invalid`. `NeverSilencedByActivation`,
  `CallsAreCounted`, `FailsOverToUntried`, `ExactSplitIsWhole`: see the comments in
  their modules. A condition in one of these (a call that has the pool to itself,
  decisions that go along) is there because the code does not keep the property
  without it.
- `OnlyStaleCallsIntrude`: all the exclusion an edit lease gives; who intrudes has
  read something else than the lease that runs. `ReportIsTrue`: a later repair
  does not undo what an earlier one is reported to have done.

## 5 Fairness

- *OutgoingInvoice*: weak fairness of the next step of every call that has begun,
  and of time (a lease runs out, an event grows old). A handler either goes on or
  dies (`Crash`). Nobody is obliged to approve, send or reconcile, and the
  provider is not obliged to decide.
- *ProcessingQueue*: weak fairness of the steps of a run, of some slot claiming a
  claimable job (the slots poll for ever) and of time. The save has strong
  fairness because between two snapshots it is disabled: a run takes finitely
  many snapshots. Reprocess calls, errors and crashes are not fair.
- *JournalRevisions*: strong fairness of a transaction's next step, as PostgreSQL
  queues the waiters of a row, so a row that is free again and again is got in
  the end; weak fairness of deadlock detection. Nobody is obliged to start a run
  or a review.
- *QnbSync* (`SyncFairness`): weak fairness of a worker's next step, since the
  loop of `qnb_worker.py` never ends, of the next run coming due, and of the
  lease of a dead run running out. Faults, saves and requests are not fair. The
  liveness properties are checked with one worker, which is what production
  runs; with two, a manual run can lose its lease to the other for ever.
- *PeriodRetention*: weak fairness of the steps of a tick, of the schedule and of
  the calendar. The queue's workers run a tick in every pass of their loop.

## 6 Proofs

TLAPS checks every theorem to its leaves. The only assumptions are the named
`ASSUME`s of the modules, which TLC evaluates in every run: callers of different
kinds are different (`CallersDisjoint`); the bound is a natural number, some
result is possible and `None` is no document (`QueueAssumption`); runs and calls
are different and `None` is neither (`RevisionsAssumption`); the rates are among
those of the law, amounts are whole or missing (`RateAssumption`,
`EvidenceAssumption`), and so are those of the drafts, whose decisions are about
the facts of their invoice (`DraftAssumption`); every invoice has a number
(`NumberAssumption`); threads are finitely many and there is a slot
(`PoolAssumption`); `SyncAssumption`, `RetentionAssumption`,
`IntakeAssumption`, `RulesAssumption`, `EditAssumption` and `StagesAssumption` say
as little of their modules' constants. Theorems about what two actors can spoil
between them say so in their statement, as a hypothesis about the behaviour
(`ApprovalsApart`) or the constants (`NumbersApart`); each is introduced below
with what happens without it.

**OutgoingInvoice_proofs.** An inductive invariant in layers, each proved on top
of the former: `TypeInv`; `RecordInv`, what an attempt's record says of the
program point of its sender; `KeyInv`, keys and attempts point at each other;
`BelongInv`, a call works on the attempt and the invoice that belong together;
`SentInv`, a call that carries the verdict "sent" has behind it an acceptance under
the number of its invoice. `ReceiptInv` says more of the receipt that `send()`
itself wrote: the attempt's own request was accepted, and only what carries a
receipt is linked. `SentIsAccepted` is not inductive: the verdict travels from the provider's
answer through the locals of a call that may finalize much later. That only the
owner ends a reconciliation (`OwnerStep`) needs the types and `RecordInv` only:
whoever else may finalize finds the attempt in another state.

The next layers say that an invoice has one attempt. They hold under
`ApprovalsApart`: no two calls of `approve()` hold the same invoice at once. One
approver is enough for it (`OneApproverApart`); without it
`outgoing_double_approval` submits an invoice twice. `Order` has four parts:
`FreshInv`, an invoice that was never claimed has no attempt; `NamedInv`, a
claimed one names its only attempt, and is closed after it; `CallInv`, what a
send or reconcile holds in its locals, however old, is never from before the
claim; `ApproverInv`, an approval holds a draft. Of all steps only the save of
an approval needs the hypothesis (`OrderApprover`): it is the one write that may
carry a copy from before the claim. On `Order` rest `CountInv` (an invoice was
submitted once if the request of its attempt is out, and else never), `SourceInv`
(what is linked has its attempt closed as sent), and the refinement: `PhaseInv`
says that the phase of an invoice in `InvoiceDispatch` is the stage of its
attempt, `DispatchInv` that no attempt is decided before its request. A claim,
the request and a change of an attempt's state are the three forms of a step
(`RefinementClaim`, `RefinementSubmit`, `RefinementMoves`). The refinement needs
`NumbersApart` as well, no number shared by two invoices: `InvoiceDispatch`
promises that nothing is submitted after its verdict, and with a shared number a
reconciliation may close an attempt on the answer about another document before
a slow sender submits (section 8).

| theorem | property |
|---|---|
| `TypeCorrect` | `TypeOK` |
| `RequestRecorded` | `RequestOnRecord` |
| `VerdictStays` | `VerdictIsFinal` |
| `KeyNamesOne` | `KeyNamesOneAttempt` |
| `SentAccepted` | `SentIsAccepted` |
| `OwnerEndsReconciliation` | `OnlyOwnerEndsReconciliation` |
| `OpenAttemptReachable` | `OpenAttemptIsReachable`, under `ApprovalsApart` |
| `SourceConfirmed` | `SourceIsConfirmedSale`, under `ApprovalsApart` |
| `OneSubmissionOnly` | `OneSubmission`, under `ApprovalsApart` |
| `ProtocolImplementsDispatch` | `ImplementsDispatch`, under `ApprovalsApart` and `NumbersApart` |

**ProcessingQueue_proofs.** Every step is a claim, a requeue, or leaves the
attempts of all jobs alone and moves one run; the lemmas about these three
forms carry the rest. Layers: `TypeInv` (a busy slot holds an attempt that was
drawn for it); `FenceInv` (attempts are drawn upwards, a job names the newest or
none, nothing newer than that was stored as canonical, and no two runs share an
attempt); `LiveInv` (the attempt a job names was never superseded); `ResultInv`
(a current run that has not ended finds its job in processing, and one about to
complete has saved its result). `CompletedHasResult` needs the last: result and
completion are transactions of their own, and the invariant has to carry the
saved result from the one to the other past every requeue and takeover.

`ShownInv` carries the same through a third transaction, for any directions: a
run that is about to close its job as completed, or to show it so, has a result,
and no document ever loses its own.

| theorem | property |
|---|---|
| `TypeCorrect` | `TypeOK` |
| `RunsToldApart` | `OneRunPerAttempt` |
| `JournalNeverBack` | `JournalInOrder` |
| `OnlyOwnRunCloses` | `OwnRunCloses` |
| `CompletedKeepsResult` | `CompletedHasResult`, when every result has a direction |
| `QueueImplementsTurns` | `ImplementsTurns`, when every result has a direction |
| `ShownHasResult` | `ShownDoneHasResult` |

That every result has a direction is needed: `queue_undirected` is the behaviour it
excludes.

**JournalRevisions_proofs.** One invariant of named parts. `LockInv`: which lock
a program point implies. `RevisionInv`: the revision a run has read stays current
while it holds the document. `CallInv`: revisions only grow, so a record read
between the page and the locked journal, both at the expected revision, showed
that revision or a result kept beside it (`ReadFits`), and what is kept aside
stays there while the revision does. `RunInv`: a run on its way to post has seen a journal that is not
approved, and nobody can approve it meanwhile. `ExportInv`: only a review
approves, and an approved document shows what the journal has. Each transaction
step is an instance of two lemmas (`RunMoves`, `CallMoves`); only `Keep`, `Post`
and `Write`, which `Decide` and `Reopen` share, change data and are proved one by one.

The refinement needs to know more, and `StoreInv` says it: what a transaction has
checked is still so when it commits. A run past the fence holds the job row, so
nobody else can have taken the job; the way in which it leaves its result
(`LeaveFits`) is right for the journal as it is now, although it was chosen from
an unlocked read, since a writer of the journal needs the document that the run
holds; and a reopen that is about to write finds the journal approved. Steps
before a commit do not show in the store (`RunGoesOn`, `CallGoesOn`), a run that
loses its claim, its process or a deadlock gives up (`RunGivesUp`), and the
commits are the store's steps one by one (`KeepIsSave`, `PostIsSave`,
`DecideIsReview`, `ReopenIsReopen`).

| theorem | property |
|---|---|
| `TypeCorrect` | `TypeOK` |
| `OneRevision` | `RevisionsAgree` |
| `ExportsShown` | `ExportIsShown` |
| `ApprovalStands` | `ApprovedStands` |
| `JournalImplementsStore` | `ImplementsStore` |

**QnbSync_proofs.** `RunOK` says what a run knows, relative to what is listed and
stored: the cursor it goes from is safe, its page is listed, and unless an
invoice of the page failed everything before the next one is stored. It survives
whatever others list and store (`RunGrows`), and that is why a cursor saved
without the token is still safe: any cursor a run can save is. `HolderInv` and
`AnswerInv` tie a lease to the run that drew it, and to the last save.

| theorem | property |
|---|---|
| `SyncTypeCorrect` | `SyncTypeOK` |
| `CursorIsSafe` | `NothingSkipped` |
| `AnswerIsFinal` | `FinalAnswerStands` |
| `ScheduleIsSaved` | `SaveStands` |

**PeriodRetention_proofs, SourceIntake_proofs, LearningRules_proofs.** One
invariant each. A source is only ever in the batch of its own period, and what a
tick has claimed was due on the day it read. The document of a delivery owns
every identity of that delivery from its commit on (`ClaimedInv`), so a later
delivery that shares one joins it or is refused. An activation that runs has
visited or still has on its list every active version, but for those of its
rivals (`SeenInv`).

| theorem | property |
|---|---|
| `RetentionTypeCorrect`, `OnSchedule` | `RetentionTypeOK`, `FilesGoOnSchedule` |
| `IntakeTypeCorrect`, `SharedIdentityIsOneDocument` | `IntakeTypeOK`, `OneDocumentPerIdentity` |
| `RulesTypeCorrect`, `OnlyRivalsActive`, `NeverSilenced` | `RulesTypeOK`, `OnlyRivalsBothActive`, `NeverSilencedByActivation` |

**Preparation_proofs.** `SplitVatValidates`: for every total, negative ones
included, and every rate of the law, net and tax add up to the total and the tax
is within a cent of the rate, so the reconciliation accepts what `split_vat`
writes. It rests on `HalfUpIsNear`, the error of rounding half up, which the SMT
solver can show for one divisor at a time. `ExactIsTheWhole` is about the outcome
of any invoice: the amounts that each step of the completion puts in are whole
or missing (`WithExemptTypes` to `CompletedTypes`), so the sums that an exact result
was compared by are numbers, and the comparisons mean what they say. The sums
have six summands, which is why they need no induction.

`ExactBalances` is about any number of lines, rates and components. Its sums go
over sequences of any length, and the usual induction takes an operator as a
parameter, which the provers cannot instantiate. So sums are characterised
first: the recursive function behind `SumFunction` exists for every finite set
(`SumsExist`, by the least cardinality at which it would not), and what passes
from a set without its next element to the set holds of all of them
(`ByRemoval`, by a least counterexample). From these follow that `SumUnfolds`
takes one element away and `SumAdds` adds two sums term by term. Then what is posted
for the lines is the baseline (`LinesArePosted`: what the last line gets is just
the difference), what is posted for the rates their tax, and what is posted for
the components, increases less reductions, the effect of the solver's choice
(`PartsArePosted`). Exact means that the three make up the payable total
(`ExactMeans`). Where the builder could not read an amount that the
reconciliation counted, the draft has an `amount_invalid` for it; an amount that
neither could read counts for nothing (`UnreadPart`). `DraftInv` ties the draft to
the invoice's own reconciliation. That a choice of the solver exists is not needed: an exact reconciliation has the
residual zero, whatever it chose.

`ReportIsTrue` speaks of the last state only. `AnswerIsRecorded` carries through
the stages what it needs: the warnings of the composition of the answer that is
kept are on record with it, and an accepted repair still holds of it. A draft
that was kept because its repair failed keeps its old warnings, so a report
cannot be complete by mistake.

`OnlyStaleCallsIntrude` is an action property; `EditInv` says what a call knows
when it is about to write: that it read no lease, one that was over by the time
it had taken, or its own. Whoever then writes over a lease of somebody else that
runs has read another one.

The pool is proved for any number of slots and threads. That there is a slot to
select at all, and a first one in the order of the selection (`SelectedIsFirst`),
takes three minima of sets of numbers, one inside the other. `PoolInv` adds to
the types that a call at the provider has a slot and one that goes over has an
attempt left (`DispatchOK`), that loads are counts (`CallsAreCounted`, without
which a release could take a load below zero), and, for a call alone in the pool,
that everybody else is idle and the slots it has tried were selected after all
others (`AloneInv`). Then every load it meets is zero, and the order of the
selection puts the untried slots first, whatever earlier calls left behind.

| theorem | property |
|---|---|
| `SplitVatValidates` | of the operators `SplitVat` and `Validates` |
| `ExactIsTheWhole` | `ExactSplitIsWhole` |
| `ExactBalances` | `ExactDraftBalances` |
| `StagesTypeCorrect`, `ReportTrue` | `StagesTypeOK`, `ReportIsTrue` |
| `EditTypeCorrect`, `OnlyStaleIntrude` | `EditTypeOK`, `OnlyStaleCallsIntrude` |
| `PoolTypeCorrect`, `CallsCounted`, `FailsOver` | `PoolTypeOK`, `CallsAreCounted`, `FailsOverToUntried` |

The type invariants `TypeOK`, `SyncTypeOK`, `RetentionTypeOK`, `IntakeTypeOK`, `RulesTypeOK`,
`StagesTypeOK`, `EditTypeOK` and `PoolTypeOK` are theorems and not checked again by
the runs.

**Only model-checked**: all liveness (`CallsEnd`, `RequestCanBeReconciled`,
`JobSettles`, `AllEnd`, `DeletionCompletes`, `EveryInvoiceStored`,
`RequestsEnd`), which is out of this prover's reach together with `ENABLED`. The
modules declare no `RECURSIVE` operator.

## 7 Where code and documents disagree

Each of these is a run TLC ends with a counterexample.

- `outgoing_double_approval`. `approve()` checks the draft without a lock and
  saves its copy later. A second approval, saved after the invoice was claimed,
  writes "approved" over "sending" or "sent", and another key then submits it
  again. The design document says another key cannot get past those states.
- `outgoing_store_fault`. The store call that records a receipt is inside the
  try block of `send()`. If it raises, the handler records "failed" for a
  document the provider accepted. The design allows "failed" only after an
  explicit refusal or a proof.
- `queue_undirected`. The attempt is compared in `persist_canonical_journal`
  only, so a result without a direction is saved by a run that lost its claim and
  replaces the newer result. The hand-over document says old workers cannot
  write stale side effects.
- `review_manual_work`. A run holds its result back only while the current
  revision is approved. Over a saved correction, a rejection or a reopened draft
  it posts its own. The decision register says an AI result that arrives after
  manual intervention is not applied over the user's work.
- `queue_outage`. Two slots that meet the first AI outage at once both find no
  open episode, since a `select for update` locks no row that is not there, and
  both insert one. The unique index refuses the second, its error is not among
  the transient ones, and that document fails for good. The docstring says that
  documents join one episode atomically. Production has four slots.
- `intake_copy`. An upload writes no identity, so a delivery of an invoice that
  was uploaded before, as other bytes and not read yet, finds none and makes a
  second document. The design of the synchronisation says that an invoice that is
  already present makes no new one.

## 8 Known limits that no run shows

Seen while modelling, and true of the models too:

- `reconcile()` saves its copy of the invoice without a check; after another
  reconciler has closed the attempt this moves the projection from "sent" or
  "failed" back to "reconciliation_required", which no later call can leave. The
  attempt is not touched (`VerdictIsFinal`).
- `create_draft` does not make invoice numbers unique, and `reconcile()` asks the
  provider by the number and does not compare the ETTN it gets. With two drafts of
  one number the attempt of one may be closed as sent or failed on the answer about
  the other, even before its own slow sender submits it. `SentIsAccepted` is stated
  for this case, with numbers; `ImplementsDispatch` assumes that numbers are not shared.
- A sale confirmed by reconciliation is not linked to the accounting flow: the
  provider field the link asks for is written only by the receipt of `send()`.
- A job that reaches manual attention loses its episode id; after a reprocess it
  completes and leaves the episode open, against the decision register.
- With two slots or more, an episode can be closed between a run joining it
  (`RecordOutage`) and that run writing its wait: the document then waits on a
  recovered episode, until its own retry is due.
- A result held back replaces the content of the document record under an
  unchanged revision. A review that was asked for before and reads the record
  after passes the comparison of revisions and is made from content the reviewer
  has not seen.
- `save_review` accepts a decision on an approved revision without a reopen,
  which the decision register asks for; runs ignore the edit lease.
- A document whose run always kills its worker is claimed for ever; the code has
  no limit on claims, and `MaxAttempts` is the model's bound.
- An invoice that QNB delivers after the same bytes were uploaded, or after a run
  has read its ETTN in another copy, is refused by a
  unique key in `accept_source_document`, for good (before the ETTN was read, another
  copy is the second document of `intake_copy`): the synchronisation notes an
  error at every attempt, the cursor stays before that page, and no later page
  is listed. The product plan has an independently received format attach as
  additional evidence. `EveryInvoiceStored` is stated for content that can be
  accepted.
- Bytes that are only a supporting source of a document, uploaded again, make a
  second document. `OneDocumentPerIdentity` is about deliveries: what a user uploads
  has no identity.
- `save_uploaded_document_with_job` (`api/phase0_uploads.py`) reads identities in an
  uploaded XML and accepts it as a delivery is accepted, but no route calls it; the
  upload routes call `store_document_upload`, which is what `StoreUpload` models. Its
  key of issuer and invoice would not help: `services/document_identity.py` (57-66)
  puts it together in another order than the synchronisation (`qnb_efatura.py`
  1110-1114), so the two never meet.
- With two QNB workers a request may be taken over again and again, because
  manual runs do not renew their 15 minute lease.
- Two overlapping activations of different versions leave both active; the
  header of `learning_rule_repository.py` promises a single one.
- An upload for an old period is prepared, warned about and deleted by one tick.
  A source that joins a batch already resolved is never deleted, nor is one that
  joins between a claim and the resolution by an overlapping tick. A file whose
  unlink fails is marked deleted, and nothing tries again. The upload of a
  deleted source again keeps the deleted row, so the new file stays.
- `_complete_summary_splits` overwrites stated amounts by the exempt total; a stated
  payable total of 0 gives way to the total with taxes (Python's `or`); a
  result called derived may skip rates; sales entries drop a VAT line that is
  negative. `ExactSplitIsWhole` is about exact results.
- In the pool a 429 that answers late gives a slot disabled by a 401 a finite
  cooldown again. With other calls in flight a structured call may come back to
  a slot it has tried.
- The edit lease is read and written in separate transactions: two actors can be
  told they own it, a renewal undoes a takeover, and a draft is overwritten by a
  former owner. The plan of the pilot
  (`docs/superpowers/plans/2026-07-27-normalized-50-invoice-pilot-foundation.md`)
  asks for an atomic acquisition under a row lock. `OnlyStaleCallsIntrude` says
  how far this goes: only calls that overlap the grant of the lease.
- A payable total of "120,00 TL" under the currency code TRY is read by the
  reconciliation, which strips any currency, and not by the builder, which strips
  the header's code only: an invoice called exact is posted with a counterparty of
  0.00. The draft warns of it (`amount_invalid`), and `ExactDraftBalances` says
  no more than that.
- The draft takes the absolute value of every amount. An invoice with a negative
  line, or one whose last line becomes negative by the cent moved to it, is
  reconciled exactly and posted out of balance; the decision of an accountant
  may turn the side of a component as well. `ExactDraftBalances` is about amounts
  that are not negative and decisions that go along.
- An invoice without lines whose VAT base is a cent is within the tolerance of its
  empty lines: the cent is in the baseline, so the reconciliation may be exact, but
  there is no line to post it on. The proof of `ExactBalances` asked for the
  hypothesis that excludes this; the run has such an invoice.
- A balanced first draft with an account outside the chart may be replaced by an
  accepted repair that does not balance; if the second repair then fails, the
  report says so (`ReportIsTrue`), but the balanced draft is gone.
- A raising store call after a committed completion makes the handler write
  "retry_wait" over it: `Reopen` of `FencedTurns` is there for this step.

## 9 Not modelled

- *Authentication, sessions and portal access*: access control is left out of
  these models.
- *Pure functions on data*: accounting algorithms other than the VAT splits, the
  reconciliation of components and the sides of a draft; statements, parsing, exports, certificates, retry times. Their mistakes are
  within reach of unit tests; they make up most of the code by lines.
- *Sequential input and output*: the other AI pipelines, the QNB wire format, file storage,
  artifacts. The models take their outcomes as choices.
- *Single process or administrator*: rate and capacity counters, the JSON store,
  maintenance, the reference corpus, research.
- *No authority over the state*: frontend, read models, deployment. A restart is
  a crash in the models.
- *External*: PostgreSQL is modelled by what the statements rely on (row locks,
  read committed, unique keys, deadlock detection); the provider by the fate of a
  request.
