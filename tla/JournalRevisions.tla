--------------------------- MODULE JournalRevisions ---------------------------
(***************************************************************************)
(* The journal of one document: worker runs that store a new draft, and    *)
(* reviewers who approve, correct, reject or reopen it against the         *)
(* revision they saw (normalized_accounting_repository.py under            *)
(* postgres_workflow_store.py).                                            *)
(*                                                                         *)
(* A run locks the documents row, then the processing_jobs row, then the   *)
(* journal; a review locks the journal first and the document when it      *)
(* writes.  A step below is therefore one row lock or one unlocked read,   *)
(* and what a transaction writes appears with its commit.  The edit lease, *)
(* which can only refuse a call before it reads anything, is left out.     *)
(***************************************************************************)
EXTENDS Naturals

CONSTANTS
  Run,           \* worker runs of the document, one at a time each
  Call,          \* review and reopen calls, one at a time each
  None,          \* no transaction, no run
  MaxRevision    \* bound: calls start below this revision, runs below the one before

ASSUME RevisionsAssumption ==
  /\ None \notin Run \cup Call
  /\ Run \cap Call = {}
  /\ MaxRevision \in Nat

VARIABLES
  journal,    \* journal_entries with its current journal_revisions row
  document,   \* documents: status and current_revision_no
  record,     \* the document workflow record: normalized_revision, and the
              \* revision whose content it shows (0: a result kept aside)
  holder,     \* the run that processing_jobs.current_attempt_id names
  lock,       \* the transaction that holds a row
  run,        \* the local state of every run
  call        \* the local state of every call

vars == <<journal, document, record, holder, lock, run, call>>

Row    == {"document", "job", "journal"}
Maker  == {"nobody", "worker", "review", "reopen"}
Status == {"review_required", "approved", "rejected", "working_draft"}

JournalRecord ==
  [no       : Nat,                  \* current_revision_no, 0 while there is no journal
   status   : Status \cup {"none"},
   by       : Maker,
   basis    : Nat,                  \* the revision its content was made from (0: a result
                                    \* kept aside)
   approved : BOOLEAN]              \* approved_revision_no is not null

DocumentStatus == Status \cup {"new", "no_posting_required", "reprocess_review_required"}

DocumentRecord == [status : DocumentStatus, revision : Nat]

RecordRecord == [revision : Nat, of : Nat]

Result == {"draft",        \* with journal lines
           "evidence",     \* without usable ones
           "no_posting"}   \* nothing to post

RunRecord ==
  [pc       : {"idle", "running", "locked", "fenced", "keeping", "posting"},
   revision : Nat,                         \* read with the document lock
   leave    : DocumentStatus]              \* documents.status when no revision is made

CallRecord ==
  [pc       : {"idle", "asked", "read", "writing"},
   kind     : {"review", "reopen"},
   expected : Nat,                         \* expected_revision
   base     : Nat]                         \* the content it has read, as in record.of

NoRun  == [pc |-> "idle", revision |-> 0, leave |-> "new"]
NoCall == [pc |-> "idle", kind |-> "review", expected |-> 0, base |-> 0]

TypeOK ==
  /\ journal \in JournalRecord
  /\ document \in DocumentRecord
  /\ record \in RecordRecord
  /\ holder \in Run \cup {None}
  /\ lock \in [Row -> Run \cup Call \cup {None}]
  /\ run \in [Run -> RunRecord]
  /\ call \in [Call -> CallRecord]

Init ==
  /\ journal = [no |-> 0, status |-> "none", by |-> "nobody", basis |-> 0, approved |-> FALSE]
  /\ document = [status |-> "new", revision |-> 0]
  /\ record = [revision |-> 0, of |-> 0]
  /\ holder = None
  /\ lock = [r \in Row |-> None]
  /\ run = [w \in Run |-> NoRun]
  /\ call = [c \in Call |-> NoCall]

Free(r)    == lock[r] = None
Lock(r, p) == lock' = [lock EXCEPT ![r] = p]

\* Commit and rollback give back every row the transaction holds
Release(p) == lock' = [r \in Row |-> IF lock[r] = p THEN None ELSE lock[r]]

SetRun(w, to)  == run' = [run EXCEPT ![w] = to]
SetCall(c, to) == call' = [call EXCEPT ![c] = to]

Approved == journal.approved /\ journal.status = "approved"

-----------------------------------------------------------------------------
(* A run: save_simulation_result with persist_canonical_journal.           *)

\* The claim of the job, which takes it from any earlier run
Start(w) ==
  /\ run[w].pc = "idle"
  /\ journal.no + 1 < MaxRevision
  /\ Free("job")
  /\ holder' = w
  /\ SetRun(w, [NoRun EXCEPT !.pc = "running"])
  /\ UNCHANGED <<journal, document, record, lock, call>>

Locked(w) == [run[w] EXCEPT !.pc = "locked", !.revision = document.revision]

ReadDocumentUnlocked(w) ==                            \* mutant: without "for update"
  /\ run[w].pc = "running"
  /\ SetRun(w, Locked(w))
  /\ UNCHANGED <<journal, document, record, holder, lock, call>>

LockDocument(w) ==
  /\ run[w].pc = "running"
  /\ Free("document")
  /\ Lock("document", w)
  /\ SetRun(w, Locked(w))
  /\ UNCHANGED <<journal, document, record, holder, call>>

CheckFenceKeepLocks(w) ==                             \* mutant: raises outside the transaction
  /\ run[w].pc = "locked"
  /\ Free("job")
  /\ IF holder = w THEN Lock("job", w) /\ SetRun(w, [run[w] EXCEPT !.pc = "fenced"])
                   ELSE UNCHANGED lock /\ SetRun(w, NoRun)
  /\ UNCHANGED <<journal, document, record, holder, call>>

CheckFenceUnlocked(w) ==                              \* mutant: job row without "for update"
  /\ run[w].pc = "locked"
  /\ IF holder = w THEN UNCHANGED lock /\ SetRun(w, [run[w] EXCEPT !.pc = "fenced"])
                   ELSE Release(w) /\ SetRun(w, NoRun)
  /\ UNCHANGED <<journal, document, record, holder, call>>

\* "stale processing attempt cannot persist accounting state"
CheckFence(w) ==
  /\ run[w].pc = "locked"
  /\ Free("job")
  /\ IF holder = w THEN Lock("job", w) /\ SetRun(w, [run[w] EXCEPT !.pc = "fenced"])
                   ELSE Release(w) /\ SetRun(w, NoRun)
  /\ UNCHANGED <<journal, document, record, holder, call>>

Leaving(w, status) == [run[w] EXCEPT !.pc = "keeping", !.leave = status]

\* The unlocked read of the journal, and what it makes of the result
ReadJournal(w, result) ==
  /\ run[w].pc = "fenced"
  /\ SetRun(w,
       CASE result = "no_posting" /\ journal.no = 0 -> Leaving(w, "no_posting_required")
         [] (result = "no_posting" /\ journal.no # 0) \/ (result # "no_posting" /\ Approved)
              -> Leaving(w, "reprocess_review_required")
         [] result = "evidence" /\ ~Approved -> Leaving(w, "review_required")
         [] OTHER -> [run[w] EXCEPT !.pc = "posting"])
  /\ UNCHANGED <<journal, document, record, holder, lock, call>>

KeepSilently(w) ==                                    \* mutant: held result not marked
  /\ run[w].pc = "keeping"
  /\ record' = [revision |-> run[w].revision, of |-> 0]
  /\ Release(w)
  /\ SetRun(w, NoRun)
  /\ UNCHANGED <<journal, document, holder, call>>

\* The result is kept aside, in the record only
Keep(w) ==
  /\ run[w].pc = "keeping"
  /\ document' = [document EXCEPT !.status = run[w].leave]
  /\ record' = [revision |-> run[w].revision, of |-> 0]
  /\ Release(w)
  /\ SetRun(w, NoRun)
  /\ UNCHANGED <<journal, holder, call>>

\* The upsert waits for the journal row and counts on from what it finds there
Post(w) ==
  /\ run[w].pc = "posting"
  /\ Free("journal")
  /\ LET new == journal.no + 1
     IN /\ journal' = [journal EXCEPT !.no = new, !.status = "review_required",
                                      !.by = "worker", !.basis = new]
        /\ document' = [status |-> "review_required", revision |-> new]
        /\ record' = [revision |-> new, of |-> new]
  /\ Release(w)
  /\ SetRun(w, NoRun)
  /\ UNCHANGED <<holder, call>>

-----------------------------------------------------------------------------
(* A call: store_review_decision or reopen_journal.                        *)

\* The client asks with the revision of its page.  The route of a review compares
\* it under the journal's lock while it acquires the edit lease; a page that is
\* out of date by then gets no further.
Ask(c, kind) ==
  /\ call[c].pc = "idle"
  /\ journal.no \in 1 .. MaxRevision - 1
  /\ kind = "review" => Free("journal")
  /\ SetCall(c, [NoCall EXCEPT !.pc = "asked", !.kind = kind, !.expected = journal.no])
  /\ UNCHANGED <<journal, document, record, holder, lock, run>>

\* The store reads the document record before the transaction begins.  What it finds
\* is the content of a revision or a result kept aside, which has no number of its
\* own: expected_revision cannot tell the two apart.
ReadRecord(c) ==
  /\ call[c].pc = "asked"
  /\ SetCall(c, [call[c] EXCEPT !.pc = "read", !.base = record.of])
  /\ UNCHANGED <<journal, document, record, holder, lock, run>>

LockJournalUnchecked(c) ==                            \* mutant: expected_revision not compared
  /\ call[c].pc = "read"
  /\ Free("journal")
  /\ Lock("journal", c)
  /\ SetCall(c, [call[c] EXCEPT !.pc = "writing"])
  /\ UNCHANGED <<journal, document, record, holder, run>>

\* _locked_current_journal; NormalizedRevisionConflict, or a reopen of what is
\* not approved
LockJournal(c) ==
  /\ call[c].pc = "read"
  /\ Free("journal")
  /\ IF /\ journal.no = call[c].expected
        /\ call[c].kind = "reopen" => journal.status = "approved"
     THEN Lock("journal", c) /\ SetCall(c, [call[c] EXCEPT !.pc = "writing"])
     ELSE UNCHANGED lock /\ SetCall(c, NoCall)
  /\ UNCHANGED <<journal, document, record, holder, run>>

\* A reviewed revision is made from the record that the call has read
Decided(c, status) ==
  [no       |-> journal.no + 1,
   status   |-> status,
   by       |-> "review",
   basis    |-> call[c].base,
   approved |-> journal.approved \/ status = "approved"]

\* A reopened one from the approved revision; approved_revision_no stays
Reopened ==
  [no       |-> journal.no + 1,
   status   |-> "working_draft",
   by       |-> "reopen",
   basis    |-> journal.no,
   approved |-> journal.approved]

WriteJournalOnly(c, new) ==                           \* mutant: document row not written
  /\ call[c].pc = "writing"
  /\ Free("document")
  /\ journal' = new
  /\ record' = [revision |-> new.no, of |-> new.no]
  /\ Release(c)
  /\ SetCall(c, NoCall)
  /\ UNCHANGED <<document, holder, run>>

\* Revision, journal, document and record in one commit
Write(c, new) ==
  /\ call[c].pc = "writing"
  /\ Free("document")
  /\ journal' = new
  /\ document' = [status |-> new.status, revision |-> new.no]
  /\ record' = [revision |-> new.no, of |-> new.no]
  /\ Release(c)
  /\ SetCall(c, NoCall)
  /\ UNCHANGED <<holder, run>>

\* save_review: an approval that fails a validation is saved as review_required
Decide(c, status) == call[c].kind = "review" /\ Write(c, Decided(c, status))

Reopen(c) == call[c].kind = "reopen" /\ Write(c, Reopened)

-----------------------------------------------------------------------------
(* Failures.                                                               *)

\* The process dies or the connection breaks: the transaction is rolled back
LoseRun(w) ==
  /\ run[w].pc # "idle"
  /\ Release(w)
  /\ SetRun(w, NoRun)
  /\ UNCHANGED <<journal, document, record, holder, call>>

LoseCall(c) ==
  /\ call[c].pc # "idle"
  /\ Release(c)
  /\ SetCall(c, NoCall)
  /\ UNCHANGED <<journal, document, record, holder, run>>

\* PostgreSQL finds the cycle and raises in one of the two transactions
Deadlocked(w, c) ==
  /\ run[w].pc = "posting" /\ lock["journal"] = c
  /\ call[c].pc = "writing" /\ lock["document"] = w

BreakDeadlock(w, c) ==
  /\ Deadlocked(w, c)
  /\ \/ Release(w) /\ SetRun(w, NoRun) /\ UNCHANGED call
     \/ Release(c) /\ SetCall(c, NoCall) /\ UNCHANGED run
  /\ UNCHANGED <<journal, document, record, holder>>

-----------------------------------------------------------------------------
RunStep(w) ==
  \/ LockDocument(w) \/ CheckFence(w) \/ \E result \in Result : ReadJournal(w, result)
  \/ Keep(w) \/ Post(w)

CallStep(c) ==
  \/ ReadRecord(c) \/ LockJournal(c) \/ Reopen(c)
  \/ \E status \in {"approved", "rejected", "review_required"} : Decide(c, status)

Next ==
  \/ \E w \in Run : Start(w) \/ RunStep(w) \/ LoseRun(w)
  \/ \E c \in Call : CallStep(c) \/ LoseCall(c) \/ \E kind \in {"review", "reopen"} : Ask(c, kind)
  \/ \E w \in Run, c \in Call : BreakDeadlock(w, c)

Spec == Init /\ [][Next]_vars

-----------------------------------------------------------------------------
(* Safety.                                                                 *)

\* The journal, the documents row and the workflow record agree on the current
\* revision, although runs and reviews lock their rows in opposite orders and a
\* run decides from an unlocked read.
RevisionsAgree == document.revision = journal.no /\ record.revision = journal.no

\* What the export takes (project_documents, approved_only) was approved by a
\* reviewer, is what the record shows, and no newer result of a run waits for review.
Exportable == journal.no # 0 /\ journal.status = "approved" /\ document.status = "approved"

ExportIsShown == Exportable => journal.by = "review" /\ record.of = journal.no

-----------------------------------------------------------------------------
(* Action properties.                                                      *)

\* A run never replaces an approved revision: its result is held for review.
ApprovedStands ==
  [][Approved /\ journal'.no # journal.no => journal'.by # "worker"]_vars

\* A run replaces only what a run has made, never the work of a reviewer.
ManualWorkStands ==
  [][journal'.no # journal.no /\ journal'.by = "worker"
       => journal.by \in {"nobody", "worker"}]_vars

-----------------------------------------------------------------------------
(* What the store promises: RevisionStore.                                 *)

Store == INSTANCE RevisionStore
           WITH status  <- document.status,
                aside   <- record.of # journal.no,
                working <- {w \in Run : run[w].pc # "idle"}

\* Every transaction takes effect at the instant of its commit, on the journal of that
\* instant, although a run checks the job and reads the journal earlier, a reviewer
\* reads the record before the transaction begins, and the two lock their rows in
\* opposite orders (normalized_accounting_repository.py 1152-1634 and 1636-1990).  A
\* review is made from the revision that it replaces, or from a result that is still
\* kept aside when it commits, never from anything older.
ImplementsStore == Store!Spec

-----------------------------------------------------------------------------
(* Liveness.  Transactions go on or are rolled back; a waiting one gets    *)
(* its row in the end, as PostgreSQL queues the waiters of a row, and      *)
(* finds every deadlock.  Nobody is obliged to start anything.             *)

Fairness ==
  /\ \A w \in Run : SF_vars(RunStep(w))
  /\ \A c \in Call : SF_vars(CallStep(c))
  /\ WF_vars(\E w \in Run, c \in Call : BreakDeadlock(w, c))

FairSpec == Spec /\ Fairness

\* Every run and every call comes to an end: no order of row locks strands them.
AllEnd ==
  /\ \A w \in Run : run[w].pc # "idle" ~> run[w].pc = "idle"
  /\ \A c \in Call : call[c].pc # "idle" ~> call[c].pc = "idle"
=============================================================================
