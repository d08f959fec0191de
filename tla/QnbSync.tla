------------------------------- MODULE QnbSync -------------------------------
(***************************************************************************)
(* Synchronisation of one client's incoming invoices from QNB              *)
(* (backend/app/qnb_worker.py, domain/qnb_scheduler.py and QnbSyncService  *)
(* of domain/qnb_efatura.py over the PostgreSQL workflow store).           *)
(*                                                                         *)
(* A worker process takes the oldest manual request, or else the client's  *)
(* schedule when it is due, under a lease named by a fresh token; lists    *)
(* the invoices after the cursor page by page, stores each one, moves the  *)
(* cursor past every page that went through, and completes under its       *)
(* token.  The listing and the storing do not look at the lease.           *)
(*                                                                         *)
(* The provider numbers its invoices 1, 2, ... (belgeSiraNo) and lists     *)
(* them in that order.  A lease token is named by the worker whose current *)
(* run drew it, or Gone once that run has ended without giving it back.    *)
(***************************************************************************)
EXTENDS Naturals

CONSTANTS
  Syncer,
  Poisons,       \* the choices of poison, sets of invoices
  NoOne, Gone,   \* no lease owner; the owner of a run that has died
  LastInvoice,   \* bound: invoices the provider will ever have
  PageSize,      \* QNB_LIST_PAGE_SIZE
  MaxPages,      \* pages of one run
  MaxDocuments,  \* downloads of one run
  MaxRequests,   \* bound: manual requests
  MaxSaves,      \* bound: saves of the schedule by an administrator
  MaxFaults      \* bound: crashes, errors and failed downloads

ASSUME SyncAssumption ==
  /\ {NoOne, Gone} \cap Syncer = {}
  /\ NoOne # Gone
  /\ LastInvoice \in Nat
  /\ Poisons \subseteq SUBSET (1 .. LastInvoice)
  /\ PageSize \in Nat \ {0}
  /\ MaxPages \in Nat \ {0}
  /\ MaxDocuments \in Nat \ {0}
  /\ {MaxRequests, MaxSaves, MaxFaults} \subseteq Nat

VARIABLES
  listed,    \* the provider has invoices 1 .. listed
  poison,    \* those whose content is never accepted: every attempt at them fails
  stored,    \* invoices with an accepted document
  cursor,    \* qnb_sync_cursor, 0 when empty
  policy,    \* qnb_sync_policy
  request,   \* qnb_sync_request, by order of creation
  sync,       \* the local state of every worker process
  faults     \* those that have happened

syncVars == <<listed, poison, stored, cursor, policy, request, sync, faults>>

Invoice == 1 .. LastInvoice
Holder  == Syncer \cup {NoOne, Gone}

PolicyRecord ==
  [enabled : BOOLEAN,
   due     : BOOLEAN,           \* next_run_at has passed
   holder  : Holder,            \* lease_owner and lease_token
   live    : BOOLEAN,           \* lease_expires_at has not passed
   saves   : 0 .. MaxSaves]     \* ghost: saves of an administrator so far

Finished == {"completed", "failed"}

RequestRecord ==
  [status   : {"none", "queued", "processing"} \cup Finished,
   backfill : BOOLEAN,          \* start_date or end_date is given
   holder   : Holder,
   live     : BOOLEAN]

SyncStep == {"idle", "start", "list", "page", "fetch", "ending"}

SyncRecord ==
  [pc         : SyncStep,
   request    : 0 .. MaxRequests,   \* the manual request, 0 on schedule
   backfill   : BOOLEAN,
   cursor     : 0 .. LastInvoice,   \* current_cursor
   next       : Nat,                \* next invoice of the page
   last       : Nat,                \* last_sequence_no of the page
   failed     : BOOLEAN,            \* page_failed
   downloaded : 0 .. MaxDocuments,
   pages      : 0 .. MaxPages,
   raised     : BOOLEAN,            \* an error has left sync_incoming_invoices
   lost       : BOOLEAN,            \* lease_lost
   saves      : 0 .. MaxSaves]      \* ghost: policy.saves when it was claimed

NoSync ==
  [pc |-> "idle", request |-> 0, backfill |-> FALSE, cursor |-> 0, next |-> 1, last |-> 0,
   failed |-> FALSE, downloaded |-> 0, pages |-> 0, raised |-> FALSE,
   lost |-> FALSE, saves |-> 0]

NoRequest == [status |-> "none", backfill |-> FALSE, holder |-> NoOne, live |-> FALSE]

Requests == 1 .. MaxRequests

SyncTypeOK ==
  /\ listed \in 0 .. LastInvoice
  /\ poison \subseteq Invoice
  /\ stored \subseteq Invoice
  /\ cursor \in 0 .. LastInvoice
  /\ policy \in PolicyRecord
  /\ request \in [Requests -> RequestRecord]
  /\ sync \in [Syncer -> SyncRecord]
  /\ faults \in 0 .. MaxFaults

SyncInit ==
  /\ listed = 0
  /\ poison \in Poisons
  /\ stored = {}
  /\ cursor = 0
  /\ \E enabled \in BOOLEAN :
       policy = [enabled |-> enabled, due |-> enabled, holder |-> NoOne, live |-> FALSE, saves |-> 0]
  /\ request = [r \in Requests |-> NoRequest]
  /\ sync = [w \in Syncer |-> NoSync]
  /\ faults = 0

SetSync(w, new) == sync' = [sync EXCEPT ![w] = new]

\* What is left of a run once its listing is over
Ending(w, raised) ==
  [NoSync EXCEPT !.pc = "ending", !.request = sync[w].request, !.raised = raised,
                !.lost = sync[w].lost, !.saves = sync[w].saves]

Scheduled(w) == sync[w].pc # "idle" /\ sync[w].request = 0

-----------------------------------------------------------------------------
(* The provider, the clock and the administrator.                          *)

Arrive ==
  /\ listed < LastInvoice
  /\ listed' = listed + 1
  /\ UNCHANGED <<poison, stored, cursor, policy, request, sync, faults>>

NextRunComes ==
  /\ policy.enabled /\ ~policy.due
  /\ policy' = [policy EXCEPT !.due = TRUE]
  /\ UNCHANGED <<listed, poison, stored, cursor, request, sync, faults>>

PolicyLeaseExpires ==
  /\ policy.live
  /\ policy' = [policy EXCEPT !.live = FALSE]
  /\ UNCHANGED <<listed, poison, stored, cursor, request, sync, faults>>

RequestLeaseExpires(r) ==
  /\ request[r].live
  /\ request' = [request EXCEPT ![r].live = FALSE]
  /\ UNCHANGED <<listed, poison, stored, cursor, policy, sync, faults>>

SavedPolicyKeepsLease(enabled) ==                     \* mutant: the lease fields not reset
  [policy EXCEPT !.enabled = enabled, !.due = enabled, !.saves = @ + 1]

\* normalize_qnb_sync_policy: next_run_at is now, or ten years away; the lease is
\* cleared, whoever holds it
SavedPolicy(enabled) ==
  [enabled |-> enabled, due |-> enabled, holder |-> NoOne, live |-> FALSE,
   saves |-> policy.saves + 1]

SavePolicy(enabled) ==
  /\ policy.saves < MaxSaves
  /\ policy' = SavedPolicy(enabled)
  /\ UNCHANGED <<listed, poison, stored, cursor, request, sync, faults>>

EnqueueRequest(r, backfill) ==
  /\ request[r].status = "none"
  /\ \A q \in Requests : q < r => request[q].status # "none"
  /\ request' = [request EXCEPT ![r] = [NoRequest EXCEPT !.status = "queued", !.backfill = backfill]]
  /\ UNCHANGED <<listed, poison, stored, cursor, policy, sync, faults>>

-----------------------------------------------------------------------------
(* Claims.                                                                 *)

RequestClaimableQueued(r) ==                          \* mutant: an expired lease is never taken over
  request[r].status = "queued"

RequestClaimable(r) ==
  \/ request[r].status = "queued"
  \/ request[r].status = "processing" /\ ~request[r].live

\* claim_next_qnb_sync_request: the oldest one
ClaimRequest(w, r) ==
  /\ sync[w].pc = "idle"
  /\ RequestClaimable(r)
  /\ \A q \in Requests : q < r => ~RequestClaimable(q)
  /\ request' = [request EXCEPT ![r].status = "processing", ![r].holder = w, ![r].live = TRUE]
  /\ SetSync(w, [NoSync EXCEPT !.pc = "start", !.request = r, !.backfill = request[r].backfill])
  /\ UNCHANGED <<listed, poison, stored, cursor, policy, faults>>

\* claim_due_qnb_sync_policy, after run_manual_sync_once has found nothing.  A request
\* that appears between the two calls might as well have appeared after them.
ClaimPolicy(w) ==
  /\ sync[w].pc = "idle"
  /\ \A r \in Requests : ~RequestClaimable(r)
  /\ policy.enabled /\ policy.due /\ ~policy.live
  /\ policy' = [policy EXCEPT !.holder = w, !.live = TRUE]
  /\ SetSync(w, [NoSync EXCEPT !.pc = "start", !.saves = policy.saves])
  /\ UNCHANGED <<listed, poison, stored, cursor, request, faults>>

\* Owner and token of the row, compared under its lock by a renewal and a completion
Owns(w) == policy.holder = w
OwnsRequest(w, r) == request[r].holder = w

\* The heartbeat thread of a scheduled run
RenewLease(w) ==
  /\ Scheduled(w)
  /\ ~sync[w].lost
  /\ IF Owns(w)
     THEN policy' = [policy EXCEPT !.live = TRUE] /\ UNCHANGED sync
     ELSE SetSync(w, [sync[w] EXCEPT !.lost = TRUE]) /\ UNCHANGED policy
  /\ UNCHANGED <<listed, poison, stored, cursor, request, faults>>

-----------------------------------------------------------------------------
(* One synchronisation.                                                    *)

\* The service reads the cursor once, unless dates were given
ReadCursor(w) ==
  /\ sync[w].pc = "start"
  /\ SetSync(w, [sync[w] EXCEPT !.pc = "list", !.cursor = IF sync[w].backfill THEN 0 ELSE cursor])
  /\ UNCHANGED <<listed, poison, stored, cursor, policy, request, faults>>

\* The invoices after current_cursor, or the first of the dated ones; an empty page
\* has no last_sequence_no, which leaves the cursor as it is
ListPage(w) ==
  /\ sync[w].pc = "list"
  /\ LET first == sync[w].cursor + 1
         last  == IF listed < sync[w].cursor + PageSize THEN listed ELSE sync[w].cursor + PageSize
     IN SetSync(w, [sync[w] EXCEPT !.pc = "page", !.pages = @ + 1, !.failed = FALSE,
                                 !.next = first, !.last = last])
  /\ UNCHANGED <<listed, poison, stored, cursor, policy, request, faults>>

\* _is_duplicate reads the workspace; nothing is locked until the document is accepted
LookAtInvoice(w) ==
  /\ sync[w].pc = "page"
  /\ sync[w].next <= sync[w].last
  /\ SetSync(w,
       IF sync[w].downloaded >= MaxDocuments
       THEN Ending(w, FALSE)
       ELSE IF sync[w].next \in stored
       THEN [sync[w] EXCEPT !.next = @ + 1]
       ELSE [sync[w] EXCEPT !.pc = "fetch"])
  /\ UNCHANGED <<listed, poison, stored, cursor, policy, request, faults>>

\* Downloaded and accepted, or joined to the document that another run accepted
\* in the meantime
StoreInvoice(w) ==
  /\ sync[w].pc = "fetch"
  /\ sync[w].next \notin poison
  /\ stored' = stored \cup {sync[w].next}
  /\ SetSync(w, [sync[w] EXCEPT !.pc = "page", !.next = @ + 1, !.downloaded = @ + 1])
  /\ UNCHANGED <<listed, poison, cursor, policy, request, faults>>

\* Content that cannot be accepted fails without trace.  Any other failure comes before
\* the acceptance is committed, or after it: the pipeline event has a transaction of
\* its own, and when that raises the invoice is stored and its page has failed
FailedAttempt(w) ==
  \/ sync[w].next \in poison /\ UNCHANGED <<stored, faults>>
  \/ /\ sync[w].next \notin poison
     /\ faults < MaxFaults
     /\ faults' = faults + 1
     /\ stored' \in {stored, stored \cup {sync[w].next}}

MissInvoice(w) ==                                     \* mutant: page_failed not set
  /\ sync[w].pc = "fetch"
  /\ FailedAttempt(w)
  /\ SetSync(w, [sync[w] EXCEPT !.pc = "page", !.next = @ + 1])
  /\ UNCHANGED <<listed, poison, cursor, policy, request>>

\* The error is noted and the rest of the page is still tried
FailInvoice(w) ==
  /\ sync[w].pc = "fetch"
  /\ FailedAttempt(w)
  /\ SetSync(w, [sync[w] EXCEPT !.pc = "page", !.next = @ + 1, !.failed = TRUE])
  /\ UNCHANGED <<listed, poison, cursor, policy, request>>

\* has_more, and neither dates nor max_pages end the run
GoesOn(w) ==
  /\ ~sync[w].failed /\ ~sync[w].backfill
  /\ sync[w].last - sync[w].cursor >= PageSize
  /\ sync[w].pages < MaxPages

\* The cursor that the page leaves: unmoved when an invoice failed, with dates, and
\* after an empty page
NextCursorAlways(w, old) ==                           \* mutant: of a failed page as well
  IF sync[w].backfill \/ sync[w].last <= sync[w].cursor THEN old ELSE sync[w].last

NextCursor(w, old) ==
  IF sync[w].failed \/ sync[w].backfill \/ sync[w].last <= sync[w].cursor THEN old ELSE sync[w].last

\* save_qnb_sync_cursor writes over whatever is there
EndPage(w) ==
  /\ sync[w].pc = "page"
  /\ sync[w].next > sync[w].last
  /\ cursor' = NextCursor(w, cursor)
  /\ SetSync(w, IF GoesOn(w)
               THEN [sync[w] EXCEPT !.pc = "list", !.cursor = NextCursor(w, @)]
               ELSE Ending(w, FALSE))
  /\ UNCHANGED <<listed, poison, stored, policy, request, faults>>

\* Anything else raises: credentials, a listing, the store; at the end the logout, the
\* record of the run or the reconciliation of statuses.  An attempt at an invoice
\* catches its own errors
Raise(w) ==
  /\ sync[w].pc \notin {"idle", "fetch"} /\ ~sync[w].raised
  /\ faults < MaxFaults
  /\ faults' = faults + 1
  /\ SetSync(w, Ending(w, TRUE))
  /\ UNCHANGED <<listed, poison, stored, cursor, policy, request>>

-----------------------------------------------------------------------------
(* Completions.                                                            *)

\* complete_qnb_sync_policy, unless the heartbeat has reported the lease lost; the
\* next run comes after the backoff
CompletePolicy(w) ==
  /\ sync[w].pc = "ending" /\ sync[w].request = 0
  /\ policy' = IF ~sync[w].lost /\ Owns(w)
               THEN [policy EXCEPT !.due = FALSE, !.holder = NoOne, !.live = FALSE]
               ELSE policy
  /\ SetSync(w, NoSync)
  /\ UNCHANGED <<listed, poison, stored, cursor, request, faults>>

CompleteRequestUnfenced(w) ==                         \* mutant: owner and token not compared
  /\ sync[w].pc = "ending" /\ sync[w].request # 0
  /\ LET answer == IF sync[w].raised THEN "failed" ELSE "completed"
     IN request' = [request EXCEPT ![sync[w].request].status = answer,
                                   ![sync[w].request].holder = NoOne,
                                   ![sync[w].request].live = FALSE]
  /\ SetSync(w, NoSync)
  /\ UNCHANGED <<listed, poison, stored, cursor, policy, faults>>

\* complete_qnb_sync_request: a run that did not raise completes the request, even
\* when it ended with partial_failed
CompleteRequest(w) ==
  /\ sync[w].pc = "ending" /\ sync[w].request # 0
  /\ LET r      == sync[w].request
         answer == IF sync[w].raised THEN "failed" ELSE "completed"
     IN request' = IF OwnsRequest(w, r)
                   THEN [request EXCEPT ![r].status = answer, ![r].holder = NoOne, ![r].live = FALSE]
                   ELSE request
  /\ SetSync(w, NoSync)
  /\ UNCHANGED <<listed, poison, stored, cursor, policy, faults>>

Crash(w) ==
  /\ sync[w].pc # "idle"
  /\ faults < MaxFaults
  /\ faults' = faults + 1
  /\ policy' = [policy EXCEPT !.holder = IF @ = w THEN Gone ELSE @]
  /\ request' = [r \in Requests |->
                   [request[r] EXCEPT !.holder = IF @ = w THEN Gone ELSE @]]
  /\ SetSync(w, NoSync)
  /\ UNCHANGED <<listed, poison, stored, cursor>>

-----------------------------------------------------------------------------
Environment ==
  \/ Arrive \/ NextRunComes \/ PolicyLeaseExpires
  \/ \E r \in Requests : RequestLeaseExpires(r)
  \/ \E enabled \in BOOLEAN : SavePolicy(enabled)
  \/ \E r \in Requests, backfill \in BOOLEAN : EnqueueRequest(r, backfill)

\* What a worker process does when nothing goes wrong
Work(w) ==
  \/ \E r \in Requests : ClaimRequest(w, r)
  \/ ClaimPolicy(w) \/ ReadCursor(w) \/ ListPage(w) \/ LookAtInvoice(w)
  \/ StoreInvoice(w) \/ EndPage(w) \/ CompletePolicy(w) \/ CompleteRequest(w)
  \/ FailInvoice(w) /\ sync[w].next \in poison

Trouble(w) == (FailInvoice(w) /\ sync[w].next \notin poison) \/ Raise(w) \/ Crash(w)

SyncNext ==
  \/ Environment
  \/ \E w \in Syncer : Work(w) \/ Trouble(w) \/ RenewLease(w)

SyncSpec == SyncInit /\ [][SyncNext]_syncVars

\* A worker process keeps turning its loop, and time passes for the backoff and
\* for a lease whose holder is gone
SyncFairness ==
  /\ \A w \in Syncer : WF_syncVars(Work(w))
  /\ WF_syncVars(NextRunComes)
  /\ WF_syncVars(policy.holder = Gone /\ PolicyLeaseExpires)
  /\ \A r \in Requests : WF_syncVars(request[r].holder = Gone /\ RequestLeaseExpires(r))

-----------------------------------------------------------------------------
(* Properties.                                                             *)

\* No invoice is skipped: every invoice the saved cursor has passed is stored,
\* whatever runs overlapped, died, were fenced off or found part of a page already
\* there (qnb_efatura.py 887-943; the next run lists only what follows the cursor)
NothingSkipped == \A i \in 1 .. cursor : i \in stored

\* A request that was answered keeps its answer: a run that outlived its 15 minute
\* lease changes neither the status nor the result that its successor recorded
FinalAnswerStands ==
  [][\A r \in Requests : request[r].status \in Finished => request'[r] = request[r]]_syncVars

\* An administrator's save stands: a run claimed before it neither reschedules the
\* policy nor ends the lease of a run claimed after it
SaveStands ==
  [][\A w \in Syncer :
       Scheduled(w) /\ sync[w].saves # policy.saves /\ sync'[w] # sync[w] => policy' = policy]_syncVars

\* While the schedule stays on, and the provider's content can be accepted, every
\* invoice the provider lists is stored in the end
EveryInvoiceStored ==
  (poison = {} /\ <>[]policy.enabled) => \A i \in Invoice : (i <= listed) ~> (i \in stored)

\* A manual request is answered in the end
RequestsEnd ==
  \A r \in Requests : (request[r].status = "queued") ~> (request[r].status \in Finished)
=============================================================================
