--------------------------- MODULE OutgoingInvoice ---------------------------
(***************************************************************************)
(* Outgoing invoices of one client: draft, approval, the idempotent send   *)
(* to the provider, reconciliation of an unknown outcome, and the link of  *)
(* a confirmed sale to the accounting document flow                        *)
(* (backend/app/domain/outgoing_invoices.py over the PostgreSQL store).    *)
(*                                                                         *)
(* Every API call is a process: an element of Approver, Sender or          *)
(* Reconciler makes one call.  Each step below is one transaction of the   *)
(* store or one provider request, which is the granularity at which two    *)
(* calls interleave.  A call that is refused before it writes anything     *)
(* leaves no trace and is simply not taken.  A send attempt is named by    *)
(* the Sender whose call created it (the code draws a uuid).               *)
(***************************************************************************)
EXTENDS Naturals

CONSTANTS Invoice, Key, Approver, Sender, Reconciler,
          Number,
          numberOf,      \* the invoice_no of each draft, which nothing makes unique
          None,          \* no attempt, no owner
          StoreFaults    \* BOOLEAN: may a store call raise and leave its caller alive

Caller == Approver \cup Sender \cup Reconciler

ASSUME CallersDisjoint ==
  /\ None \notin Caller \cup Invoice \cup Key
  /\ Approver \cap Sender = {}
  /\ Approver \cap Reconciler = {}
  /\ Sender \cap Reconciler = {}
  /\ StoreFaults \in BOOLEAN

ASSUME NumberAssumption == numberOf \in [Invoice -> Number]

VARIABLES
  invoice,   \* the outgoing_invoice record, the projection the API shows
  sendKey,   \* outgoing_invoice_send_key: the attempt a key is bound to
  attempt,   \* the outgoing_invoice_send_attempt records
  call,      \* the local state of every API call
  request,   \* at the provider: the fate of the attempt's mutating request
  submits,   \* mutating provider requests made for an invoice
  source     \* attempts whose UBL was queued as a canonical sales source

vars == <<invoice, sendKey, attempt, call, request, submits, source>>

Unresolved == "reconciliation_required"
Closed     == {"sent", "failed"}
Verdict    == Closed \cup {Unresolved}

InvoiceRecord ==
  [status   : {"absent", "draft", "approved", "sending"} \cup Verdict,
   attempt  : Sender \cup {None},     \* current_attempt_id
   provider : BOOLEAN,                \* the receipt's provider field is present
   ref      : BOOLEAN]                \* canonical_document_ref is present

AttemptState ==
  {"none", "claimed", "preflight_passed", "request_started", "reconciling"} \cup Verdict

AttemptRecord ==
  [state   : AttemptState,
   invoice : Invoice \cup {None},
   key     : Key \cup {None},
   started : BOOLEAN,                        \* has a request_started event
   stale   : BOOLEAN,                        \* that event is older than 120 s
   owner   : Reconciler \cup {None},
   lease   : {"none", "active", "expired"}]

NoInvoice == [status |-> "absent", attempt |-> None, provider |-> FALSE, ref |-> FALSE]

NoAttempt ==
  [state |-> "none", invoice |-> None, key |-> None, started |-> FALSE,
   stale |-> FALSE, owner |-> None, lease |-> "none"]

CallStep ==
  {"idle", "claimed", "preflight", "started", "submitted", "finalizing",
   "loading", "claiming", "query", "link", "save", "write", "done", "crashed"}

CallRecord ==
  [pc      : CallStep,
   invoice : Invoice \cup {None},
   attempt : Sender \cup {None},
   copy    : InvoiceRecord,            \* the invoice dict the call holds
   base    : InvoiceRecord,            \* what save_outgoing_invoice read to merge into
   stale   : BOOLEAN,                  \* the attempt was stale when the call looked
   outcome : Verdict \cup {"none"}]

NoCall ==
  [pc |-> "idle", invoice |-> None, attempt |-> None, copy |-> NoInvoice,
   base |-> NoInvoice, stale |-> FALSE, outcome |-> "none"]

Ended(how) == [NoCall EXCEPT !.pc = how]

TypeOK ==
  /\ invoice \in [Invoice -> InvoiceRecord]
  /\ sendKey \in [Key -> Sender \cup {None}]
  /\ attempt \in [Sender -> AttemptRecord]
  /\ call \in [Caller -> CallRecord]
  /\ request \in [Sender -> {"none", "inflight", "lost", "accepted", "rejected"}]
  /\ submits \in [Invoice -> Nat]
  /\ source \in SUBSET Sender

Init ==
  /\ invoice = [i \in Invoice |-> NoInvoice]
  /\ sendKey = [k \in Key |-> None]
  /\ attempt = [s \in Sender |-> NoAttempt]
  /\ call = [c \in Caller |-> NoCall]
  /\ request = [s \in Sender |-> "none"]
  /\ submits = [i \in Invoice |-> 0]
  /\ source = {}

At(c, pc) == call[c].pc = pc

SetCall(c, to)    == call' = [call EXCEPT ![c] = to]
SetAttempt(a, to) == attempt' = [attempt EXCEPT ![a] = to]
SetInvoice(i, to) == invoice' = [invoice EXCEPT ![i] = to]

Goto(c, pc) == SetCall(c, [call[c] EXCEPT !.pc = pc])

-----------------------------------------------------------------------------
(* save_outgoing_invoice: an unlocked read of the stored record, then an   *)
(* upsert of {**existing, **invoice} in a transaction of its own.          *)

Merge(existing, copy) ==
  [status   |-> copy.status,
   attempt  |-> IF copy.attempt = None THEN existing.attempt ELSE copy.attempt,
   provider |-> existing.provider \/ copy.provider,
   ref      |-> existing.ref \/ copy.ref]

SaveRead(c) ==
  /\ At(c, "save")
  /\ SetCall(c, [call[c] EXCEPT !.pc = "write", !.base = invoice[call[c].invoice]])
  /\ UNCHANGED <<invoice, sendKey, attempt, request, submits, source>>

\* reconcile() goes on with the saved invoice; approve() and the link end here
AfterSave(c, saved) ==
  IF saved.status = Unresolved
  THEN [call[c] EXCEPT !.pc = "query", !.copy = saved, !.base = NoInvoice]
  ELSE Ended("done")

SaveWrite(c) ==
  /\ At(c, "write")
  /\ LET saved == Merge(call[c].base, call[c].copy)
     IN SetInvoice(call[c].invoice, saved) /\ SetCall(c, AfterSave(c, saved))
  /\ UNCHANGED <<sendKey, attempt, request, submits, source>>

-----------------------------------------------------------------------------
(* Draft and approval.                                                     *)

CreateDraft(i) ==
  /\ invoice[i].status = "absent"
  /\ SetInvoice(i, [invoice[i] EXCEPT !.status = "draft"])
  /\ UNCHANGED <<sendKey, attempt, call, request, submits, source>>

\* approve(): read and check, freeze the UBL in the local copy, then save it
Approve(p, i) ==
  /\ At(p, "idle")
  /\ invoice[i].status = "draft"
  /\ SetCall(p, [NoCall EXCEPT !.pc = "save", !.invoice = i,
                               !.copy = [invoice[i] EXCEPT !.status = "approved"]])
  /\ UNCHANGED <<invoice, sendKey, attempt, request, submits, source>>

-----------------------------------------------------------------------------
(* send().  A second caller with a bound key only waits for the projection *)
(* to leave "sending" and returns it; it writes nothing.                   *)

\* claim_outgoing_invoice_attempt: key, attempt and approved -> sending in
\* one transaction that holds the invoice row
TakeClaim(s, i, k) ==
  /\ LET claimed == [invoice[i] EXCEPT !.status = "sending", !.attempt = s]
     IN /\ SetInvoice(i, claimed)
        /\ SetCall(s, [NoCall EXCEPT !.pc = "claimed", !.invoice = i, !.attempt = s,
                                     !.copy = claimed])
  /\ sendKey' = [sendKey EXCEPT ![k] = s]
  /\ SetAttempt(s, [NoAttempt EXCEPT !.state = "claimed", !.invoice = i, !.key = k])
  /\ UNCHANGED <<request, submits, source>>

ClaimAnyStatus(s, i, k) ==                            \* mutant: status not checked
  At(s, "idle") /\ sendKey[k] = None /\ invoice[i].status # "absent" /\ TakeClaim(s, i, k)

\* The key is free and the invoice approved, under the locks of the claim
Claim(s, i, k) ==
  /\ At(s, "idle")
  /\ sendKey[k] = None
  /\ invoice[i].status = "approved"
  /\ TakeClaim(s, i, k)

\* append_outgoing_invoice_attempt_event: sets the state whatever it was
Append(s, state) ==
  SetAttempt(s, [attempt[s] EXCEPT !.state = state, !.owner = None, !.lease = "none",
                                   !.started = @ \/ state = "request_started"])

PassPreflight(s) ==
  /\ At(s, "claimed")
  /\ Append(s, "preflight_passed")
  /\ Goto(s, "preflight")
  /\ UNCHANGED <<invoice, sendKey, request, submits, source>>

StartUnrecorded(s) ==                                 \* mutant: event not appended
  /\ At(s, "preflight")
  /\ Goto(s, "started")
  /\ UNCHANGED <<invoice, sendKey, attempt, request, submits, source>>

\* request_started is committed before the request may leave
StartRequest(s) ==
  /\ At(s, "preflight")
  /\ Append(s, "request_started")
  /\ Goto(s, "started")
  /\ UNCHANGED <<invoice, sendKey, request, submits, source>>

Submit(s) ==
  /\ At(s, "started")
  /\ request' = [request EXCEPT ![s] = "inflight"]
  /\ submits' = [submits EXCEPT ![call[s].invoice] = @ + 1]
  /\ Goto(s, "submitted")
  /\ UNCHANGED <<invoice, sendKey, attempt, source>>

Conclude(c, outcome) ==
  SetCall(c, [call[c] EXCEPT !.pc = "finalizing", !.outcome = outcome])

\* provider.send raises before its request leaves (connection no longer active)
RefuseLocally(s) ==
  /\ At(s, "started")
  /\ Conclude(s, "failed")
  /\ UNCHANGED <<invoice, sendKey, attempt, request, submits, source>>

\* The answer arrives: a receipt, whose provider field goes into the local copy,
\* or an explicit refusal raised as an error
Answer(s) ==
  /\ At(s, "submitted")
  /\ \/ /\ request[s] = "accepted"
        /\ SetCall(s, [call[s] EXCEPT !.pc = "finalizing", !.outcome = "sent",
                                      !.copy = [@ EXCEPT !.provider = TRUE]])
     \/ request[s] = "rejected" /\ Conclude(s, "failed")
  /\ UNCHANGED <<invoice, sendKey, attempt, request, submits, source>>

LoseAnswerAsSent(s) ==                                \* mutant: timeout taken for a receipt
  /\ At(s, "submitted")
  /\ Conclude(s, "sent")
  /\ UNCHANGED <<invoice, sendKey, attempt, request, submits, source>>

LoseAnswerAndRetry(s) ==                              \* mutant: transport retries
  /\ At(s, "submitted")
  /\ request[s] = "lost"
  /\ Goto(s, "started")
  /\ UNCHANGED <<invoice, sendKey, attempt, request, submits, source>>

\* Timeout, transport error, HTTP 429/5xx or an unreadable answer, whatever
\* became of the request: OutgoingProviderOutcomeUnknown
LoseAnswer(s) ==
  /\ At(s, "submitted")
  /\ Conclude(s, Unresolved)
  /\ UNCHANGED <<invoice, sendKey, attempt, request, submits, source>>

CanFinalizeAnyState(c) ==                             \* mutant: expected_state ignored
  c \in Sender \/ attempt[call[c].attempt].owner = c

CanFinalizeAnyOwner(c) ==                             \* mutant: owner ignored
  LET a == attempt[call[c].attempt]
  IN a.state = IF c \in Sender THEN "request_started" ELSE "reconciling"

\* The expected state (and owner) that the finalize transaction insists on
CanFinalize(c) ==
  LET a == attempt[call[c].attempt]
  IN IF c \in Sender THEN a.state = "request_started"
     ELSE a.state = "reconciling" /\ a.owner = c

CloseAttempt(a, state) ==
  SetAttempt(a, [attempt[a] EXCEPT !.state = state, !.owner = None, !.lease = "none"])

Finalized(c) == [call[c].copy EXCEPT !.status = call[c].outcome]

AfterFinalizeLinkAll(c) ==                            \* mutant: outcome not checked
  [call[c] EXCEPT !.pc = "link", !.copy = Finalized(c)]

\* Only a receipt of send() put the provider field there that the link asks for
AfterFinalize(c) ==
  LET saved == Finalized(c)
  IN IF saved.status = "sent" /\ saved.provider /\ ~saved.ref
     THEN [call[c] EXCEPT !.pc = "link", !.copy = saved]
     ELSE Ended("done")

\* finalize_outgoing_invoice_attempt_and_invoice: attempt and projection change
\* together or not at all
CloseBoth(c) ==
  /\ CloseAttempt(call[c].attempt, call[c].outcome)
  /\ SetInvoice(call[c].invoice, Finalized(c))

Finalize(c) ==
  /\ At(c, "finalizing")
  /\ IF CanFinalize(c)
     THEN CloseBoth(c) /\ SetCall(c, AfterFinalize(c))
     ELSE /\ SetCall(c, Ended("done"))
          /\ UNCHANGED <<invoice, attempt>>
  /\ UNCHANGED <<sendKey, request, submits, source>>

\* An append, or the finalize of a receipt, raises, with or without its
\* transaction committed: the catch-all handler of send() goes on to finalize
\* the attempt as failed
StoreRaises(s) ==
  /\ StoreFaults
  /\ \/ /\ At(s, "claimed")
        /\ Append(s, "preflight_passed") \/ UNCHANGED attempt
        /\ UNCHANGED invoice
     \/ /\ At(s, "preflight")
        /\ Append(s, "request_started") \/ UNCHANGED attempt
        /\ UNCHANGED invoice
     \/ /\ At(s, "finalizing") /\ call[s].outcome = "sent"
        /\ (CanFinalize(s) /\ CloseBoth(s)) \/ UNCHANGED <<attempt, invoice>>
  /\ Conclude(s, "failed")
  /\ UNCHANGED <<sendKey, request, submits, source>>

-----------------------------------------------------------------------------
(* _link_confirmed_sales_source: queue the UBL as a document, then save    *)
(* its reference; a failing upload is only noted in the projection.        *)

Link(c) ==
  /\ At(c, "link")
  /\ source' = source \cup {call[c].attempt}
  /\ SetCall(c, [call[c] EXCEPT !.pc = "save", !.copy = [@ EXCEPT !.ref = TRUE]])
  /\ UNCHANGED <<invoice, sendKey, attempt, request, submits>>

LinkRaises(c) ==
  /\ StoreFaults
  /\ At(c, "link")
  /\ source' \in {source, source \cup {call[c].attempt}}
  /\ Goto(c, "save")
  /\ UNCHANGED <<invoice, sendKey, attempt, request, submits>>

-----------------------------------------------------------------------------
(* reconcile().                                                            *)

ReadInvoice(r, i) ==
  /\ At(r, "idle")
  /\ invoice[i].status \in {Unresolved, "sending"}
  /\ SetCall(r, [NoCall EXCEPT !.pc = "loading", !.invoice = i,
                               !.attempt = invoice[i].attempt, !.copy = invoice[i]])
  /\ UNCHANGED <<invoice, sendKey, attempt, request, submits, source>>

\* The attempt must exist and have a request_started event; stale_before is fixed here
LoadAttempt(r) ==
  /\ At(r, "loading")
  /\ LET a == call[r].attempt
         submitted == a # None /\ attempt[a].started
     IN SetCall(r, IF submitted
                   THEN [call[r] EXCEPT !.pc = "claiming", !.stale = attempt[a].stale]
                   ELSE Ended("done"))
  /\ UNCHANGED <<invoice, sendKey, attempt, request, submits, source>>

ReclaimableDoubtOnly(a, sawStale) ==                  \* mutant: crashed send not covered
  a.lease # "active" /\ a.state \in {Unresolved, "reconciling"}

\* claim_outgoing_invoice_reconciliation
Reclaimable(a, sawStale) ==
  /\ a.lease # "active"
  /\ \/ a.state = "request_started" /\ sawStale
     \/ a.state \in {Unresolved, "reconciling"}

TakeLease(r, copy) ==
  /\ Reclaimable(attempt[call[r].attempt], call[r].stale)
  /\ SetAttempt(call[r].attempt,
       [attempt[call[r].attempt] EXCEPT !.state = "reconciling", !.owner = r,
                                        !.lease = "active"])
  /\ SetCall(r, [call[r] EXCEPT !.copy = copy,
                    !.pc = IF call[r].copy.status = "sending" THEN "save" ELSE "query"])

ClaimOrSpin(r) ==                                     \* mutant: retries while refused
  /\ At(r, "claiming")
  /\ TakeLease(r, [call[r].copy EXCEPT !.status = Unresolved])
  /\ UNCHANGED <<invoice, sendKey, request, submits, source>>

ClaimForgetsAttempt(r) ==                             \* mutant: current_attempt_id not carried
  /\ At(r, "claiming")
  /\ TakeLease(r, [NoInvoice EXCEPT !.status = Unresolved])
  /\ UNCHANGED <<invoice, sendKey, request, submits, source>>

\* The claim under the attempt's row lock; a refused call returns the invoice
ClaimReconciliation(r) ==
  /\ At(r, "claiming")
  /\ \/ TakeLease(r, [call[r].copy EXCEPT !.status = Unresolved])
     \/ /\ ~Reclaimable(attempt[call[r].attempt], call[r].stale)
        /\ SetCall(r, Ended("done"))
        /\ UNCHANGED attempt
  /\ UNCHANGED <<invoice, sendKey, request, submits, source>>

\* What a read-only query by the invoice's number may answer: the state of a
\* submission under that number, whichever invoice it was made for - the ETTN in the
\* answer is only noted as evidence - or nothing conclusive
Namesakes(i) ==
  {s \in Sender : attempt[s].invoice \in Invoice /\ numberOf[attempt[s].invoice] = numberOf[i]}

QueryAnswer(i) ==
  {Unresolved}
    \cup {"sent" : s \in {t \in Namesakes(i) : request[t] = "accepted"}}
    \cup {"failed" : s \in {t \in Namesakes(i) : request[t] = "rejected"}}

Query(r) ==
  /\ At(r, "query")
  /\ \E outcome \in QueryAnswer(call[r].invoice) : Conclude(r, outcome)
  /\ UNCHANGED <<invoice, sendKey, attempt, request, submits, source>>

\* provider.reconcile raises: finalize_outgoing_invoice_attempt puts the attempt
\* back, if r still owns it, and leaves the projection alone
QueryRaises(r) ==
  /\ At(r, "query")
  /\ IF CanFinalize(r) THEN CloseAttempt(call[r].attempt, Unresolved)
                       ELSE UNCHANGED attempt
  /\ SetCall(r, Ended("done"))
  /\ UNCHANGED <<invoice, sendKey, request, submits, source>>

-----------------------------------------------------------------------------
(* The environment: the provider, time, and the death of an API process.   *)

\* The provider's side of a request (external): it takes it, refuses it, or
\* never sees it
ProviderDecides(s) ==
  /\ request[s] = "inflight"
  /\ \E fate \in {"accepted", "rejected", "lost"} :
       request' = [request EXCEPT ![s] = fate]
  /\ UNCHANGED <<invoice, sendKey, attempt, call, submits, source>>

\* reconciliation_stale_seconds (120 s) pass after request_started
BecomeStale(s) ==
  /\ attempt[s].state = "request_started"
  /\ ~attempt[s].stale
  /\ SetAttempt(s, [attempt[s] EXCEPT !.stale = TRUE])
  /\ UNCHANGED <<invoice, sendKey, call, request, submits, source>>

\* reconciliation_lease_seconds (60 s) pass after the claim
ExpireLease(s) ==
  /\ attempt[s].lease = "active"
  /\ SetAttempt(s, [attempt[s] EXCEPT !.lease = "expired"])
  /\ UNCHANGED <<invoice, sendKey, call, request, submits, source>>

Crash(c) ==
  /\ call[c].pc \notin {"idle", "done", "crashed"}
  /\ SetCall(c, Ended("crashed"))
  /\ UNCHANGED <<invoice, sendKey, attempt, request, submits, source>>

-----------------------------------------------------------------------------
SenderStep(s) ==
  \/ \E i \in Invoice, k \in Key : Claim(s, i, k)
  \/ PassPreflight(s) \/ StartRequest(s) \/ Submit(s) \/ RefuseLocally(s)
  \/ Answer(s) \/ LoseAnswer(s) \/ StoreRaises(s)
  \/ ProviderDecides(s) \/ BecomeStale(s) \/ ExpireLease(s)

ReconcilerStep(r) ==
  \/ \E i \in Invoice : ReadInvoice(r, i)
  \/ LoadAttempt(r) \/ ClaimReconciliation(r) \/ Query(r) \/ QueryRaises(r)

CallerStep(c) == SaveRead(c) \/ SaveWrite(c) \/ Crash(c)

ResultStep(c) == Finalize(c) \/ Link(c) \/ LinkRaises(c)

Next ==
  \/ \E i \in Invoice : CreateDraft(i)
  \/ \E p \in Approver, i \in Invoice : Approve(p, i)
  \/ \E s \in Sender : SenderStep(s)
  \/ \E r \in Reconciler : ReconcilerStep(r)
  \/ \E c \in Sender \cup Reconciler : ResultStep(c)
  \/ \E c \in Caller : CallerStep(c)

Spec == Init /\ [][Next]_vars

-----------------------------------------------------------------------------
(* Safety.                                                                 *)

Attempts(i) == {s \in Sender : attempt[s].invoice = i}
Accepted(i) == \E s \in Attempts(i) : request[s] = "accepted"
Taken(i)    == \E s \in Namesakes(i) : request[s] = "accepted"

\* A mutating provider request is on record before it is made, so a crash
\* can never leave a request that reconcile() refuses to look at
\* (request_started is appended before provider.send is called).
RequestOnRecord ==
  \A s \in Sender :
    request[s] # "none" =>
      /\ attempt[s].started
      /\ attempt[s].state \in {"request_started", "reconciling"} \cup Verdict

\* "sent" is only ever written when the provider took a document of the invoice's
\* number, whichever call writes it and however late the answer came: this one, when no
\* other draft has the number.
SentIsAccepted ==
  \A s \in Sender : attempt[s].state = "sent" => Taken(attempt[s].invoice)

\* "failed" is only written when the provider did not take the document.
FailedIsNotAccepted ==
  \A s \in Sender : attempt[s].state = "failed" => request[s] # "accepted"

\* One invoice reaches the provider at most once, whatever keys, callers,
\* crashes and reconciliations there are.
OneSubmission == \A i \in Invoice : submits[i] <= 1

\* An idempotency key never names two attempts.
KeyNamesOneAttempt ==
  \A s, t \in Sender :
    attempt[s].key = attempt[t].key /\ attempt[s].key # None => s = t

\* An open attempt whose request is out, and which nobody works on any more,
\* can still be picked up: the projection names it in a state that reconcile()
\* accepts.
OpenAttemptIsReachable ==
  \A s \in Sender :
    (request[s] # "none" /\ attempt[s].state \notin Closed) =>
      /\ invoice[attempt[s].invoice].attempt = s
      /\ invoice[attempt[s].invoice].status \in {"sending", Unresolved}

\* Only a document the provider took enters the accounting flow, once - and this very
\* one, whatever was answered for another invoice of its number: the link asks for the
\* receipt of the send.
SourceIsConfirmedSale ==
  /\ \A s \in source : Accepted(attempt[s].invoice)
  /\ \A s, t \in source : attempt[s].invoice = attempt[t].invoice => s = t

-----------------------------------------------------------------------------
(* Action properties.                                                      *)

\* A verdict is final: no late sender, expired owner or retry rewrites it.
VerdictIsFinal ==
  [][\A s \in Sender :
       attempt[s].state \in Closed => attempt'[s].state = attempt[s].state]_vars

\* A reconciliation ends by the hand of the owner on record, never by one
\* whose lease was taken over.
OnlyOwnerEndsReconciliation ==
  [][\A s \in Sender :
       (attempt[s].state = "reconciling" /\ attempt'[s].state # "reconciling")
         => \E r \in Reconciler :
              /\ attempt[s].owner = r
              /\ call[r].attempt = s
              /\ call'[r] # call[r]]_vars

-----------------------------------------------------------------------------
(* Liveness.  Time passes, the provider decides, and a running API process *)
(* keeps running or dies; nobody is obliged to call approve, send or       *)
(* reconcile.                                                              *)

StepOf(c) ==
  \/ SaveRead(c) \/ SaveWrite(c)
  \/ c \in Sender /\ (PassPreflight(c) \/ StartRequest(c) \/ Submit(c) \/ LoseAnswer(c))
  \/ c \in Reconciler /\ (LoadAttempt(c) \/ ClaimReconciliation(c) \/ Query(c))
  \/ c \in Sender \cup Reconciler /\ (Finalize(c) \/ Link(c))

Fairness ==
  /\ \A c \in Caller : WF_vars(StepOf(c))
  /\ \A s \in Sender : WF_vars(ExpireLease(s)) /\ WF_vars(BecomeStale(s))

FairSpec == Spec /\ Fairness

\* Every call comes to an end.
CallsEnd == \A c \in Caller : ~At(c, "idle") ~> call[c].pc \in {"done", "crashed"}

\* A request that went out is eventually closed or open to a new reconcile():
\* neither a dead sender nor a dead owner of the lease blocks it for good.
RequestCanBeReconciled ==
  \A s \in Sender :
    request[s] # "none" ~>
      \/ attempt[s].state \in Closed
      \/ Reclaimable(attempt[s], attempt[s].stale)

-----------------------------------------------------------------------------
(* What the send protocol promises: InvoiceDispatch, in which an invoice   *)
(* is dispatched once, and its outcome is open, in doubt or final.         *)

Phase(i) ==
  IF Attempts(i) = {}
  THEN "open"
  ELSE LET state == attempt[CHOOSE s \in Attempts(i) : TRUE].state
       IN IF state \in Closed THEN state
          ELSE IF state \in {Unresolved, "reconciling"} THEN "unresolved"
          ELSE "dispatching"

Dispatch == INSTANCE InvoiceDispatch
              WITH phase <- [i \in Invoice |-> Phase(i)], submitted <- submits

\* The protocol implements InvoiceDispatch as long as each invoice is approved by a
\* single call and has a number of its own: a query that finds another invoice of the
\* number decides an attempt whose request is still to leave.
ImplementsDispatch == Dispatch!Spec
=============================================================================
