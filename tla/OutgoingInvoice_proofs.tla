------------------------ MODULE OutgoingInvoice_proofs ------------------------
(***************************************************************************)
(* Proofs about OutgoingInvoice for any sets of invoices, keys and calls.  *)
(***************************************************************************)
EXTENDS OutgoingInvoice, TLAPS

Dispatching == {"claimed", "preflight", "started", "submitted", "finalizing", "link"}
Reconciling == {"claiming", "save", "write", "query", "finalizing", "link"}

\* What the local state of call c may be: a running call holds an invoice, a
\* call with a verdict holds its outcome, and a sender and a reconciler hold
\* the attempt they act on.
CallOK(c, to) ==
  /\ to \in CallRecord
  /\ to.pc \notin {"idle", "done", "crashed"} => to.invoice \in Invoice
  /\ to.pc = "finalizing" => to.outcome \in Verdict
  /\ c \in Sender /\ to.pc \in Dispatching => to.attempt = c
  /\ c \in Reconciler /\ to.pc \in Reconciling => to.attempt \in Sender

TypeInv ==
  /\ TypeOK
  /\ \A c \in Caller : CallOK(c, call[c])

-----------------------------------------------------------------------------
(* The constants of the module and the helpers of its steps.               *)

LEMMA Records ==
  /\ NoInvoice \in InvoiceRecord
  /\ NoAttempt \in AttemptRecord
  /\ NoCall \in CallRecord
<1>1. NoInvoice \in InvoiceRecord
  BY DEF NoInvoice, InvoiceRecord
<1>2. NoAttempt \in AttemptRecord
  BY DEF NoAttempt, AttemptRecord, AttemptState
<1>3. NoCall \in CallRecord
  BY <1>1 DEF NoCall, CallRecord, CallStep
<1> QED BY <1>1, <1>2, <1>3

LEMMA EndedOK ==
  ASSUME NEW c, NEW how \in {"done", "crashed"}
  PROVE  CallOK(c, Ended(how))
<1>1. Ended(how) \in CallRecord
  BY Records DEF Ended, CallRecord, CallStep
<1>2. Ended(how).pc = how
  BY DEF Ended, NoCall
<1> QED
  BY <1>1, <1>2 DEF CallOK, Dispatching, Reconciling

\* A step that moves one call to an allowed local state.
LEMMA CallsTyped ==
  ASSUME TypeInv, NEW c \in Caller, NEW to, CallOK(c, to), SetCall(c, to)
  PROVE  /\ call' \in [Caller -> CallRecord]
         /\ \A d \in Caller : CallOK(d, call'[d])
  BY DEF TypeInv, TypeOK, SetCall, CallOK

LEMMA AttemptsTyped ==
  ASSUME TypeInv, NEW a, NEW to, a \in Sender => to \in AttemptRecord, SetAttempt(a, to)
  PROVE  attempt' \in [Sender -> AttemptRecord]
  BY DEF TypeInv, TypeOK, SetAttempt

LEMMA InvoicesTyped ==
  ASSUME TypeInv, NEW i, NEW to \in InvoiceRecord, SetInvoice(i, to)
  PROVE  invoice' \in [Invoice -> InvoiceRecord]
  BY DEF TypeInv, TypeOK, SetInvoice

LEMMA Kept ==
  ASSUME TypeInv, call' = call
  PROVE  \A d \in Caller : CallOK(d, call'[d])
  BY DEF TypeInv

\* Going on, and going on to finalize with an outcome, keep what the call holds.
LEMMA GotoOK ==
  ASSUME TypeInv, NEW c \in Caller, NEW pc \in CallStep \ {"finalizing"},
         call[c].pc \notin {"idle", "done", "crashed"},
         c \in Sender /\ pc \in Dispatching => call[c].attempt = c,
         c \in Reconciler /\ pc \in Reconciling => call[c].attempt \in Sender,
         Goto(c, pc)
  PROVE  /\ call' \in [Caller -> CallRecord]
         /\ \A d \in Caller : CallOK(d, call'[d])
<1>1. CallOK(c, [call[c] EXCEPT !.pc = pc])
  BY DEF TypeInv, TypeOK, CallOK, CallRecord
<1> QED
  BY <1>1, CallsTyped DEF Goto

LEMMA ConcludeOK ==
  ASSUME TypeInv, NEW c \in Caller, NEW outcome \in Verdict,
         call[c].pc \notin {"idle", "done", "crashed"},
         c \in Sender => call[c].attempt = c,
         c \in Reconciler => call[c].attempt \in Sender,
         Conclude(c, outcome)
  PROVE  /\ call' \in [Caller -> CallRecord]
         /\ \A d \in Caller : CallOK(d, call'[d])
<1>1. CallOK(c, [call[c] EXCEPT !.pc = "finalizing", !.outcome = outcome])
  BY DEF TypeInv, TypeOK, CallOK, CallRecord, CallStep
<1> QED
  BY <1>1, CallsTyped DEF Conclude

-----------------------------------------------------------------------------
(* Type correctness: Init and each action.                                 *)

LEMMA TypeInit == Init => TypeInv
<1> SUFFICES ASSUME Init PROVE TypeInv
  OBVIOUS
<1>1. TypeOK
  BY Records DEF Init, TypeOK
<1>2. \A c \in Caller : CallOK(c, call[c])
  BY Records DEF Init, CallOK, NoCall, Dispatching, Reconciling
<1> QED
  BY <1>1, <1>2 DEF TypeInv

\* save_outgoing_invoice, and the death of a call.
LEMMA TypeCaller ==
  ASSUME TypeInv, NEW c \in Caller, CallerStep(c)
  PROVE  TypeInv'
<1> USE CallersDisjoint
<1>0. call[c] \in CallRecord /\ CallOK(c, call[c])
  BY DEF TypeInv, TypeOK
<1>1. CASE SaveRead(c)
  <2> DEFINE to == [call[c] EXCEPT !.pc = "write", !.base = invoice[call[c].invoice]]
  <2>1. call[c].invoice \in Invoice
    BY <1>0, <1>1 DEF SaveRead, At, CallOK
  <2>2. CallOK(c, to)
    BY <1>0, <1>1, <2>1
       DEF SaveRead, At, CallOK, CallRecord, CallStep, TypeInv, TypeOK, Dispatching, Reconciling
  <2> QED
    BY <1>1, <2>2, CallsTyped DEF SaveRead, TypeInv, TypeOK
<1>2. CASE SaveWrite(c)
  <2> DEFINE saved == Merge(call[c].base, call[c].copy)
  <2>1. call[c].invoice \in Invoice
    BY <1>0, <1>2 DEF SaveWrite, At, CallOK
  <2>2. saved \in InvoiceRecord
    BY <1>0 DEF Merge, InvoiceRecord, CallRecord
  <2>3. CallOK(c, AfterSave(c, saved))
    <3>1. CASE saved.status = Unresolved
      BY <1>0, <1>2, <2>1, <2>2, <3>1, Records
         DEF AfterSave, SaveWrite, At, CallOK, CallRecord, CallStep, Dispatching, Reconciling
    <3>2. CASE saved.status # Unresolved
      BY <3>2, EndedOK DEF AfterSave
    <3> QED BY <3>1, <3>2
  <2>4. SetInvoice(call[c].invoice, saved) /\ SetCall(c, AfterSave(c, saved))
    BY <1>2 DEF SaveWrite
  <2> QED
    BY <1>2, <2>2, <2>3, <2>4, CallsTyped, InvoicesTyped DEF SaveWrite, TypeInv, TypeOK
<1>3. CASE Crash(c)
  BY <1>3, EndedOK, CallsTyped DEF Crash, TypeInv, TypeOK
<1> QED
  BY <1>1, <1>2, <1>3 DEF CallerStep

LEMMA TypeDraft ==
  ASSUME TypeInv, NEW i \in Invoice, CreateDraft(i)
  PROVE  TypeInv'
<1>1. [invoice[i] EXCEPT !.status = "draft"] \in InvoiceRecord
  BY DEF TypeInv, TypeOK, InvoiceRecord
<1> QED
  BY <1>1, InvoicesTyped, Kept DEF CreateDraft, TypeInv, TypeOK

LEMMA TypeApprove ==
  ASSUME TypeInv, NEW p \in Approver, NEW i \in Invoice, Approve(p, i)
  PROVE  TypeInv'
<1> DEFINE to == [NoCall EXCEPT !.pc = "save", !.invoice = i,
                                !.copy = [invoice[i] EXCEPT !.status = "approved"]]
<1>1. [invoice[i] EXCEPT !.status = "approved"] \in InvoiceRecord
  BY DEF TypeInv, TypeOK, InvoiceRecord
<1>2. CallOK(p, to)
  BY <1>1, Records, CallersDisjoint DEF CallOK, NoCall, CallRecord, CallStep, Dispatching, Reconciling
<1>3. p \in Caller
  BY DEF Caller
<1> QED
  BY <1>2, <1>3, CallsTyped DEF Approve, TypeInv, TypeOK

\* send(): claim, events, request, outcome.
LEMMA TypeClaim ==
  ASSUME TypeInv, NEW s \in Sender, NEW i \in Invoice, NEW k \in Key, Claim(s, i, k)
  PROVE  TypeInv'
<1> DEFINE claimed == [invoice[i] EXCEPT !.status = "sending", !.attempt = s]
           to == [NoCall EXCEPT !.pc = "claimed", !.invoice = i, !.attempt = s,
                                !.copy = claimed]
           new == [NoAttempt EXCEPT !.state = "claimed", !.invoice = i, !.key = k]
<1>1. claimed \in InvoiceRecord
  BY DEF TypeInv, TypeOK, InvoiceRecord
<1>2. CallOK(s, to)
  BY <1>1, Records, CallersDisjoint DEF CallOK, NoCall, CallRecord, CallStep, Dispatching
<1>3. new \in AttemptRecord
  BY Records DEF AttemptRecord, AttemptState
<1>4. /\ SetInvoice(i, claimed) /\ SetCall(s, to) /\ SetAttempt(s, new)
      /\ sendKey' = [sendKey EXCEPT ![k] = s]
      /\ UNCHANGED <<request, submits, source>>
  BY DEF Claim, TakeClaim
<1>5. s \in Caller
  BY DEF Caller
<1>6. sendKey' \in [Key -> Sender \cup {None}]
  BY <1>4 DEF TypeInv, TypeOK
<1> HIDE DEF claimed, to, new
<1>7. /\ invoice' \in [Invoice -> InvoiceRecord]
      /\ attempt' \in [Sender -> AttemptRecord]
      /\ call' \in [Caller -> CallRecord]
      /\ \A d \in Caller : CallOK(d, call'[d])
  BY <1>1, <1>2, <1>3, <1>4, <1>5, CallsTyped, AttemptsTyped, InvoicesTyped
<1> QED
  BY <1>4, <1>6, <1>7 DEF TypeInv, TypeOK

LEMMA AppendTyped ==
  ASSUME TypeInv, NEW s \in Sender, NEW state \in AttemptState, Append(s, state)
  PROVE  attempt' \in [Sender -> AttemptRecord]
<1>1. [attempt[s] EXCEPT !.state = state, !.owner = None, !.lease = "none",
         !.started = @ \/ state = "request_started"] \in AttemptRecord
  BY DEF TypeInv, TypeOK, AttemptRecord
<1> QED
  BY <1>1, AttemptsTyped DEF Append

LEMMA TypeSenderMoves ==
  ASSUME TypeInv, NEW s \in Sender,
         PassPreflight(s) \/ StartRequest(s) \/ Submit(s) \/ RefuseLocally(s)
           \/ Answer(s) \/ LoseAnswer(s)
  PROVE  TypeInv'
<1>0. /\ s \in Caller /\ call[s] \in CallRecord
      /\ s \notin Reconciler
      /\ call[s].pc \in Dispatching => call[s].attempt = s
      /\ call[s].pc \notin {"idle", "done", "crashed"} => call[s].invoice \in Invoice
  BY CallersDisjoint DEF TypeInv, TypeOK, CallOK, Caller
<1>1. CASE PassPreflight(s)
  <2>1. attempt' \in [Sender -> AttemptRecord]
    BY <1>1, AppendTyped DEF PassPreflight, AttemptState
  <2>2. At(s, "claimed") /\ Goto(s, "preflight")
    BY <1>1 DEF PassPreflight
  <2>3. call' \in [Caller -> CallRecord] /\ \A d \in Caller : CallOK(d, call'[d])
    BY <1>0, <2>2, GotoOK DEF At, CallStep, Dispatching
  <2> QED
    BY <1>1, <2>1, <2>3 DEF PassPreflight, TypeInv, TypeOK
<1>2. CASE StartRequest(s)
  <2>1. attempt' \in [Sender -> AttemptRecord]
    BY <1>2, AppendTyped DEF StartRequest, AttemptState
  <2>2. At(s, "preflight") /\ Goto(s, "started")
    BY <1>2 DEF StartRequest
  <2>3. call' \in [Caller -> CallRecord] /\ \A d \in Caller : CallOK(d, call'[d])
    BY <1>0, <2>2, GotoOK DEF At, CallStep, Dispatching
  <2> QED
    BY <1>2, <2>1, <2>3 DEF StartRequest, TypeInv, TypeOK
<1>3. CASE Submit(s)
  <2>1. At(s, "started") /\ Goto(s, "submitted")
    BY <1>3 DEF Submit
  <2>2. call' \in [Caller -> CallRecord] /\ \A d \in Caller : CallOK(d, call'[d])
    BY <1>0, <2>1, GotoOK DEF At, CallStep, Dispatching
  <2>3. submits' \in [Invoice -> Nat]
    <3>1. call[s].invoice \in Invoice /\ submits \in [Invoice -> Nat]
      BY <1>0, <2>1 DEF At, TypeInv, TypeOK
    <3>2. submits' = [submits EXCEPT ![call[s].invoice] = submits[call[s].invoice] + 1]
      BY <1>3 DEF Submit
    <3> QED BY <3>1, <3>2
  <2>4. request' \in [Sender -> {"none", "inflight", "lost", "accepted", "rejected"}]
    BY <1>3 DEF Submit, TypeInv, TypeOK
  <2> QED
    BY <1>3, <2>2, <2>3, <2>4 DEF Submit, TypeInv, TypeOK
<1>4. CASE RefuseLocally(s) \/ LoseAnswer(s) \/ (Answer(s) /\ request[s] = "rejected")
  <2>1. PICK outcome \in Verdict : Conclude(s, outcome)
    BY <1>4 DEF RefuseLocally, LoseAnswer, Answer, Conclude, SetCall, Verdict, Closed
  <2>2. call[s].pc \in {"started", "submitted"}
    BY <1>4 DEF RefuseLocally, LoseAnswer, Answer, At
  <2>3. call' \in [Caller -> CallRecord] /\ \A d \in Caller : CallOK(d, call'[d])
    BY <1>0, <2>1, <2>2, ConcludeOK DEF Dispatching
  <2>4. UNCHANGED <<invoice, sendKey, attempt, request, submits, source>>
    BY <1>4 DEF RefuseLocally, LoseAnswer, Answer
  <2> QED
    BY <2>3, <2>4 DEF TypeInv, TypeOK
<1>5. CASE Answer(s) /\ request[s] # "rejected"
  <2> DEFINE copy == [call[s].copy EXCEPT !.provider = TRUE]
             to == [call[s] EXCEPT !.pc = "finalizing", !.outcome = "sent", !.copy = copy]
  <2>1. /\ At(s, "submitted") /\ SetCall(s, to)
        /\ UNCHANGED <<invoice, sendKey, attempt, request, submits, source>>
    BY <1>5 DEF Answer
  <2>2. copy \in InvoiceRecord
    BY <1>0 DEF CallRecord, InvoiceRecord
  <2>3. CallOK(s, to)
    BY <1>0, <2>1, <2>2
       DEF CallOK, CallRecord, CallStep, Dispatching, Verdict, Closed, At
  <2> QED
    BY <1>0, <2>1, <2>3, CallsTyped DEF TypeInv, TypeOK
<1> QED
  BY <1>1, <1>2, <1>3, <1>4, <1>5

LEMMA CloseTyped ==
  ASSUME TypeInv, NEW a \in Sender, NEW state \in Verdict, CloseAttempt(a, state)
  PROVE  attempt' \in [Sender -> AttemptRecord]
<1>1. [attempt[a] EXCEPT !.state = state, !.owner = None, !.lease = "none"] \in AttemptRecord
  BY DEF TypeInv, TypeOK, AttemptRecord, AttemptState
<1> QED
  BY <1>1, AttemptsTyped DEF CloseAttempt

\* A call that is about to finalize holds its attempt and its outcome.
LEMMA Concluded ==
  ASSUME TypeInv, NEW c \in Sender \cup Reconciler, At(c, "finalizing")
  PROVE  /\ c \in Caller /\ call[c] \in CallRecord
         /\ call[c].invoice \in Invoice
         /\ call[c].attempt \in Sender
         /\ call[c].outcome \in Verdict
         /\ Finalized(c) \in InvoiceRecord
<1>1. /\ c \in Caller /\ call[c] \in CallRecord
      /\ call[c].invoice \in Invoice
      /\ call[c].attempt \in Sender
      /\ call[c].outcome \in Verdict
  BY DEF TypeInv, TypeOK, CallOK, Caller, At, Dispatching, Reconciling
<1>2. Finalized(c) \in InvoiceRecord
  BY <1>1 DEF Finalized, CallRecord, InvoiceRecord, Verdict, Closed, Unresolved
<1> QED
  BY <1>1, <1>2

LEMMA CloseBothTyped ==
  ASSUME TypeInv, NEW c \in Sender \cup Reconciler, At(c, "finalizing"), CloseBoth(c)
  PROVE  /\ attempt' \in [Sender -> AttemptRecord]
         /\ invoice' \in [Invoice -> InvoiceRecord]
  BY Concluded, CloseTyped, InvoicesTyped DEF CloseBoth

LEMMA TypeStoreRaises ==
  ASSUME TypeInv, NEW s \in Sender, StoreRaises(s)
  PROVE  TypeInv'
<1>1. /\ attempt' \in [Sender -> AttemptRecord]
      /\ invoice' \in [Invoice -> InvoiceRecord]
  <2>1. CASE UNCHANGED <<attempt, invoice>>
    BY <2>1 DEF TypeInv, TypeOK
  <2>2. CASE (Append(s, "preflight_passed") \/ Append(s, "request_started"))
               /\ UNCHANGED invoice
    BY <2>2, AppendTyped DEF TypeInv, TypeOK, AttemptState
  <2>3. CASE At(s, "finalizing") /\ CloseBoth(s)
    BY <2>3, CloseBothTyped
  <2> QED
    BY <2>1, <2>2, <2>3 DEF StoreRaises
<1>2. /\ s \in Caller /\ s \notin Reconciler
      /\ call[s].pc \in {"claimed", "preflight", "finalizing"}
      /\ call[s].attempt = s
      /\ Conclude(s, "failed")
      /\ UNCHANGED <<sendKey, request, submits, source>>
  BY CallersDisjoint DEF StoreRaises, At, TypeInv, CallOK, Caller, Dispatching
<1>3. call' \in [Caller -> CallRecord] /\ \A d \in Caller : CallOK(d, call'[d])
  BY <1>2, ConcludeOK DEF Verdict, Closed
<1> QED
  BY <1>1, <1>2, <1>3 DEF TypeInv, TypeOK

\* Finalization and link, of a sender or a reconciler.
LEMMA TypeResult ==
  ASSUME TypeInv, NEW c \in Sender \cup Reconciler, ResultStep(c)
  PROVE  TypeInv'
<1>0. c \in Caller /\ call[c] \in CallRecord /\ CallOK(c, call[c])
  BY DEF TypeInv, TypeOK, Caller
<1>1. CASE Finalize(c) /\ CanFinalize(c)
  <2>1. /\ At(c, "finalizing") /\ CloseBoth(c) /\ SetCall(c, AfterFinalize(c))
        /\ UNCHANGED <<sendKey, request, submits, source>>
    BY <1>1 DEF Finalize
  <2> DEFINE saved == Finalized(c)
             to == [call[c] EXCEPT !.pc = "link", !.copy = saved]
  <2>2. CallOK(c, AfterFinalize(c))
    <3>1. CallOK(c, to)
      BY <1>0, <2>1, Concluded DEF CallOK, CallRecord, CallStep, At, Dispatching, Reconciling
    <3>2. AfterFinalize(c) \in {to, Ended("done")}
      BY DEF AfterFinalize
    <3> QED
      BY <3>1, <3>2, EndedOK
  <2> QED
    BY <1>0, <2>1, <2>2, CloseBothTyped, CallsTyped DEF TypeInv, TypeOK
<1>2. CASE Finalize(c) /\ ~CanFinalize(c)
  BY <1>0, <1>2, EndedOK, CallsTyped DEF Finalize, TypeInv, TypeOK
<1>3. CASE Link(c)
  <2> DEFINE copy == [call[c].copy EXCEPT !.ref = TRUE]
             to == [call[c] EXCEPT !.pc = "save", !.copy = copy]
  <2>1. At(c, "link") /\ SetCall(c, to) /\ call[c].attempt \in Sender
    BY <1>0, <1>3 DEF Link, CallOK, At, Dispatching, Reconciling
  <2>2. copy \in InvoiceRecord
    BY <1>0 DEF CallRecord, InvoiceRecord
  <2>3. CallOK(c, to)
    BY <1>0, <2>1, <2>2 DEF CallOK, CallRecord, CallStep, At, Dispatching
  <2> QED
    BY <1>0, <1>3, <2>1, <2>3, CallsTyped DEF Link, TypeInv, TypeOK
<1>4. CASE LinkRaises(c)
  <2>1. At(c, "link") /\ Goto(c, "save") /\ call[c].attempt \in Sender
    BY <1>0, <1>4 DEF LinkRaises, CallOK, At, Dispatching, Reconciling
  <2>2. call' \in [Caller -> CallRecord] /\ \A d \in Caller : CallOK(d, call'[d])
    BY <1>0, <2>1, GotoOK DEF At, CallStep, Dispatching
  <2> QED
    BY <1>4, <2>1, <2>2 DEF LinkRaises, TypeInv, TypeOK
<1> QED
  BY <1>1, <1>2, <1>3, <1>4 DEF ResultStep

\* reconcile(): read, claim, query.
LEMMA TypeReconciler ==
  ASSUME TypeInv, NEW r \in Reconciler, ReconcilerStep(r)
  PROVE  TypeInv'
<1>0. /\ r \in Caller /\ r \notin Sender
      /\ call[r] \in CallRecord /\ CallOK(r, call[r])
  BY CallersDisjoint DEF TypeInv, TypeOK, Caller
<1>1. ASSUME NEW i \in Invoice, ReadInvoice(r, i)
      PROVE  TypeInv'
  <2> DEFINE to == [NoCall EXCEPT !.pc = "loading", !.invoice = i,
                                  !.attempt = invoice[i].attempt, !.copy = invoice[i]]
  <2>1. invoice[i] \in InvoiceRecord
    BY DEF TypeInv, TypeOK
  <2>2. invoice[i].attempt \in Sender \cup {None}
    BY <2>1 DEF InvoiceRecord
  <2>3. CallOK(r, to)
    BY <1>0, <2>1, <2>2, Records DEF CallOK, NoCall, CallRecord, CallStep, Reconciling
  <2> QED
    BY <1>0, <1>1, <2>3, CallsTyped DEF ReadInvoice, TypeInv, TypeOK
<1>2. CASE LoadAttempt(r)
  <2> DEFINE a == call[r].attempt
             to == [call[r] EXCEPT !.pc = "claiming", !.stale = attempt[a].stale]
  <2>1. CASE a # None /\ attempt[a].started
    <3>1. a \in Sender /\ attempt[a] \in AttemptRecord
      BY <1>0, <2>1 DEF CallRecord, TypeInv, TypeOK
    <3>2. CallOK(r, to)
      BY <1>0, <1>2, <3>1
         DEF LoadAttempt, At, CallOK, CallRecord, CallStep, AttemptRecord
    <3> QED
      BY <1>0, <1>2, <2>1, <3>2, CallsTyped DEF LoadAttempt, TypeInv, TypeOK
  <2>2. CASE ~(a # None /\ attempt[a].started)
    BY <1>0, <1>2, <2>2, EndedOK, CallsTyped DEF LoadAttempt, TypeInv, TypeOK
  <2> QED BY <2>1, <2>2
<1>3. CASE ClaimReconciliation(r)
  <2> DEFINE copy == [call[r].copy EXCEPT !.status = Unresolved]
             a == call[r].attempt
             leased == [attempt[a] EXCEPT !.state = "reconciling", !.owner = r,
                                          !.lease = "active"]
             to == [call[r] EXCEPT !.copy = copy,
                      !.pc = IF call[r].copy.status = "sending" THEN "save" ELSE "query"]
  <2>1. a \in Sender /\ attempt[a] \in AttemptRecord /\ call[r].invoice \in Invoice
    BY <1>0, <1>3 DEF ClaimReconciliation, At, CallOK, Reconciling, TypeInv, TypeOK
  <2>2. CASE TakeLease(r, copy)
    <3>1. leased \in AttemptRecord
      BY <2>1 DEF AttemptRecord, AttemptState
    <3>2. copy \in InvoiceRecord
      BY <1>0 DEF CallRecord, InvoiceRecord, Verdict
    <3>3. CallOK(r, to)
      BY <1>0, <2>1, <3>2 DEF CallOK, CallRecord, CallStep
    <3>4. SetAttempt(a, leased) /\ SetCall(r, to)
      BY <2>2 DEF TakeLease
    <3> QED
      BY <1>0, <1>3, <3>1, <3>3, <3>4, AttemptsTyped, CallsTyped
         DEF ClaimReconciliation, TypeInv, TypeOK
  <2>3. CASE SetCall(r, Ended("done")) /\ UNCHANGED attempt
    BY <1>0, <1>3, <2>3, EndedOK, CallsTyped DEF ClaimReconciliation, TypeInv, TypeOK
  <2> QED
    BY <1>3, <2>2, <2>3 DEF ClaimReconciliation
<1>4. CASE Query(r)
  <2>1. PICK outcome \in QueryAnswer(call[r].invoice) : Conclude(r, outcome)
    BY <1>4 DEF Query
  <2>2. outcome \in Verdict
    BY <2>1 DEF QueryAnswer, Verdict, Closed
  <2>3. At(r, "query") /\ call[r].attempt \in Sender
    BY <1>0, <1>4 DEF Query, At, CallOK, Reconciling
  <2>4. call' \in [Caller -> CallRecord] /\ \A d \in Caller : CallOK(d, call'[d])
    BY <1>0, <2>1, <2>2, <2>3, ConcludeOK DEF At
  <2> QED
    BY <1>4, <2>4 DEF Query, TypeInv, TypeOK
<1>5. CASE QueryRaises(r)
  <2>1. call[r].attempt \in Sender
    BY <1>0, <1>5 DEF QueryRaises, At, CallOK, Reconciling
  <2>2. attempt' \in [Sender -> AttemptRecord]
    BY <1>5, <2>1, CloseTyped DEF QueryRaises, Verdict, TypeInv, TypeOK
  <2> QED
    BY <1>0, <1>5, <2>2, EndedOK, CallsTyped DEF QueryRaises, TypeInv, TypeOK
<1> QED
  BY <1>1, <1>2, <1>3, <1>4, <1>5 DEF ReconcilerStep

\* The provider and time.
LEMMA TypeEnvironment ==
  ASSUME TypeInv, NEW s \in Sender, ProviderDecides(s) \/ BecomeStale(s) \/ ExpireLease(s)
  PROVE  TypeInv'
<1>0. attempt[s] \in AttemptRecord
  BY DEF TypeInv, TypeOK
<1>1. CASE ProviderDecides(s)
  <2>1. request' \in [Sender -> {"none", "inflight", "lost", "accepted", "rejected"}]
    BY <1>1 DEF ProviderDecides, TypeInv, TypeOK
  <2> QED
    BY <1>1, <2>1, Kept DEF ProviderDecides, TypeInv, TypeOK
<1>2. CASE BecomeStale(s)
  <2>1. [attempt[s] EXCEPT !.stale = TRUE] \in AttemptRecord
    BY <1>0 DEF AttemptRecord
  <2> QED
    BY <1>2, <2>1, AttemptsTyped, Kept DEF BecomeStale, TypeInv, TypeOK
<1>3. CASE ExpireLease(s)
  <2>1. [attempt[s] EXCEPT !.lease = "expired"] \in AttemptRecord
    BY <1>0 DEF AttemptRecord
  <2> QED
    BY <1>3, <2>1, AttemptsTyped, Kept DEF ExpireLease, TypeInv, TypeOK
<1> QED BY <1>1, <1>2, <1>3

LEMMA TypeStep == TypeInv /\ [Next]_vars => TypeInv'
<1> SUFFICES ASSUME TypeInv, [Next]_vars PROVE TypeInv'
  OBVIOUS
<1>1. CASE UNCHANGED vars
  BY <1>1, Kept DEF vars, TypeInv, TypeOK
<1>2. ASSUME NEW i \in Invoice, CreateDraft(i) PROVE TypeInv'
  BY <1>2, TypeDraft
<1>3. ASSUME NEW p \in Approver, NEW i \in Invoice, Approve(p, i) PROVE TypeInv'
  BY <1>3, TypeApprove
<1>4. ASSUME NEW s \in Sender, SenderStep(s) PROVE TypeInv'
  <2>1. ASSUME NEW i \in Invoice, NEW k \in Key, Claim(s, i, k) PROVE TypeInv'
    BY <2>1, TypeClaim
  <2> QED
    BY <1>4, <2>1, TypeSenderMoves, TypeStoreRaises, TypeEnvironment DEF SenderStep
<1>5. ASSUME NEW r \in Reconciler, ReconcilerStep(r) PROVE TypeInv'
  BY <1>5, TypeReconciler
<1>6. ASSUME NEW c \in Sender \cup Reconciler, ResultStep(c) PROVE TypeInv'
  BY <1>6, TypeResult
<1>7. ASSUME NEW c \in Caller, CallerStep(c) PROVE TypeInv'
  BY <1>7, TypeCaller
<1> QED
  BY <1>1, <1>2, <1>3, <1>4, <1>5, <1>6, <1>7 DEF Next

LEMMA TypeInvariant == Spec => []TypeInv
<1> QED
  BY TypeInit, TypeStep, PTL DEF Spec

\* Every record of the store and every call keeps its shape, whatever calls
\* interleave.
THEOREM TypeCorrect == Spec => []TypeOK
<1>1. TypeInv => TypeOK
  BY DEF TypeInv
<1> QED
  BY <1>1, TypeInvariant, PTL

-----------------------------------------------------------------------------
(* The mutating request is on record before it is made.                    *)

StartedStates == {"request_started", "reconciling"} \cup Verdict

\* What the attempt and the request of sender s may be at each point of its
\* call; a reconciler only ever holds an attempt that was started.
RecordInv ==
  /\ \A s \in Sender :
       /\ attempt[s].started <=> attempt[s].state \in StartedStates
       /\ attempt[s].state # "none" => attempt[s].invoice \in Invoice
       /\ At(s, "idle") => attempt[s] = NoAttempt /\ request[s] = "none"
       /\ At(s, "claimed") => attempt[s].state = "claimed"
       /\ At(s, "preflight") => attempt[s].state = "preflight_passed"
       /\ call[s].pc \in {"claimed", "preflight", "started"} => request[s] = "none"
       /\ call[s].pc \in {"started", "submitted"} => attempt[s].started
       /\ request[s] # "none" => attempt[s].started
  /\ \A r \in Reconciler :
       call[r].pc \in Reconciling => attempt[call[r].attempt].started

LEMMA RecordInit == Init => RecordInv
  BY CallersDisjoint
     DEF Init, RecordInv, At, NoAttempt, NoCall, StartedStates, Verdict, Closed, Unresolved,
         Caller, Reconciling

\* An attempt that stays what it is, or is started and stays so.
Keeps(s) ==
  \/ attempt'[s] = attempt[s]
  \/ /\ attempt[s].started /\ attempt'[s].started
     /\ attempt'[s].state \in StartedStates
     /\ attempt'[s].invoice = attempt[s].invoice
  \/ /\ attempt[s] # NoAttempt
     /\ attempt'[s].started = attempt[s].started
     /\ attempt'[s].state = attempt[s].state
     /\ attempt'[s].invoice = attempt[s].invoice

LEMMA RecordKept ==
  ASSUME TypeInv, RecordInv, UNCHANGED request,
         \A s \in Sender : Keeps(s),
         \A s \in Sender : \/ call'[s] = call[s]
                           \/ call'[s].pc \notin {"idle", "claimed", "preflight",
                                                  "started", "submitted"},
         \A r \in Reconciler : \/ call'[r] = call[r]
                               \/ call'[r].pc \notin Reconciling
                               \/ /\ call'[r].attempt \in Sender
                                  /\ attempt[call'[r].attempt].started
  PROVE  RecordInv'
<1>1. ASSUME NEW s \in Sender
      PROVE  /\ attempt'[s].started <=> attempt'[s].state \in StartedStates
             /\ attempt'[s].state # "none" => attempt'[s].invoice \in Invoice
             /\ call'[s].pc = "idle" => attempt'[s] = NoAttempt /\ request'[s] = "none"
             /\ call'[s].pc = "claimed" => attempt'[s].state = "claimed"
             /\ call'[s].pc = "preflight" => attempt'[s].state = "preflight_passed"
             /\ call'[s].pc \in {"claimed", "preflight", "started"} => request'[s] = "none"
             /\ call'[s].pc \in {"started", "submitted"} => attempt'[s].started
             /\ request'[s] # "none" => attempt'[s].started
  <2>1. /\ attempt[s].started <=> attempt[s].state \in StartedStates
        /\ attempt[s].state # "none" => attempt[s].invoice \in Invoice
        /\ call[s].pc = "idle" => attempt[s] = NoAttempt /\ request[s] = "none"
        /\ call[s].pc = "claimed" => attempt[s].state = "claimed"
        /\ call[s].pc = "preflight" => attempt[s].state = "preflight_passed"
        /\ call[s].pc \in {"claimed", "preflight", "started"} => request[s] = "none"
        /\ call[s].pc \in {"started", "submitted"} => attempt[s].started
        /\ request[s] # "none" => attempt[s].started
        /\ request'[s] = request[s]
    BY DEF RecordInv, At
  <2>2. \/ call'[s] = call[s]
        \/ call'[s].pc \notin {"idle", "claimed", "preflight", "started", "submitted"}
    OBVIOUS
  <2>3. "none" \notin StartedStates /\ "claimed" \notin StartedStates
        /\ "preflight_passed" \notin StartedStates
    BY DEF StartedStates, Verdict, Closed, Unresolved
  <2>4. ~NoAttempt.started
    BY DEF NoAttempt
  <2>5. CASE attempt'[s] = attempt[s]
    BY <2>1, <2>2, <2>5
  <2>6. CASE /\ attempt[s].started /\ attempt'[s].started
             /\ attempt'[s].state \in StartedStates
             /\ attempt'[s].invoice = attempt[s].invoice
    BY <2>1, <2>2, <2>3, <2>4, <2>6
  <2>7. CASE /\ attempt[s] # NoAttempt
             /\ attempt'[s].started = attempt[s].started
             /\ attempt'[s].state = attempt[s].state
             /\ attempt'[s].invoice = attempt[s].invoice
    BY <2>1, <2>2, <2>7
  <2> QED
    BY <2>5, <2>6, <2>7 DEF Keeps
<1>2. \A a \in Sender : attempt[a].started => attempt'[a].started
  BY DEF Keeps
<1>3. ASSUME NEW r \in Reconciler, call'[r].pc \in Reconciling
      PROVE  attempt'[call'[r].attempt].started
  <2>1. r \in Caller
    BY DEF Caller
  <2> QED
    BY <1>2, <1>3, <2>1 DEF RecordInv, TypeInv, CallOK
<1> QED
  BY <1>1, <1>3 DEF RecordInv, At

\* A step of call c that leaves it at a point about which RecordInv says little.
LEMMA RecordMoves ==
  ASSUME TypeInv, RecordInv, UNCHANGED request, NEW c \in Caller, NEW to,
         SetCall(c, to),
         to.pc \notin {"idle", "claimed", "preflight", "started", "submitted"},
         c \in Reconciler /\ to.pc \in Reconciling =>
           \/ call[c].pc \in Reconciling /\ to.attempt = call[c].attempt
           \/ to.attempt \in Sender /\ attempt[to.attempt].started,
         \A s \in Sender : Keeps(s)
  PROVE  RecordInv'
<1>1. \A d \in Caller : call'[d] = IF d = c THEN to ELSE call[d]
  BY DEF SetCall, TypeInv, TypeOK
<1>2. \A s \in Sender : \/ call'[s] = call[s]
                        \/ call'[s].pc \notin {"idle", "claimed", "preflight",
                                               "started", "submitted"}
  BY <1>1 DEF Caller
<1>3. c \in Reconciler /\ to.pc \in Reconciling =>
        to.attempt \in Sender /\ attempt[to.attempt].started
  BY DEF RecordInv, TypeInv, CallOK
<1>4. \A r \in Reconciler : \/ call'[r] = call[r]
                            \/ call'[r].pc \notin Reconciling
                            \/ /\ call'[r].attempt \in Sender
                               /\ attempt[call'[r].attempt].started
  BY <1>1, <1>3 DEF Caller
<1> QED
  BY <1>2, <1>4, RecordKept

LEMMA KeepsAll == UNCHANGED attempt => \A s \in Sender : Keeps(s)
  BY DEF Keeps

LEMMA EndedPc == \A how : Ended(how).pc = how
  BY DEF Ended, NoCall

LEMMA ClosingKeeps ==
  ASSUME TypeInv, RecordInv, NEW a \in Sender, NEW state \in Verdict,
         attempt[a].state \in {"request_started", "reconciling"}, CloseAttempt(a, state)
  PROVE  \A s \in Sender : Keeps(s)
<1> DEFINE to == [attempt[a] EXCEPT !.state = state, !.owner = None, !.lease = "none"]
<1>1. attempt[a] \in AttemptRecord /\ attempt[a].started
  BY DEF TypeInv, TypeOK, RecordInv, StartedStates
<1>2. to.started = attempt[a].started /\ to.state = state /\ to.invoice = attempt[a].invoice
  BY <1>1 DEF AttemptRecord
<1>3. \A s \in Sender : attempt'[s] = IF s = a THEN to ELSE attempt[s]
  BY DEF CloseAttempt, SetAttempt, TypeInv, TypeOK
<1> QED
  BY <1>1, <1>2, <1>3 DEF Keeps, StartedStates

LEMMA RecordCaller ==
  ASSUME TypeInv, RecordInv, NEW c \in Caller, CallerStep(c)
  PROVE  RecordInv'
<1>0. call[c] \in CallRecord
  BY DEF TypeInv, TypeOK
<1>1. CASE SaveRead(c)
  <2> DEFINE to == [call[c] EXCEPT !.pc = "write", !.base = invoice[call[c].invoice]]
  <2>1. to.pc = "write" /\ to.attempt = call[c].attempt /\ call[c].pc = "save"
    BY <1>0, <1>1 DEF SaveRead, At, CallRecord
  <2>2. SetCall(c, to) /\ UNCHANGED <<attempt, request>>
    BY <1>1 DEF SaveRead
  <2> HIDE DEF to
  <2> QED
    BY <2>1, <2>2, RecordMoves, KeepsAll DEF Reconciling
<1>2. CASE SaveWrite(c)
  <2> DEFINE to == AfterSave(c, Merge(call[c].base, call[c].copy))
  <2>1. \/ to.pc = "query" /\ to.attempt = call[c].attempt /\ call[c].pc = "write"
        \/ to.pc = "done"
    BY <1>0, <1>2, EndedPc DEF SaveWrite, AfterSave, At, CallRecord
  <2>2. SetCall(c, to) /\ UNCHANGED <<attempt, request>>
    BY <1>2 DEF SaveWrite
  <2> HIDE DEF to
  <2> QED
    BY <2>1, <2>2, RecordMoves, KeepsAll DEF Reconciling
<1>3. CASE Crash(c)
  BY <1>3, RecordMoves, KeepsAll, EndedPc DEF Crash, Reconciling
<1> QED
  BY <1>1, <1>2, <1>3 DEF CallerStep

LEMMA RecordApprover ==
  ASSUME TypeInv, RecordInv, NEW i \in Invoice,
         CreateDraft(i) \/ \E p \in Approver : Approve(p, i)
  PROVE  RecordInv'
<1>1. CASE CreateDraft(i)
  <2>1. UNCHANGED <<attempt, call, request>>
    BY <1>1 DEF CreateDraft
  <2> QED
    BY <2>1, RecordKept, KeepsAll
<1>2. ASSUME NEW p \in Approver, Approve(p, i)
      PROVE  RecordInv'
  <2> DEFINE to == [NoCall EXCEPT !.pc = "save", !.invoice = i,
                                  !.copy = [invoice[i] EXCEPT !.status = "approved"]]
  <2>1. to.pc = "save"
    BY DEF NoCall
  <2>2. p \in Caller /\ p \notin Reconciler /\ SetCall(p, to) /\ UNCHANGED <<attempt, request>>
    BY <1>2, CallersDisjoint DEF Approve, Caller
  <2> HIDE DEF to
  <2> QED
    BY <2>1, <2>2, RecordMoves, KeepsAll
<1> QED
  BY <1>1, <1>2

LEMMA RecordResult ==
  ASSUME TypeInv, RecordInv, NEW c \in Sender \cup Reconciler, ResultStep(c)
  PROVE  RecordInv'
<1>0. c \in Caller /\ call[c] \in CallRecord
  BY DEF TypeInv, TypeOK, Caller
<1>1. CASE Finalize(c) /\ CanFinalize(c)
  <2> DEFINE to == [call[c] EXCEPT !.pc = "link", !.copy = Finalized(c)]
  <2>1. /\ At(c, "finalizing") /\ CloseBoth(c) /\ SetCall(c, AfterFinalize(c))
        /\ UNCHANGED request
    BY <1>1 DEF Finalize
  <2>2. attempt[call[c].attempt].state \in {"request_started", "reconciling"}
    BY <1>1 DEF CanFinalize
  <2>3. \A s \in Sender : Keeps(s)
    BY <2>1, <2>2, Concluded, ClosingKeeps DEF CloseBoth
  <2>4. to.pc = "link" /\ to.attempt = call[c].attempt
    BY <1>0 DEF CallRecord
  <2>5. AfterFinalize(c) \in {to, Ended("done")}
    BY DEF AfterFinalize
  <2> HIDE DEF to
  <2>6. call[c].pc = "finalizing"
    BY <2>1 DEF At
  <2> QED
    BY <1>0, <2>1, <2>3, <2>4, <2>5, <2>6, RecordMoves, EndedPc DEF Reconciling
<1>2. CASE Finalize(c) /\ ~CanFinalize(c)
  BY <1>0, <1>2, RecordMoves, KeepsAll, EndedPc DEF Finalize, Reconciling
<1>3. CASE Link(c)
  <2> DEFINE to == [call[c] EXCEPT !.pc = "save", !.copy = [@ EXCEPT !.ref = TRUE]]
  <2>1. to.pc = "save" /\ to.attempt = call[c].attempt /\ call[c].pc = "link"
    BY <1>0, <1>3 DEF Link, At, CallRecord
  <2>2. SetCall(c, to) /\ UNCHANGED <<attempt, request>>
    BY <1>3 DEF Link
  <2> HIDE DEF to
  <2> QED
    BY <1>0, <2>1, <2>2, RecordMoves, KeepsAll DEF Reconciling
<1>4. CASE LinkRaises(c)
  <2> DEFINE to == [call[c] EXCEPT !.pc = "save"]
  <2>1. to.pc = "save" /\ to.attempt = call[c].attempt /\ call[c].pc = "link"
    BY <1>0, <1>4 DEF LinkRaises, At, CallRecord
  <2>2. SetCall(c, to) /\ UNCHANGED <<attempt, request>>
    BY <1>4 DEF LinkRaises, Goto
  <2> HIDE DEF to
  <2> QED
    BY <1>0, <2>1, <2>2, RecordMoves, KeepsAll DEF Reconciling
<1> QED
  BY <1>1, <1>2, <1>3, <1>4 DEF ResultStep

LEMMA RecordReconciler ==
  ASSUME TypeInv, RecordInv, NEW r \in Reconciler, ReconcilerStep(r)
  PROVE  RecordInv'
<1>0. r \in Caller /\ call[r] \in CallRecord
  BY DEF TypeInv, TypeOK, Caller
<1>1. ASSUME NEW i \in Invoice, ReadInvoice(r, i)
      PROVE  RecordInv'
  <2> DEFINE to == [NoCall EXCEPT !.pc = "loading", !.invoice = i,
                                  !.attempt = invoice[i].attempt, !.copy = invoice[i]]
  <2>1. to.pc = "loading"
    BY DEF NoCall
  <2>2. SetCall(r, to) /\ UNCHANGED <<attempt, request>>
    BY <1>1 DEF ReadInvoice
  <2> HIDE DEF to
  <2> QED
    BY <1>0, <2>1, <2>2, RecordMoves, KeepsAll DEF Reconciling
<1>2. CASE LoadAttempt(r)
  <2> DEFINE a == call[r].attempt
             to == [call[r] EXCEPT !.pc = "claiming", !.stale = attempt[a].stale]
  <2>1. UNCHANGED <<attempt, request>>
    BY <1>2 DEF LoadAttempt
  <2>2. CASE a # None /\ attempt[a].started
    <3>1. to.pc = "claiming" /\ to.attempt = a /\ a \in Sender
      BY <1>0, <2>2 DEF CallRecord
    <3>2. SetCall(r, to)
      BY <1>2, <2>2 DEF LoadAttempt
    <3> HIDE DEF to
    <3> QED
      BY <1>0, <2>1, <2>2, <3>1, <3>2, RecordMoves, KeepsAll
  <2>3. CASE ~(a # None /\ attempt[a].started)
    <3>1. SetCall(r, Ended("done"))
      BY <1>2, <2>3 DEF LoadAttempt
    <3> QED
      BY <1>0, <2>1, <3>1, RecordMoves, KeepsAll, EndedPc DEF Reconciling
  <2> QED
    BY <2>2, <2>3
<1>3. CASE ClaimReconciliation(r)
  <2> DEFINE copy == [call[r].copy EXCEPT !.status = Unresolved]
             a == call[r].attempt
             leased == [attempt[a] EXCEPT !.state = "reconciling", !.owner = r,
                                          !.lease = "active"]
             to == [call[r] EXCEPT !.copy = copy,
                      !.pc = IF call[r].copy.status = "sending" THEN "save" ELSE "query"]
  <2>1. /\ call[r].pc = "claiming" /\ UNCHANGED request
        /\ a \in Sender /\ attempt[a] \in AttemptRecord
    BY <1>0, <1>3 DEF ClaimReconciliation, At, CallOK, Reconciling, TypeInv, TypeOK
  <2>2. CASE TakeLease(r, copy)
    <3>1. attempt[a].state \in StartedStates
      BY <2>2 DEF TakeLease, Reclaimable, StartedStates, Verdict
    <3>2. attempt[a].started
      BY <2>1, <3>1 DEF RecordInv
    <3>3. leased.state = "reconciling" /\ leased.started = attempt[a].started
            /\ leased.invoice = attempt[a].invoice
      BY <2>1 DEF AttemptRecord
    <3>4. \A s \in Sender : attempt'[s] = IF s = a THEN leased ELSE attempt[s]
      BY <2>2 DEF TakeLease, SetAttempt, TypeInv, TypeOK
    <3>5. \A s \in Sender : Keeps(s)
      BY <2>1, <3>2, <3>3, <3>4 DEF Keeps, StartedStates
    <3>6. to.pc \in {"save", "query"} /\ to.attempt = a
      BY <1>0 DEF CallRecord
    <3>7. SetCall(r, to)
      BY <2>2 DEF TakeLease
    <3> HIDE DEF to
    <3> QED
      BY <1>0, <2>1, <3>5, <3>6, <3>7, RecordMoves DEF Reconciling
  <2>3. CASE SetCall(r, Ended("done")) /\ UNCHANGED attempt
    BY <1>0, <2>1, <2>3, RecordMoves, KeepsAll, EndedPc DEF Reconciling
  <2> QED
    BY <1>3, <2>2, <2>3 DEF ClaimReconciliation
<1>4. CASE Query(r)
  <2>1. PICK outcome \in QueryAnswer(call[r].invoice) : Conclude(r, outcome)
    BY <1>4 DEF Query
  <2> DEFINE to == [call[r] EXCEPT !.pc = "finalizing", !.outcome = outcome]
  <2>2. to.pc = "finalizing" /\ to.attempt = call[r].attempt /\ call[r].pc = "query"
    BY <1>0, <1>4 DEF Query, At, CallRecord
  <2>3. SetCall(r, to) /\ UNCHANGED <<attempt, request>>
    BY <1>4, <2>1 DEF Query, Conclude
  <2> HIDE DEF to
  <2> QED
    BY <1>0, <2>2, <2>3, RecordMoves, KeepsAll DEF Reconciling
<1>5. CASE QueryRaises(r)
  <2>1. call[r].attempt \in Sender
    BY <1>0, <1>5 DEF QueryRaises, At, TypeInv, CallOK, Reconciling
  <2>2. \A s \in Sender : Keeps(s)
    <3>1. CASE CanFinalize(r)
      <4>1. attempt[call[r].attempt].state \in {"request_started", "reconciling"}
        BY <3>1 DEF CanFinalize
      <4> QED
        BY <1>5, <2>1, <3>1, <4>1, ClosingKeeps DEF QueryRaises, Verdict
    <3>2. CASE ~CanFinalize(r)
      BY <1>5, <3>2, KeepsAll DEF QueryRaises
    <3> QED BY <3>1, <3>2
  <2>3. SetCall(r, Ended("done")) /\ UNCHANGED request
    BY <1>5 DEF QueryRaises
  <2> QED
    BY <1>0, <2>2, <2>3, RecordMoves, EndedPc DEF Reconciling
<1> QED
  BY <1>1, <1>2, <1>3, <1>4, <1>5 DEF ReconcilerStep

LEMMA RecordEnvironment ==
  ASSUME TypeInv, RecordInv, NEW s \in Sender,
         ProviderDecides(s) \/ BecomeStale(s) \/ ExpireLease(s)
  PROVE  RecordInv'
<1>1. CASE ProviderDecides(s)
  <2>1. request[s] = "inflight" /\ UNCHANGED <<attempt, call>>
    BY <1>1 DEF ProviderDecides
  <2>2. \A t \in Sender : request'[t] = "none" <=> request[t] = "none"
    BY <1>1, <2>1 DEF ProviderDecides, TypeInv, TypeOK
  <2> QED
    BY <2>1, <2>2 DEF RecordInv, At
<1>2. CASE BecomeStale(s) \/ ExpireLease(s)
  <2>1. attempt[s] \in AttemptRecord /\ attempt[s] # NoAttempt /\ UNCHANGED <<call, request>>
    BY <1>2 DEF BecomeStale, ExpireLease, NoAttempt, TypeInv, TypeOK
  <2>2. PICK to : /\ to \in {[attempt[s] EXCEPT !.stale = TRUE],
                             [attempt[s] EXCEPT !.lease = "expired"]}
                  /\ SetAttempt(s, to)
    BY <1>2 DEF BecomeStale, ExpireLease
  <2>3. to.started = attempt[s].started /\ to.state = attempt[s].state
          /\ to.invoice = attempt[s].invoice
    BY <2>1, <2>2 DEF AttemptRecord
  <2>4. \A t \in Sender : attempt'[t] = IF t = s THEN to ELSE attempt[t]
    BY <2>2 DEF SetAttempt, TypeInv, TypeOK
  <2>5. \A t \in Sender : Keeps(t)
    BY <2>1, <2>3, <2>4 DEF Keeps
  <2> QED
    BY <2>1, <2>5, RecordKept
<1> QED
  BY <1>1, <1>2

\* A step of sender s on its own attempt and request.
LEMMA RecordOwn ==
  ASSUME TypeInv, RecordInv, NEW s \in Sender,
         \A t \in Sender : t # s => /\ attempt'[t] = attempt[t]
                                    /\ call'[t] = call[t]
                                    /\ request'[t] = request[t],
         \A r \in Reconciler : call'[r] = call[r],
         attempt[s].started => attempt'[s].started,
         attempt'[s].started <=> attempt'[s].state \in StartedStates,
         attempt'[s].state # "none" => attempt'[s].invoice \in Invoice,
         call'[s].pc # "idle",
         call'[s].pc = "claimed" => attempt'[s].state = "claimed",
         call'[s].pc = "preflight" => attempt'[s].state = "preflight_passed",
         call'[s].pc \in {"claimed", "preflight", "started"} => request'[s] = "none",
         call'[s].pc \in {"started", "submitted"} => attempt'[s].started,
         request'[s] # "none" => attempt'[s].started
  PROVE  RecordInv'
<1>1. ASSUME NEW t \in Sender
      PROVE  /\ attempt'[t].started <=> attempt'[t].state \in StartedStates
             /\ attempt'[t].state # "none" => attempt'[t].invoice \in Invoice
             /\ call'[t].pc = "idle" => attempt'[t] = NoAttempt /\ request'[t] = "none"
             /\ call'[t].pc = "claimed" => attempt'[t].state = "claimed"
             /\ call'[t].pc = "preflight" => attempt'[t].state = "preflight_passed"
             /\ call'[t].pc \in {"claimed", "preflight", "started"} => request'[t] = "none"
             /\ call'[t].pc \in {"started", "submitted"} => attempt'[t].started
             /\ request'[t] # "none" => attempt'[t].started
  <2>1. CASE t = s
    BY <2>1
  <2>2. CASE t # s
    BY <2>2 DEF RecordInv, At
  <2> QED BY <2>1, <2>2
<1>2. \A a \in Sender : attempt[a].started => attempt'[a].started
  OBVIOUS
<1>3. ASSUME NEW r \in Reconciler, call'[r].pc \in Reconciling
      PROVE  attempt'[call'[r].attempt].started
  <2>1. r \in Caller
    BY DEF Caller
  <2> QED
    BY <1>2, <1>3, <2>1 DEF RecordInv, TypeInv, CallOK
<1> QED
  BY <1>1, <1>3 DEF RecordInv, At

\* What an event of sender s makes of its attempt.
LEMMA Appended ==
  ASSUME TypeInv, NEW s \in Sender, NEW state \in {"preflight_passed", "request_started"},
         Append(s, state)
  PROVE  /\ attempt'[s].state = state
         /\ attempt'[s].invoice = attempt[s].invoice
         /\ attempt'[s].started <=> (attempt[s].started \/ state = "request_started")
         /\ \A t \in Sender : t # s => attempt'[t] = attempt[t]
<1> DEFINE to == [attempt[s] EXCEPT !.state = state, !.owner = None, !.lease = "none",
                                    !.started = @ \/ state = "request_started"]
<1>1. attempt[s] \in AttemptRecord
  BY DEF TypeInv, TypeOK
<1>2. /\ to.state = state
      /\ to.invoice = attempt[s].invoice
      /\ to.started <=> (attempt[s].started \/ state = "request_started")
  BY <1>1 DEF AttemptRecord
<1>3. \A t \in Sender : attempt'[t] = IF t = s THEN to ELSE attempt[t]
  BY DEF Append, SetAttempt, TypeInv, TypeOK
<1> QED
  BY <1>2, <1>3

\* Only call c moved.
LEMMA OthersStay ==
  ASSUME TypeInv, NEW c \in Caller, NEW to, SetCall(c, to)
  PROVE  call'[c] = to /\ \A d \in Caller : d # c => call'[d] = call[d]
  BY DEF SetCall, TypeInv, TypeOK

LEMMA RecordClaim ==
  ASSUME TypeInv, RecordInv, NEW s \in Sender, NEW i \in Invoice, NEW k \in Key, Claim(s, i, k)
  PROVE  RecordInv'
<1> DEFINE claimed == [invoice[i] EXCEPT !.status = "sending", !.attempt = s]
           to == [NoCall EXCEPT !.pc = "claimed", !.invoice = i, !.attempt = s,
                                !.copy = claimed]
           new == [NoAttempt EXCEPT !.state = "claimed", !.invoice = i, !.key = k]
<1>1. SetCall(s, to) /\ SetAttempt(s, new) /\ UNCHANGED request /\ At(s, "idle")
  BY DEF Claim, TakeClaim
<1>2. attempt[s] = NoAttempt /\ request[s] = "none"
  BY <1>1 DEF RecordInv
<1>3. to.pc = "claimed"
  BY DEF NoCall
<1>4. new.state = "claimed" /\ new.invoice = i /\ ~new.started
  BY DEF NoAttempt
<1>5. attempt'[s] = new /\ \A t \in Sender : t # s => attempt'[t] = attempt[t]
  BY <1>1 DEF SetAttempt, TypeInv, TypeOK
<1>6. s \in Caller /\ s \notin Reconciler
  BY CallersDisjoint DEF Caller
<1> HIDE DEF to, new
<1>7. /\ call'[s].pc = "claimed"
      /\ \A t \in Sender : t # s => call'[t] = call[t]
      /\ \A r \in Reconciler : call'[r] = call[r]
  BY <1>1, <1>3, <1>6, OthersStay DEF Caller
<1>8. ~NoAttempt.started
  BY DEF NoAttempt
<1>9. "claimed" \notin StartedStates
  BY DEF StartedStates, Verdict, Closed, Unresolved
<1> QED
  BY <1>1, <1>2, <1>4, <1>5, <1>7, <1>8, <1>9, RecordOwn

LEMMA RecordSenderMoves ==
  ASSUME TypeInv, RecordInv, NEW s \in Sender,
         PassPreflight(s) \/ StartRequest(s) \/ Submit(s) \/ RefuseLocally(s)
           \/ Answer(s) \/ LoseAnswer(s)
  PROVE  RecordInv'
<1>0. s \in Caller /\ s \notin Reconciler /\ call[s] \in CallRecord
  BY CallersDisjoint DEF TypeInv, TypeOK, Caller
<1>1. ASSUME NEW pc \in CallStep, Goto(s, pc)
      PROVE  /\ call'[s].pc = pc
             /\ \A t \in Sender : t # s => call'[t] = call[t]
             /\ \A r \in Reconciler : call'[r] = call[r]
  <2>1. [call[s] EXCEPT !.pc = pc].pc = pc
    BY <1>0 DEF CallRecord
  <2> QED
    BY <1>0, <1>1, <2>1, OthersStay DEF Goto, Caller
<1>2. StartedStates \cap {"none", "claimed", "preflight_passed"} = {}
         /\ "request_started" \in StartedStates
  BY DEF StartedStates, Verdict, Closed, Unresolved
<1>3. CASE PassPreflight(s)
  <2>1. At(s, "claimed") /\ Append(s, "preflight_passed") /\ Goto(s, "preflight")
          /\ UNCHANGED request
    BY <1>3 DEF PassPreflight
  <2>2. attempt[s].state = "claimed" /\ ~attempt[s].started /\ request[s] = "none"
          /\ attempt[s].invoice \in Invoice
    BY <1>2, <2>1 DEF RecordInv, At
  <2>3. attempt'[s].state = "preflight_passed" /\ ~attempt'[s].started
          /\ attempt'[s].invoice \in Invoice
          /\ \A t \in Sender : t # s => attempt'[t] = attempt[t]
    BY <2>1, <2>2, Appended
  <2>4. /\ call'[s].pc = "preflight"
        /\ \A t \in Sender : t # s => call'[t] = call[t]
        /\ \A r \in Reconciler : call'[r] = call[r]
    BY <1>1, <2>1 DEF CallStep
  <2> QED
    BY <1>2, <2>1, <2>2, <2>3, <2>4, RecordOwn
<1>4. CASE StartRequest(s)
  <2>1. At(s, "preflight") /\ Append(s, "request_started") /\ Goto(s, "started")
          /\ UNCHANGED request
    BY <1>4 DEF StartRequest
  <2>2. attempt[s].state = "preflight_passed" /\ request[s] = "none"
          /\ attempt[s].invoice \in Invoice
    BY <1>2, <2>1 DEF RecordInv, At
  <2>3. attempt'[s].state = "request_started" /\ attempt'[s].started
          /\ attempt'[s].invoice \in Invoice
          /\ \A t \in Sender : t # s => attempt'[t] = attempt[t]
    BY <2>1, <2>2, Appended
  <2>4. /\ call'[s].pc = "started"
        /\ \A t \in Sender : t # s => call'[t] = call[t]
        /\ \A r \in Reconciler : call'[r] = call[r]
    BY <1>1, <2>1 DEF CallStep
  <2> QED
    BY <1>2, <2>1, <2>2, <2>3, <2>4, RecordOwn
<1>5. CASE Submit(s)
  <2>1. At(s, "started") /\ Goto(s, "submitted") /\ UNCHANGED attempt
          /\ request' = [request EXCEPT ![s] = "inflight"]
    BY <1>5 DEF Submit
  <2>2. attempt[s].started /\ (attempt[s].started <=> attempt[s].state \in StartedStates)
          /\ (attempt[s].state # "none" => attempt[s].invoice \in Invoice)
    BY <2>1 DEF RecordInv, At
  <2>3. /\ call'[s].pc = "submitted"
        /\ \A t \in Sender : t # s => call'[t] = call[t]
        /\ \A r \in Reconciler : call'[r] = call[r]
    BY <1>1, <2>1 DEF CallStep
  <2>4. \A t \in Sender : t # s => request'[t] = request[t]
    BY <2>1 DEF TypeInv, TypeOK
  <2> QED
    BY <2>1, <2>2, <2>3, <2>4, RecordOwn
<1>6. CASE RefuseLocally(s) \/ Answer(s) \/ LoseAnswer(s)
  <2>1. PICK to : /\ to \in {[call[s] EXCEPT !.pc = "finalizing", !.outcome = o] : o \in Verdict}
                           \cup {[call[s] EXCEPT !.pc = "finalizing", !.outcome = "sent",
                                    !.copy = [@ EXCEPT !.provider = TRUE]]}
                  /\ SetCall(s, to)
    BY <1>6 DEF RefuseLocally, Answer, LoseAnswer, Conclude, Verdict, Closed
  <2>2. to.pc = "finalizing"
    BY <1>0, <2>1 DEF CallRecord
  <2>3. UNCHANGED <<attempt, request>>
    BY <1>6 DEF RefuseLocally, Answer, LoseAnswer
  <2> QED
    BY <1>0, <2>1, <2>2, <2>3, RecordMoves, KeepsAll
<1> QED
  BY <1>3, <1>4, <1>5, <1>6

LEMMA RecordStoreRaises ==
  ASSUME TypeInv, RecordInv, NEW s \in Sender, StoreRaises(s)
  PROVE  RecordInv'
<1> DEFINE to == [call[s] EXCEPT !.pc = "finalizing", !.outcome = "failed"]
<1>1. /\ s \in Caller /\ s \notin Reconciler /\ call[s] \in CallRecord
      /\ SetCall(s, to) /\ UNCHANGED request
  BY CallersDisjoint DEF StoreRaises, Conclude, TypeInv, TypeOK, Caller
<1>2. to.pc = "finalizing"
  BY <1>1 DEF CallRecord
<1> HIDE DEF to
<1>3. ASSUME \A t \in Sender : Keeps(t)
      PROVE  RecordInv'
  BY <1>1, <1>2, <1>3, RecordMoves
<1>4. ASSUME NEW state \in {"preflight_passed", "request_started"}, Append(s, state),
             attempt[s].state \in {"claimed", "preflight_passed"}
      PROVE  RecordInv'
  <2>1. ~attempt[s].started /\ attempt[s].invoice \in Invoice /\ request[s] = "none"
    BY <1>4 DEF RecordInv, StartedStates, Verdict, Closed, Unresolved
  <2>2. /\ attempt'[s].state = state /\ attempt'[s].invoice \in Invoice
        /\ attempt'[s].started <=> state = "request_started"
        /\ \A t \in Sender : t # s => attempt'[t] = attempt[t]
    BY <1>4, <2>1, Appended
  <2>3. /\ call'[s].pc = "finalizing"
        /\ \A t \in Sender : t # s => call'[t] = call[t]
        /\ \A r \in Reconciler : call'[r] = call[r]
    BY <1>1, <1>2, OthersStay DEF Caller
  <2>4. "preflight_passed" \notin StartedStates /\ "request_started" \in StartedStates
    BY DEF StartedStates, Verdict, Closed, Unresolved
  <2> QED
    BY <1>1, <2>1, <2>2, <2>3, <2>4, RecordOwn
<1>5. CASE UNCHANGED attempt
  BY <1>3, <1>5, KeepsAll
<1>6. CASE At(s, "claimed") /\ Append(s, "preflight_passed")
  BY <1>4, <1>6 DEF RecordInv
<1>7. CASE At(s, "preflight") /\ Append(s, "request_started")
  BY <1>4, <1>7 DEF RecordInv
<1>8. CASE At(s, "finalizing") /\ CanFinalize(s) /\ CloseBoth(s)
  <2>1. attempt[call[s].attempt].state \in {"request_started", "reconciling"}
    BY <1>8 DEF CanFinalize
  <2> QED
    BY <1>3, <1>8, <2>1, Concluded, ClosingKeeps DEF CloseBoth
<1> QED
  BY <1>5, <1>6, <1>7, <1>8 DEF StoreRaises

LEMMA RecordStep == TypeInv /\ RecordInv /\ [Next]_vars => RecordInv'
<1> SUFFICES ASSUME TypeInv, RecordInv, [Next]_vars PROVE RecordInv'
  OBVIOUS
<1>1. CASE UNCHANGED vars
  BY <1>1, RecordKept, KeepsAll DEF vars
<1>2. ASSUME NEW i \in Invoice, CreateDraft(i) PROVE RecordInv'
  BY <1>2, RecordApprover
<1>3. ASSUME NEW p \in Approver, NEW i \in Invoice, Approve(p, i) PROVE RecordInv'
  BY <1>3, RecordApprover
<1>4. ASSUME NEW s \in Sender, SenderStep(s) PROVE RecordInv'
  <2>1. ASSUME NEW i \in Invoice, NEW k \in Key, Claim(s, i, k) PROVE RecordInv'
    BY <2>1, RecordClaim
  <2> QED
    BY <1>4, <2>1, RecordSenderMoves, RecordStoreRaises, RecordEnvironment DEF SenderStep
<1>5. ASSUME NEW r \in Reconciler, ReconcilerStep(r) PROVE RecordInv'
  BY <1>5, RecordReconciler
<1>6. ASSUME NEW c \in Sender \cup Reconciler, ResultStep(c) PROVE RecordInv'
  BY <1>6, RecordResult
<1>7. ASSUME NEW c \in Caller, CallerStep(c) PROVE RecordInv'
  BY <1>7, RecordCaller
<1> QED
  BY <1>1, <1>2, <1>3, <1>4, <1>5, <1>6, <1>7 DEF Next

LEMMA RecordInvariant == Spec => [](TypeInv /\ RecordInv)
<1>1. Init => TypeInv /\ RecordInv
  BY TypeInit, RecordInit
<1>2. TypeInv /\ RecordInv /\ [Next]_vars => (TypeInv /\ RecordInv)'
  BY TypeStep, RecordStep
<1> QED
  BY <1>1, <1>2, PTL DEF Spec

\* A mutating provider request is always on record before it is made: no crash
\* leaves a request out that reconcile() would refuse to look at.
THEOREM RequestRecorded == Spec => []RequestOnRecord
<1>1. RecordInv => RequestOnRecord
  BY DEF RecordInv, RequestOnRecord, StartedStates
<1> QED
  BY <1>1, RecordInvariant, PTL

-----------------------------------------------------------------------------
(* A verdict is final.                                                     *)

LEMMA Closes ==
  ASSUME TypeInv, NEW a \in Sender, NEW state,
         attempt[a].state \notin Closed, CloseAttempt(a, state)
  PROVE  \A s \in Sender : attempt[s].state \in Closed => attempt'[s].state = attempt[s].state
  BY DEF CloseAttempt, SetAttempt, TypeInv, TypeOK

LEMMA VerdictStep ==
  TypeInv /\ RecordInv /\ [Next]_vars =>
    [\A s \in Sender :
       attempt[s].state \in Closed => attempt'[s].state = attempt[s].state]_vars
<1> DEFINE Final == \A s \in Sender :
                      attempt[s].state \in Closed => attempt'[s].state = attempt[s].state
<1> SUFFICES ASSUME TypeInv, RecordInv, Next PROVE Final
  OBVIOUS
<1>0. ASSUME UNCHANGED attempt PROVE Final
  BY <1>0
<1>1. ASSUME NEW i \in Invoice, CreateDraft(i) PROVE Final
  BY <1>0, <1>1 DEF CreateDraft
<1>2. ASSUME NEW p \in Approver, NEW i \in Invoice, Approve(p, i) PROVE Final
  BY <1>0, <1>2 DEF Approve
<1>3. ASSUME NEW s \in Sender, NEW state \in {"preflight_passed", "request_started"},
             Append(s, state), attempt[s].state \in {"claimed", "preflight_passed"}
      PROVE  Final
  BY <1>3, Appended DEF Closed
<1>4. ASSUME NEW s \in Sender, SenderStep(s) PROVE Final
  <2>1. ASSUME NEW i \in Invoice, NEW k \in Key, Claim(s, i, k) PROVE Final
    <3>1. attempt[s].state \notin Closed
      BY <2>1 DEF Claim, RecordInv, NoAttempt, Closed
    <3> QED
      BY <2>1, <3>1 DEF Claim, TakeClaim, SetAttempt, TypeInv, TypeOK
  <2>2. CASE PassPreflight(s)
    BY <1>3, <2>2 DEF PassPreflight, RecordInv
  <2>3. CASE StartRequest(s)
    BY <1>3, <2>3 DEF StartRequest, RecordInv
  <2>4. CASE Submit(s) \/ RefuseLocally(s) \/ Answer(s) \/ LoseAnswer(s) \/ ProviderDecides(s)
    BY <1>0, <2>4 DEF Submit, RefuseLocally, Answer, LoseAnswer, ProviderDecides
  <2>5. CASE StoreRaises(s)
    <3>1. CASE UNCHANGED attempt
      BY <1>0, <3>1
    <3>2. CASE At(s, "claimed") /\ Append(s, "preflight_passed")
      BY <1>3, <3>2 DEF RecordInv
    <3>3. CASE At(s, "preflight") /\ Append(s, "request_started")
      BY <1>3, <3>3 DEF RecordInv
    <3>4. CASE At(s, "finalizing") /\ CanFinalize(s) /\ CloseBoth(s)
      BY <3>4, Concluded, Closes DEF CanFinalize, CloseBoth, Closed
    <3> QED
      BY <2>5, <3>1, <3>2, <3>3, <3>4 DEF StoreRaises
  <2>6. CASE BecomeStale(s) \/ ExpireLease(s)
    <3>1. attempt[s] \in AttemptRecord
      BY DEF TypeInv, TypeOK
    <3>2. PICK to : /\ to \in {[attempt[s] EXCEPT !.stale = TRUE],
                               [attempt[s] EXCEPT !.lease = "expired"]}
                    /\ SetAttempt(s, to)
      BY <2>6 DEF BecomeStale, ExpireLease
    <3>3. to.state = attempt[s].state
      BY <3>1, <3>2 DEF AttemptRecord
    <3> QED
      BY <3>2, <3>3 DEF SetAttempt, TypeInv, TypeOK
  <2> QED
    BY <1>4, <2>1, <2>2, <2>3, <2>4, <2>5, <2>6 DEF SenderStep
<1>5. ASSUME NEW r \in Reconciler, ReconcilerStep(r) PROVE Final
  <2>1. ASSUME NEW i \in Invoice, ReadInvoice(r, i) PROVE Final
    BY <1>0, <2>1 DEF ReadInvoice
  <2>2. CASE LoadAttempt(r) \/ Query(r)
    BY <1>0, <2>2 DEF LoadAttempt, Query
  <2>3. CASE ClaimReconciliation(r)
    <3>1. attempt[call[r].attempt].state \notin Closed \/ UNCHANGED attempt
      BY <2>3 DEF ClaimReconciliation, TakeLease, Reclaimable, Closed, Unresolved
    <3> QED
      BY <2>3, <3>1 DEF ClaimReconciliation, TakeLease, SetAttempt, TypeInv, TypeOK
  <2>4. CASE QueryRaises(r)
    <3>1. call[r].attempt \in Sender
      BY <2>4 DEF QueryRaises, At, TypeInv, CallOK, Reconciling, Caller
    <3>2. CASE CanFinalize(r)
      <4>1. attempt[call[r].attempt].state \notin Closed
        BY <3>2 DEF CanFinalize, Closed
      <4> QED
        BY <2>4, <3>1, <3>2, <4>1, Closes DEF QueryRaises
    <3>3. CASE ~CanFinalize(r)
      BY <1>0, <2>4, <3>3 DEF QueryRaises
    <3> QED BY <3>2, <3>3
  <2> QED
    BY <1>5, <2>1, <2>2, <2>3, <2>4 DEF ReconcilerStep
<1>6. ASSUME NEW c \in Sender \cup Reconciler, ResultStep(c) PROVE Final
  <2>1. CASE Finalize(c)
    <3>1. CASE CanFinalize(c)
      <4>1. attempt[call[c].attempt].state \notin Closed
        BY <3>1 DEF CanFinalize, Closed
      <4> QED
        BY <2>1, <3>1, <4>1, Concluded, Closes DEF Finalize, CloseBoth
    <3>2. CASE ~CanFinalize(c)
      BY <1>0, <2>1, <3>2 DEF Finalize
    <3> QED BY <3>1, <3>2
  <2>2. CASE Link(c) \/ LinkRaises(c)
    BY <1>0, <2>2 DEF Link, LinkRaises
  <2> QED
    BY <1>6, <2>1, <2>2 DEF ResultStep
<1>7. ASSUME NEW c \in Caller, CallerStep(c) PROVE Final
  BY <1>0, <1>7 DEF CallerStep, SaveRead, SaveWrite, Crash
<1> HIDE DEF Final
<1> QED
  BY <1>1, <1>2, <1>4, <1>5, <1>6, <1>7 DEF Next

\* Once an attempt is sent or failed no late sender, expired lease owner, retry
\* or raising store call ever changes it.
THEOREM VerdictStays == Spec => VerdictIsFinal
<1> QED
  BY RecordInvariant, VerdictStep, PTL DEF Spec, VerdictIsFinal

-----------------------------------------------------------------------------
(* An attempt keeps the invoice and the key it was claimed for.            *)

Stable(s) ==
  \/ /\ attempt'[s].invoice = attempt[s].invoice
     /\ attempt'[s].key = attempt[s].key
  \/ /\ attempt[s] = NoAttempt
     /\ \E i \in Invoice, k \in Key : Claim(s, i, k)

LEMMA StableOne ==
  ASSUME TypeInv, NEW a \in Sender, NEW to, SetAttempt(a, to),
         to.invoice = attempt[a].invoice, to.key = attempt[a].key
  PROVE  \A s \in Sender : Stable(s)
  BY DEF Stable, SetAttempt, TypeInv, TypeOK

LEMMA StableClose ==
  ASSUME TypeInv, NEW a \in Sender, NEW state, CloseAttempt(a, state)
  PROVE  \A s \in Sender : Stable(s)
<1> DEFINE to == [attempt[a] EXCEPT !.state = state, !.owner = None, !.lease = "none"]
<1>1. attempt[a] \in AttemptRecord
  BY DEF TypeInv, TypeOK
<1>2. to.invoice = attempt[a].invoice /\ to.key = attempt[a].key
  BY <1>1 DEF AttemptRecord
<1> HIDE DEF to
<1>3. SetAttempt(a, to)
  BY DEF CloseAttempt, to
<1> QED
  BY <1>2, <1>3, StableOne

LEMMA StableAppend ==
  ASSUME TypeInv, NEW a \in Sender, NEW state, Append(a, state)
  PROVE  \A s \in Sender : Stable(s)
<1> DEFINE to == [attempt[a] EXCEPT !.state = state, !.owner = None, !.lease = "none",
                                    !.started = @ \/ state = "request_started"]
<1>1. attempt[a] \in AttemptRecord
  BY DEF TypeInv, TypeOK
<1>2. to.invoice = attempt[a].invoice /\ to.key = attempt[a].key
  BY <1>1 DEF AttemptRecord
<1> HIDE DEF to
<1>3. SetAttempt(a, to)
  BY DEF Append, to
<1> QED
  BY <1>2, <1>3, StableOne

LEMMA StableStep ==
  ASSUME TypeInv, RecordInv, [Next]_vars
  PROVE  \A s \in Sender : Stable(s)
<1> DEFINE AllStable == \A s \in Sender : Stable(s)
<1>0. ASSUME UNCHANGED attempt PROVE AllStable
  BY <1>0 DEF Stable
<1>1. ASSUME UNCHANGED vars PROVE AllStable
  BY <1>0, <1>1 DEF vars
<1>2. ASSUME NEW i \in Invoice, CreateDraft(i) PROVE AllStable
  BY <1>0, <1>2 DEF CreateDraft
<1>3. ASSUME NEW p \in Approver, NEW i \in Invoice, Approve(p, i) PROVE AllStable
  BY <1>0, <1>3 DEF Approve
<1>4. ASSUME NEW s \in Sender, SenderStep(s) PROVE AllStable
  <2>0. attempt[s] \in AttemptRecord
    BY DEF TypeInv, TypeOK
  <2>1. ASSUME NEW i \in Invoice, NEW k \in Key, Claim(s, i, k) PROVE AllStable
    <3>1. attempt[s] = NoAttempt
      BY <2>1 DEF Claim, RecordInv
    <3>2. \A t \in Sender : t # s => attempt'[t] = attempt[t]
      BY <2>1 DEF Claim, TakeClaim, SetAttempt, TypeInv, TypeOK
    <3> QED
      BY <2>1, <3>1, <3>2 DEF Stable
  <2>2. CASE PassPreflight(s) \/ StartRequest(s)
    BY <2>2, StableAppend DEF PassPreflight, StartRequest
  <2>3. CASE Submit(s) \/ RefuseLocally(s) \/ Answer(s) \/ LoseAnswer(s) \/ ProviderDecides(s)
    BY <1>0, <2>3 DEF Submit, RefuseLocally, Answer, LoseAnswer, ProviderDecides
  <2>4. CASE StoreRaises(s)
    <3>1. CASE UNCHANGED attempt
      BY <1>0, <3>1
    <3>2. CASE \E state \in AttemptState : Append(s, state)
      BY <3>2, StableAppend
    <3>3. CASE At(s, "finalizing") /\ CloseBoth(s)
      BY <3>3, Concluded, StableClose DEF CloseBoth
    <3> QED
      BY <2>4, <3>1, <3>2, <3>3 DEF StoreRaises, AttemptState
  <2>5. CASE BecomeStale(s)
    <3>1. [attempt[s] EXCEPT !.stale = TRUE].invoice = attempt[s].invoice
            /\ [attempt[s] EXCEPT !.stale = TRUE].key = attempt[s].key
      BY <2>0 DEF AttemptRecord
    <3> QED
      BY <2>5, <3>1, StableOne DEF BecomeStale
  <2>6. CASE ExpireLease(s)
    <3>1. [attempt[s] EXCEPT !.lease = "expired"].invoice = attempt[s].invoice
            /\ [attempt[s] EXCEPT !.lease = "expired"].key = attempt[s].key
      BY <2>0 DEF AttemptRecord
    <3> QED
      BY <2>6, <3>1, StableOne DEF ExpireLease
  <2> QED
    BY <1>4, <2>1, <2>2, <2>3, <2>4, <2>5, <2>6 DEF SenderStep
<1>5. ASSUME NEW r \in Reconciler, ReconcilerStep(r) PROVE AllStable
  <2>1. ASSUME NEW i \in Invoice, ReadInvoice(r, i) PROVE AllStable
    BY <1>0, <2>1 DEF ReadInvoice
  <2>2. CASE LoadAttempt(r) \/ Query(r)
    BY <1>0, <2>2 DEF LoadAttempt, Query
  <2>3. CASE ClaimReconciliation(r)
    <3> DEFINE a == call[r].attempt
               to == [attempt[a] EXCEPT !.state = "reconciling", !.owner = r,
                                        !.lease = "active"]
    <3>1. a \in Sender /\ attempt[a] \in AttemptRecord
      BY <2>3 DEF ClaimReconciliation, At, TypeInv, TypeOK, CallOK, Reconciling, Caller
    <3>2. to.invoice = attempt[a].invoice /\ to.key = attempt[a].key
      BY <3>1 DEF AttemptRecord
    <3>3. SetAttempt(a, to) \/ UNCHANGED attempt
      BY <2>3 DEF ClaimReconciliation, TakeLease
    <3> HIDE DEF to
    <3> QED
      BY <1>0, <3>1, <3>2, <3>3, StableOne
  <2>4. CASE QueryRaises(r)
    <3>1. call[r].attempt \in Sender
      BY <2>4 DEF QueryRaises, At, TypeInv, CallOK, Reconciling, Caller
    <3> QED
      BY <1>0, <2>4, <3>1, StableClose DEF QueryRaises
  <2> QED
    BY <1>5, <2>1, <2>2, <2>3, <2>4 DEF ReconcilerStep
<1>6. ASSUME NEW c \in Sender \cup Reconciler, ResultStep(c) PROVE AllStable
  <2>1. CASE Finalize(c)
    BY <1>0, <2>1, Concluded, StableClose DEF Finalize, CloseBoth
  <2>2. CASE Link(c) \/ LinkRaises(c)
    BY <1>0, <2>2 DEF Link, LinkRaises
  <2> QED
    BY <1>6, <2>1, <2>2 DEF ResultStep
<1>7. ASSUME NEW c \in Caller, CallerStep(c) PROVE AllStable
  BY <1>0, <1>7 DEF CallerStep, SaveRead, SaveWrite, Crash
<1> HIDE DEF AllStable
<1>8. AllStable
  BY <1>1, <1>2, <1>3, <1>4, <1>5, <1>6, <1>7 DEF Next
<1> QED
  BY <1>8 DEF AllStable

\* A key is bound to the attempt that carries it.
KeyInv ==
  \A s \in Sender :
    /\ attempt[s].key \in Key => sendKey[attempt[s].key] = s
    /\ attempt[s].key # None => attempt[s].invoice \in Invoice

LEMMA KeyInit == Init => KeyInv
  BY CallersDisjoint DEF Init, KeyInv, NoAttempt

LEMMA KeyStep == TypeInv /\ RecordInv /\ KeyInv /\ [Next]_vars => KeyInv'
<1> SUFFICES ASSUME TypeInv, RecordInv, KeyInv, [Next]_vars PROVE KeyInv'
  OBVIOUS
<1>1. \A s \in Sender : Stable(s)
  BY StableStep
<1>3. CASE \E s \in Sender, i \in Invoice, k \in Key : Claim(s, i, k)
  <2>1. PICK s \in Sender, i \in Invoice, k \in Key : Claim(s, i, k)
    BY <1>3
  <2> DEFINE new == [NoAttempt EXCEPT !.state = "claimed", !.invoice = i, !.key = k]
  <2>2. new.key = k /\ new.invoice = i
    BY DEF NoAttempt
  <2>3. \A t \in Sender : attempt'[t] = IF t = s THEN new ELSE attempt[t]
    BY <2>1 DEF Claim, TakeClaim, SetAttempt, TypeInv, TypeOK
  <2>4. \A l \in Key : sendKey'[l] = IF l = k THEN s ELSE sendKey[l]
    BY <2>1 DEF Claim, TakeClaim, TypeInv, TypeOK
  <2>5. sendKey[k] = None /\ None \notin Sender
    BY <2>1, CallersDisjoint DEF Claim, Caller
  <2> HIDE DEF new
  <2> QED
    BY <2>2, <2>3, <2>4, <2>5 DEF KeyInv
<1>4. CASE ~\E s \in Sender, i \in Invoice, k \in Key : Claim(s, i, k)
  <2>1. UNCHANGED sendKey
    BY <1>4 DEF Next, vars, SenderStep, ReconcilerStep, CallerStep, ResultStep, CreateDraft,
       Approve, PassPreflight, StartRequest, Submit, RefuseLocally, Answer, LoseAnswer,
       StoreRaises, ProviderDecides, BecomeStale, ExpireLease, ReadInvoice, LoadAttempt,
       ClaimReconciliation, Query, QueryRaises, Finalize, Link, LinkRaises, SaveRead,
       SaveWrite, Crash
  <2>2. \A s \in Sender : attempt[s].key = attempt'[s].key
    BY <1>1, <1>4 DEF Stable
  <2>3. \A s \in Sender : attempt'[s].invoice = attempt[s].invoice
    BY <1>1, <1>4 DEF Stable
  <2> QED
    BY <2>1, <2>2, <2>3 DEF KeyInv
<1> QED
  BY <1>3, <1>4

\* An idempotency key never names two attempts, for any number of concurrent
\* send() calls on any invoices.
THEOREM KeyNamesOne == Spec => []KeyNamesOneAttempt
<1>1. TypeInv /\ KeyInv => KeyNamesOneAttempt
  BY DEF KeyInv, KeyNamesOneAttempt, TypeInv, TypeOK, AttemptRecord
<1> QED
  BY <1>1, RecordInvariant, KeyInit, KeyStep, PTL DEF Spec

-----------------------------------------------------------------------------
(* The attempt an invoice, a call or one of its copies names is an attempt *)
(* of that invoice.                                                        *)

Belongs(a, i) == a # None => i \in Invoice /\ attempt[a].invoice = i

BelongsNext(a, i) == a # None => i \in Invoice /\ attempt'[a].invoice = i

Held(to) ==
  /\ Belongs(to.attempt, to.invoice)
  /\ Belongs(to.copy.attempt, to.invoice)
  /\ Belongs(to.base.attempt, to.invoice)

BelongInv ==
  /\ \A i \in Invoice : Belongs(invoice[i].attempt, i)
  /\ \A c \in Caller : Held(call[c])

LEMMA BelongInit == Init => BelongInv
  BY DEF Init, BelongInv, Belongs, Held, NoInvoice, NoCall

LEMMA BelongKept ==
  ASSUME TypeInv, RecordInv, BelongInv, [Next]_vars,
         \A i \in Invoice : \/ Belongs(invoice'[i].attempt, i)
                            \/ BelongsNext(invoice'[i].attempt, i),
         \A c \in Caller : \/ Held(call'[c])
                           \/ /\ BelongsNext(call'[c].attempt, call'[c].invoice)
                              /\ BelongsNext(call'[c].copy.attempt, call'[c].invoice)
                              /\ Belongs(call'[c].base.attempt, call'[c].invoice)
  PROVE  BelongInv'
<1>1. TypeInv'
  BY TypeStep
<1>2. ASSUME NEW a \in Sender \cup {None}, NEW i, Belongs(a, i)
      PROVE  BelongsNext(a, i)
  <2>1. NoAttempt.invoice = None /\ None \notin Invoice
    BY CallersDisjoint DEF NoAttempt
  <2> QED
    BY <1>2, <2>1, StableStep DEF Belongs, BelongsNext, Stable
<1>3. ASSUME NEW i \in Invoice
      PROVE  BelongsNext(invoice'[i].attempt, i)
  <2>1. invoice'[i].attempt \in Sender \cup {None}
    BY <1>1 DEF TypeInv, TypeOK, InvoiceRecord
  <2> QED
    BY <1>2, <2>1
<1>4. ASSUME NEW c \in Caller
      PROVE  /\ BelongsNext(call'[c].attempt, call'[c].invoice)
             /\ BelongsNext(call'[c].copy.attempt, call'[c].invoice)
             /\ BelongsNext(call'[c].base.attempt, call'[c].invoice)
  <2>1. call'[c].attempt \in Sender \cup {None}
          /\ call'[c].copy.attempt \in Sender \cup {None}
          /\ call'[c].base.attempt \in Sender \cup {None}
    BY <1>1 DEF TypeInv, TypeOK, CallRecord, InvoiceRecord
  <2> QED
    BY <1>2, <2>1 DEF Held
<1> QED
  BY <1>3, <1>4 DEF BelongInv, Belongs, BelongsNext, Held

\* A step that moves call c and writes at most the invoice that c holds, from
\* what c held before.
LEMMA BelongMoves ==
  ASSUME TypeInv, RecordInv, BelongInv, [Next]_vars,
         NEW c \in Caller, NEW to, SetCall(c, to), Held(to),
         \/ UNCHANGED invoice
         \/ \E new : /\ SetInvoice(call[c].invoice, new)
                     /\ Belongs(new.attempt, call[c].invoice)
  PROVE  BelongInv'
<1>1. \A d \in Caller : Held(call'[d])
  BY OthersStay DEF BelongInv
<1>2. \A i \in Invoice : Belongs(invoice'[i].attempt, i)
  BY DEF BelongInv, SetInvoice, TypeInv, TypeOK
<1> QED
  BY <1>1, <1>2, BelongKept

LEMMA HeldEnded == \A how : Held(Ended(how))
  BY DEF Held, Belongs, Ended, NoCall, NoInvoice

LEMMA HeldMoved ==
  ASSUME TypeInv, BelongInv, NEW c \in Caller, NEW to,
         to.invoice = call[c].invoice,
         to.attempt = call[c].attempt,
         to.copy.attempt \in {call[c].copy.attempt, call[c].base.attempt, None},
         to.base.attempt \in {call[c].base.attempt, invoice[call[c].invoice].attempt, None},
         call[c].invoice \in Invoice
  PROVE  Held(to)
  BY DEF BelongInv, Held, Belongs

LEMMA BelongStep == TypeInv /\ RecordInv /\ BelongInv /\ [Next]_vars => BelongInv'
<1> SUFFICES ASSUME TypeInv, RecordInv, BelongInv, [Next]_vars PROVE BelongInv'
  OBVIOUS
<1>a. ASSUME NEW c \in Caller
      PROVE  /\ call[c] \in CallRecord
             /\ call[c].pc \notin {"idle", "done", "crashed"} => call[c].invoice \in Invoice
             /\ call[c].copy \in InvoiceRecord /\ call[c].base \in InvoiceRecord
  BY <1>a DEF TypeInv, TypeOK, CallOK, CallRecord
<1>b. ASSUME UNCHANGED <<invoice, call>> PROVE BelongInv'
  BY <1>b, BelongKept DEF BelongInv
<1>1. CASE UNCHANGED vars
  BY <1>b, <1>1 DEF vars
<1>2. ASSUME NEW i \in Invoice, CreateDraft(i) PROVE BelongInv'
  <2>1. [invoice[i] EXCEPT !.status = "draft"].attempt = invoice[i].attempt
    BY DEF TypeInv, TypeOK, InvoiceRecord
  <2>2. UNCHANGED call /\ \A j \in Invoice : invoice'[j].attempt = invoice[j].attempt
    BY <1>2, <2>1 DEF CreateDraft, SetInvoice, TypeInv, TypeOK
  <2> QED
    BY <2>2, BelongKept DEF BelongInv
<1>3. ASSUME NEW p \in Approver, NEW i \in Invoice, Approve(p, i) PROVE BelongInv'
  <2> DEFINE to == [NoCall EXCEPT !.pc = "save", !.invoice = i,
                                  !.copy = [invoice[i] EXCEPT !.status = "approved"]]
  <2>1. [invoice[i] EXCEPT !.status = "approved"].attempt = invoice[i].attempt
    BY DEF TypeInv, TypeOK, InvoiceRecord
  <2>2. to.attempt = None /\ to.base.attempt = None /\ to.invoice = i
          /\ to.copy.attempt = invoice[i].attempt
    BY <2>1 DEF NoCall, NoInvoice
  <2>3. p \in Caller /\ SetCall(p, to) /\ UNCHANGED invoice
    BY <1>3 DEF Approve, Caller
  <2> HIDE DEF to
  <2>4. Held(to)
    BY <2>2 DEF Held, Belongs, BelongInv
  <2> QED
    BY <2>3, <2>4, BelongMoves
<1>4. ASSUME NEW c \in Caller, CallerStep(c) PROVE BelongInv'
  <2>1. CASE SaveRead(c)
    <3> DEFINE to == [call[c] EXCEPT !.pc = "write", !.base = invoice[call[c].invoice]]
    <3>0. call[c].invoice \in Invoice
      BY <1>a, <2>1 DEF SaveRead, At
    <3>1. /\ to.invoice = call[c].invoice /\ to.attempt = call[c].attempt
          /\ to.copy = call[c].copy /\ to.base = invoice[call[c].invoice]
      BY <1>a DEF CallRecord
    <3>2. SetCall(c, to) /\ UNCHANGED invoice
      BY <2>1 DEF SaveRead
    <3> HIDE DEF to
    <3>3. Held(to)
      BY <3>0, <3>1, HeldMoved
    <3> QED
      BY <3>2, <3>3, BelongMoves
  <2>2. CASE SaveWrite(c)
    <3> DEFINE saved == Merge(call[c].base, call[c].copy)
               on == [call[c] EXCEPT !.pc = "query", !.copy = saved, !.base = NoInvoice]
    <3>1. call[c].invoice \in Invoice
      BY <1>a, <2>2 DEF SaveWrite, At
    <3>2. saved.attempt \in {call[c].base.attempt, call[c].copy.attempt}
      BY DEF Merge
    <3>3. Held(on)
      BY <1>a, <3>1, <3>2, HeldMoved DEF CallRecord, NoInvoice
    <3>4. AfterSave(c, saved) \in {on, Ended("done")}
      BY DEF AfterSave
    <3>5. Belongs(saved.attempt, call[c].invoice)
      BY <3>2 DEF BelongInv, Held
    <3>6. SetInvoice(call[c].invoice, saved) /\ SetCall(c, AfterSave(c, saved))
      BY <2>2 DEF SaveWrite
    <3> HIDE DEF saved, on
    <3> QED
      BY <3>3, <3>4, <3>5, <3>6, BelongMoves, HeldEnded
  <2>3. CASE Crash(c)
    BY <2>3, BelongMoves, HeldEnded DEF Crash
  <2> QED
    BY <1>4, <2>1, <2>2, <2>3 DEF CallerStep
<1>5. ASSUME NEW c \in Caller, NEW pc, Goto(c, pc), UNCHANGED invoice,
             call[c].pc \notin {"idle", "done", "crashed"}
      PROVE  BelongInv'
  <2> DEFINE to == [call[c] EXCEPT !.pc = pc]
  <2>1. Held(to)
    BY <1>a, <1>5, HeldMoved DEF CallRecord
  <2>2. SetCall(c, to)
    BY <1>5 DEF Goto
  <2> HIDE DEF to
  <2> QED
    BY <1>5, <2>1, <2>2, BelongMoves
<1>6. ASSUME NEW c \in Caller, NEW outcome, Conclude(c, outcome),
             call[c].pc \notin {"idle", "done", "crashed"},
             UNCHANGED invoice \/ (c \in Sender /\ At(c, "finalizing") /\ CloseBoth(c))
      PROVE  BelongInv'
  <2> DEFINE to == [call[c] EXCEPT !.pc = "finalizing", !.outcome = outcome]
  <2>1. Held(to)
    BY <1>a, <1>6, HeldMoved DEF CallRecord
  <2>2. SetCall(c, to)
    BY <1>6 DEF Conclude
  <2>3. Finalized(c).attempt = call[c].copy.attempt
    BY <1>a DEF Finalized, InvoiceRecord
  <2>4. Belongs(Finalized(c).attempt, call[c].invoice)
    BY <2>3 DEF BelongInv, Held
  <2> HIDE DEF to
  <2> QED
    BY <1>6, <2>1, <2>2, <2>4, BelongMoves DEF CloseBoth
<1>7. ASSUME NEW s \in Sender, SenderStep(s) PROVE BelongInv'
  <2>0. s \in Caller
    BY DEF Caller
  <2>1. ASSUME NEW i \in Invoice, NEW k \in Key, Claim(s, i, k) PROVE BelongInv'
    <3> DEFINE claimed == [invoice[i] EXCEPT !.status = "sending", !.attempt = s]
               to == [NoCall EXCEPT !.pc = "claimed", !.invoice = i, !.attempt = s,
                                    !.copy = claimed]
               new == [NoAttempt EXCEPT !.state = "claimed", !.invoice = i, !.key = k]
    <3>1. SetInvoice(i, claimed) /\ SetCall(s, to) /\ SetAttempt(s, new)
      BY <2>1 DEF Claim, TakeClaim
    <3>2. claimed.attempt = s
      BY DEF TypeInv, TypeOK, InvoiceRecord
    <3>3. to.attempt = s /\ to.invoice = i /\ to.copy = claimed /\ to.base.attempt = None
      BY DEF NoCall, NoInvoice
    <3>4. new.invoice = i
      BY DEF NoAttempt
    <3> HIDE DEF claimed, to, new
    <3>5. attempt'[s].invoice = i
      BY <3>1, <3>4 DEF SetAttempt, TypeInv, TypeOK
    <3>6. \A j \in Invoice : \/ Belongs(invoice'[j].attempt, j)
                             \/ BelongsNext(invoice'[j].attempt, j)
      BY <3>1, <3>2, <3>5 DEF SetInvoice, BelongInv, BelongsNext, TypeInv, TypeOK
    <3>7. call'[s] = to /\ \A d \in Caller : d # s => call'[d] = call[d]
      BY <2>0, <3>1, OthersStay
    <3>8. \A c \in Caller : \/ Held(call'[c])
                            \/ /\ BelongsNext(call'[c].attempt, call'[c].invoice)
                               /\ BelongsNext(call'[c].copy.attempt, call'[c].invoice)
                               /\ Belongs(call'[c].base.attempt, call'[c].invoice)
      BY <3>2, <3>3, <3>5, <3>7 DEF BelongInv, BelongsNext, Belongs
    <3> QED
      BY <3>6, <3>8, BelongKept
  <2>2. CASE PassPreflight(s) \/ StartRequest(s) \/ Submit(s)
    BY <1>5, <2>0, <2>2 DEF PassPreflight, StartRequest, Submit, At
  <2>3. CASE RefuseLocally(s) \/ LoseAnswer(s) \/ (Answer(s) /\ request[s] = "rejected")
    BY <1>6, <2>0, <2>3 DEF RefuseLocally, LoseAnswer, Answer, At
  <2>4. CASE Answer(s) /\ request[s] # "rejected"
    <3> DEFINE copy == [call[s].copy EXCEPT !.provider = TRUE]
               to == [call[s] EXCEPT !.pc = "finalizing", !.outcome = "sent", !.copy = copy]
    <3>1. copy.attempt = call[s].copy.attempt
      BY <1>a, <2>0 DEF InvoiceRecord
    <3>2. At(s, "submitted") /\ SetCall(s, to) /\ UNCHANGED invoice
      BY <2>4 DEF Answer
    <3>3. /\ to.invoice = call[s].invoice /\ to.attempt = call[s].attempt
          /\ to.copy = copy /\ to.base = call[s].base
      BY <1>a, <2>0 DEF CallRecord
    <3> HIDE DEF copy, to
    <3>4. Held(to)
      BY <1>a, <2>0, <3>1, <3>2, <3>3, HeldMoved DEF At
    <3> QED
      BY <2>0, <3>2, <3>4, BelongMoves
  <2>5. CASE StoreRaises(s)
    BY <1>6, <2>0, <2>5 DEF StoreRaises, At
  <2>6. CASE ProviderDecides(s) \/ BecomeStale(s) \/ ExpireLease(s)
    BY <1>b, <2>6 DEF ProviderDecides, BecomeStale, ExpireLease
  <2> QED
    BY <1>7, <2>1, <2>2, <2>3, <2>4, <2>5, <2>6 DEF SenderStep
<1>8. ASSUME NEW r \in Reconciler, ReconcilerStep(r) PROVE BelongInv'
  <2>0. r \in Caller
    BY DEF Caller
  <2>1. ASSUME NEW i \in Invoice, ReadInvoice(r, i) PROVE BelongInv'
    <3> DEFINE to == [NoCall EXCEPT !.pc = "loading", !.invoice = i,
                                    !.attempt = invoice[i].attempt, !.copy = invoice[i]]
    <3>1. Held(to)
      BY DEF NoCall, NoInvoice, Held, Belongs, BelongInv
    <3>2. SetCall(r, to) /\ UNCHANGED invoice
      BY <2>1 DEF ReadInvoice
    <3> HIDE DEF to
    <3> QED
      BY <2>0, <3>1, <3>2, BelongMoves
  <2>2. CASE LoadAttempt(r)
    <3> DEFINE to == [call[r] EXCEPT !.pc = "claiming", !.stale = attempt[call[r].attempt].stale]
    <3>1. Held(to)
      BY <1>a, <2>0, <2>2, HeldMoved DEF LoadAttempt, At, CallRecord
    <3>2. (SetCall(r, to) \/ SetCall(r, Ended("done"))) /\ UNCHANGED invoice
      BY <2>2 DEF LoadAttempt
    <3> HIDE DEF to
    <3> QED
      BY <2>0, <3>1, <3>2, BelongMoves, HeldEnded
  <2>3. CASE ClaimReconciliation(r)
    <3> DEFINE copy == [call[r].copy EXCEPT !.status = Unresolved]
               to == [call[r] EXCEPT !.copy = copy,
                        !.pc = IF call[r].copy.status = "sending" THEN "save" ELSE "query"]
    <3>1. copy.attempt = call[r].copy.attempt
      BY <1>a, <2>0 DEF InvoiceRecord
    <3>2. /\ to.invoice = call[r].invoice /\ to.attempt = call[r].attempt
          /\ to.copy = copy /\ to.base = call[r].base
      BY <1>a, <2>0 DEF CallRecord
    <3>3. /\ SetCall(r, to) \/ SetCall(r, Ended("done"))
          /\ UNCHANGED invoice /\ At(r, "claiming")
      BY <2>3 DEF ClaimReconciliation, TakeLease
    <3> HIDE DEF copy, to
    <3>4. Held(to)
      BY <1>a, <2>0, <3>1, <3>2, <3>3, HeldMoved DEF At
    <3> QED
      BY <2>0, <3>3, <3>4, BelongMoves, HeldEnded
  <2>4. CASE Query(r)
    BY <1>6, <2>0, <2>4 DEF Query, At
  <2>5. CASE QueryRaises(r)
    BY <2>0, <2>5, BelongMoves, HeldEnded DEF QueryRaises
  <2> QED
    BY <1>8, <2>1, <2>2, <2>3, <2>4, <2>5 DEF ReconcilerStep
<1>9. ASSUME NEW c \in Sender \cup Reconciler, ResultStep(c) PROVE BelongInv'
  <2>0. c \in Caller
    BY DEF Caller
  <2>1. CASE Finalize(c) /\ CanFinalize(c)
    <3> DEFINE saved == Finalized(c)
               to == [call[c] EXCEPT !.pc = "link", !.copy = saved]
    <3>1. saved.attempt = call[c].copy.attempt
      BY <1>a, <2>0 DEF Finalized, InvoiceRecord
    <3>2. /\ to.invoice = call[c].invoice /\ to.attempt = call[c].attempt
          /\ to.copy = saved /\ to.base = call[c].base
      BY <1>a, <2>0 DEF CallRecord
    <3>3. /\ SetCall(c, to) \/ SetCall(c, Ended("done"))
          /\ SetInvoice(call[c].invoice, saved) /\ At(c, "finalizing")
      BY <2>1 DEF Finalize, CloseBoth, AfterFinalize
    <3>4. Belongs(saved.attempt, call[c].invoice)
      BY <2>0, <3>1 DEF BelongInv, Held
    <3> HIDE DEF saved, to
    <3>5. Held(to)
      BY <1>a, <2>0, <3>1, <3>2, <3>3, HeldMoved DEF At
    <3> QED
      BY <2>0, <3>3, <3>4, <3>5, BelongMoves, HeldEnded
  <2>2. CASE Finalize(c) /\ ~CanFinalize(c)
    BY <2>0, <2>2, BelongMoves, HeldEnded DEF Finalize
  <2>3. CASE Link(c)
    <3> DEFINE copy == [call[c].copy EXCEPT !.ref = TRUE]
               to == [call[c] EXCEPT !.pc = "save", !.copy = copy]
    <3>1. copy.attempt = call[c].copy.attempt
      BY <1>a, <2>0 DEF InvoiceRecord
    <3>2. /\ to.invoice = call[c].invoice /\ to.attempt = call[c].attempt
          /\ to.copy = copy /\ to.base = call[c].base
      BY <1>a, <2>0 DEF CallRecord
    <3>3. SetCall(c, to) /\ UNCHANGED invoice /\ At(c, "link")
      BY <2>3 DEF Link
    <3> HIDE DEF copy, to
    <3>4. Held(to)
      BY <1>a, <2>0, <3>1, <3>2, <3>3, HeldMoved DEF At
    <3> QED
      BY <2>0, <3>3, <3>4, BelongMoves
  <2>4. CASE LinkRaises(c)
    BY <1>5, <2>0, <2>4 DEF LinkRaises, At
  <2> QED
    BY <1>9, <2>1, <2>2, <2>3, <2>4 DEF ResultStep
<1> QED
  BY <1>1, <1>2, <1>3, <1>4, <1>7, <1>8, <1>9 DEF Next

LEMMA BelongInvariant == Spec => [](TypeInv /\ RecordInv /\ BelongInv)
<1>1. Init => TypeInv /\ RecordInv /\ BelongInv
  BY TypeInit, RecordInit, BelongInit
<1>2. TypeInv /\ RecordInv /\ BelongInv /\ [Next]_vars => (TypeInv /\ RecordInv /\ BelongInv)'
  BY TypeStep, RecordStep, BelongStep
<1> QED
  BY <1>1, <1>2, PTL DEF Spec

-----------------------------------------------------------------------------
(* "sent" has an acceptance of the provider behind it, under the number.    *)

Confirms(c) == call[c].pc = "finalizing" /\ call[c].outcome = "sent"

TakenOne(i) == i \in Invoice /\ Taken(i)

SentInv ==
  /\ \A s \in Sender : attempt[s].state = "sent" => TakenOne(attempt[s].invoice)
  /\ \A c \in Caller : Confirms(c) => TakenOne(call[c].invoice)

LEMMA SentInit == Init => SentInv
  BY DEF Init, SentInv, Confirms, NoAttempt, NoCall

\* The provider never takes an acceptance back, and nobody overwrites it.
LEMMA AcceptanceStays ==
  ASSUME TypeInv, RecordInv, [Next]_vars,
         NEW s \in Sender, request[s] = "accepted"
  PROVE  request'[s] = "accepted"
<1>1. CASE \E t \in Sender : Submit(t)
  BY <1>1 DEF Submit, RecordInv, TypeInv, TypeOK, At
<1>2. CASE \E t \in Sender : ProviderDecides(t)
  BY <1>2 DEF ProviderDecides, TypeInv, TypeOK
<1>3. CASE ~\E t \in Sender : Submit(t) \/ ProviderDecides(t)
  BY <1>3 DEF Next, vars, SenderStep, ReconcilerStep, CallerStep, ResultStep, CreateDraft,
     Approve, Claim, TakeClaim, PassPreflight, StartRequest, RefuseLocally, Answer,
     LoseAnswer, StoreRaises, BecomeStale, ExpireLease, ReadInvoice, LoadAttempt,
     ClaimReconciliation, Query, QueryRaises, Finalize, Link, LinkRaises, SaveRead,
     SaveWrite, Crash
<1> QED
  BY <1>1, <1>2, <1>3

LEMMA TakenStays ==
  ASSUME TypeInv, RecordInv, [Next]_vars, NEW i, TakenOne(i)
  PROVE  i \in Invoice /\ \E s \in Sender : /\ attempt'[s].invoice \in Invoice
                                            /\ numberOf[attempt'[s].invoice] = numberOf[i]
                                            /\ request'[s] = "accepted"
<1>1. PICK s \in Sender : /\ attempt[s].invoice \in Invoice
                          /\ numberOf[attempt[s].invoice] = numberOf[i]
                          /\ request[s] = "accepted"
  BY DEF TakenOne, Taken, Namesakes
<1>2. attempt[s] # NoAttempt
  BY <1>1, CallersDisjoint DEF NoAttempt
<1> QED
  BY <1>1, <1>2, AcceptanceStays, StableStep DEF Stable, TakenOne

LEMMA SentKept ==
  ASSUME TypeInv, RecordInv, SentInv, [Next]_vars,
         \A s \in Sender : attempt'[s].state = "sent" =>
           attempt[s].state = "sent" \/ TakenOne(attempt[s].invoice),
         \A c \in Caller : call'[c].pc = "finalizing" /\ call'[c].outcome = "sent" =>
           \/ Confirms(c) /\ call'[c].invoice = call[c].invoice
           \/ TakenOne(call'[c].invoice)
  PROVE  SentInv'
<1>1. ASSUME NEW s \in Sender, attempt'[s].state = "sent"
      PROVE  attempt'[s].invoice \in Invoice /\
             \E t \in Sender : /\ attempt'[t].invoice \in Invoice
                               /\ numberOf[attempt'[t].invoice] = numberOf[attempt'[s].invoice]
                               /\ request'[t] = "accepted"
  <2>1. TakenOne(attempt[s].invoice)
    BY <1>1 DEF SentInv
  <2>2. attempt[s].invoice \in Invoice
    BY <2>1, TakenStays
  <2>3. attempt[s] # NoAttempt
    BY <2>2, CallersDisjoint DEF NoAttempt
  <2>4. attempt'[s].invoice = attempt[s].invoice
    BY <2>3, StableStep DEF Stable
  <2> QED
    BY <2>1, <2>4, TakenStays
<1>2. ASSUME NEW c \in Caller, call'[c].pc = "finalizing", call'[c].outcome = "sent"
      PROVE  call'[c].invoice \in Invoice /\
             \E t \in Sender : /\ attempt'[t].invoice \in Invoice
                               /\ numberOf[attempt'[t].invoice] = numberOf[call'[c].invoice]
                               /\ request'[t] = "accepted"
  <2>1. TakenOne(call'[c].invoice)
    BY <1>2 DEF SentInv
  <2> QED
    BY <2>1, TakenStays
<1> QED
  BY <1>1, <1>2 DEF SentInv, TakenOne, Taken, Namesakes, Confirms

\* A step that moves one call and closes no attempt.
LEMMA SentMoves ==
  ASSUME TypeInv, RecordInv, SentInv, [Next]_vars,
         NEW c \in Caller, NEW to, SetCall(c, to),
         to.pc = "finalizing" /\ to.outcome = "sent" => TakenOne(to.invoice),
         \A s \in Sender : attempt'[s].state = "sent" =>
           attempt[s].state = "sent" \/ TakenOne(attempt[s].invoice)
  PROVE  SentInv'
  BY OthersStay, SentKept DEF Confirms

LEMMA ClosingSent ==
  ASSUME TypeInv, BelongInv, SentInv, NEW c \in Sender \cup Reconciler, NEW state,
         call[c].attempt \in Sender, CloseAttempt(call[c].attempt, state),
         state = "sent" => TakenOne(call[c].invoice)
  PROVE  \A s \in Sender : attempt'[s].state = "sent" =>
           attempt[s].state = "sent" \/ TakenOne(attempt[s].invoice)
<1> DEFINE a == call[c].attempt
           to == [attempt[a] EXCEPT !.state = state, !.owner = None, !.lease = "none"]
<1>1. c \in Caller /\ a # None
  BY CallersDisjoint DEF Caller
<1>2. attempt[a].invoice = call[c].invoice
  BY <1>1 DEF BelongInv, Held, Belongs
<1>3. to.state = state
  BY DEF TypeInv, TypeOK, AttemptRecord
<1>4. SetAttempt(a, to)
  BY DEF CloseAttempt
<1> HIDE DEF to
<1>5. \A s \in Sender : attempt'[s] = IF s = a THEN to ELSE attempt[s]
  BY <1>4 DEF SetAttempt, TypeInv, TypeOK
<1> QED
  BY <1>2, <1>3, <1>5

LEMMA SentStep ==
  TypeInv /\ RecordInv /\ BelongInv /\ SentInv /\ [Next]_vars => SentInv'
<1> SUFFICES ASSUME TypeInv, RecordInv, BelongInv, SentInv, [Next]_vars PROVE SentInv'
  OBVIOUS
<1> DEFINE Calm == \A s \in Sender : attempt'[s].state = "sent" =>
                     attempt[s].state = "sent" \/ TakenOne(attempt[s].invoice)
<1>a. ASSUME UNCHANGED call, Calm PROVE SentInv'
  BY <1>a, SentKept DEF Confirms
<1>b. ASSUME UNCHANGED attempt PROVE Calm
  BY <1>b
<1>c. ASSUME NEW c \in Caller, NEW to, SetCall(c, to), to.pc # "finalizing", Calm
      PROVE  SentInv'
  BY <1>c, SentMoves
<1>d. ASSUME NEW c \in Caller PROVE call[c] \in CallRecord
  BY <1>d DEF TypeInv, TypeOK
<1>e. ASSUME NEW c \in Caller, NEW outcome, Conclude(c, outcome), Calm,
             outcome = "sent" => TakenOne(call[c].invoice)
      PROVE  SentInv'
  <2> DEFINE to == [call[c] EXCEPT !.pc = "finalizing", !.outcome = outcome]
  <2>1. to.invoice = call[c].invoice /\ to.outcome = outcome
    BY <1>d, <1>e DEF CallRecord
  <2>2. SetCall(c, to)
    BY <1>e DEF Conclude
  <2> HIDE DEF to
  <2> QED
    BY <1>e, <2>1, <2>2, SentMoves
<1>f. ASSUME NEW s \in Sender, NEW to, SetAttempt(s, to), to.state # "sent" PROVE Calm
  BY <1>f DEF SetAttempt, TypeInv, TypeOK
<1> HIDE DEF Calm
<1>1. CASE UNCHANGED vars
  BY <1>a, <1>b, <1>1 DEF vars
<1>2. ASSUME NEW i \in Invoice, CreateDraft(i) PROVE SentInv'
  BY <1>a, <1>b, <1>2 DEF CreateDraft
<1>3. ASSUME NEW p \in Approver, NEW i \in Invoice, Approve(p, i) PROVE SentInv'
  <2> DEFINE to == [NoCall EXCEPT !.pc = "save", !.invoice = i,
                                  !.copy = [invoice[i] EXCEPT !.status = "approved"]]
  <2>1. to.pc = "save"
    BY DEF NoCall
  <2>2. SetCall(p, to) /\ UNCHANGED attempt /\ p \in Caller
    BY <1>3 DEF Approve, Caller
  <2> HIDE DEF to
  <2> QED
    BY <1>b, <1>c, <2>1, <2>2
<1>4. ASSUME NEW c \in Caller, CallerStep(c) PROVE SentInv'
  <2>1. UNCHANGED attempt
    BY <1>4 DEF CallerStep, SaveRead, SaveWrite, Crash
  <2>2. CASE SaveRead(c)
    <3> DEFINE to == [call[c] EXCEPT !.pc = "write", !.base = invoice[call[c].invoice]]
    <3>1. to.pc = "write"
      BY <1>d DEF CallRecord
    <3>2. SetCall(c, to)
      BY <2>2 DEF SaveRead
    <3> HIDE DEF to
    <3> QED
      BY <1>b, <1>c, <2>1, <3>1, <3>2
  <2>3. CASE SaveWrite(c)
    <3> DEFINE saved == Merge(call[c].base, call[c].copy)
               to == AfterSave(c, saved)
    <3>1. to.pc \in {"query", "done"}
      BY <1>d, EndedPc DEF AfterSave, CallRecord
    <3>2. SetCall(c, to)
      BY <2>3 DEF SaveWrite
    <3> HIDE DEF to
    <3> QED
      BY <1>b, <1>c, <2>1, <3>1, <3>2
  <2>4. CASE Crash(c)
    BY <1>b, <1>c, <2>1, <2>4, EndedPc DEF Crash
  <2> QED
    BY <1>4, <2>2, <2>3, <2>4 DEF CallerStep
<1>5. ASSUME NEW s \in Sender, SenderStep(s) PROVE SentInv'
  <2>0. s \in Caller /\ attempt[s] \in AttemptRecord /\ call[s] \in CallRecord
    BY DEF TypeInv, TypeOK, Caller
  <2>1. ASSUME NEW i \in Invoice, NEW k \in Key, Claim(s, i, k) PROVE SentInv'
    <3> DEFINE to == [NoCall EXCEPT !.pc = "claimed", !.invoice = i, !.attempt = s,
                        !.copy = [invoice[i] EXCEPT !.status = "sending", !.attempt = s]]
               new == [NoAttempt EXCEPT !.state = "claimed", !.invoice = i, !.key = k]
    <3>1. SetCall(s, to) /\ SetAttempt(s, new)
      BY <2>1 DEF Claim, TakeClaim
    <3>2. to.pc = "claimed" /\ new.state = "claimed"
      BY DEF NoCall, NoAttempt
    <3> HIDE DEF to, new
    <3> QED
      BY <1>c, <1>f, <2>0, <3>1, <3>2
  <2>2. ASSUME NEW state \in {"preflight_passed", "request_started"}, Append(s, state)
        PROVE  Calm
    <3> DEFINE new == [attempt[s] EXCEPT !.state = state, !.owner = None, !.lease = "none",
                                         !.started = @ \/ state = "request_started"]
    <3>1. new.state = state
      BY <2>0 DEF AttemptRecord
    <3>2. SetAttempt(s, new)
      BY <2>2 DEF Append
    <3> HIDE DEF new
    <3> QED
      BY <1>f, <2>2, <3>1, <3>2
  <2>3. ASSUME NEW pc, Goto(s, pc), pc # "finalizing", Calm PROVE SentInv'
    <3>1. [call[s] EXCEPT !.pc = pc].pc = pc
      BY <2>0 DEF CallRecord
    <3> QED
      BY <1>c, <2>0, <2>3, <3>1 DEF Goto
  <2>4. CASE PassPreflight(s) \/ StartRequest(s)
    BY <2>2, <2>3, <2>4 DEF PassPreflight, StartRequest
  <2>5. CASE Submit(s)
    BY <1>b, <2>3, <2>5 DEF Submit
  <2>6. CASE RefuseLocally(s) \/ LoseAnswer(s) \/ (Answer(s) /\ request[s] = "rejected")
    BY <1>b, <1>e, <2>0, <2>6 DEF RefuseLocally, LoseAnswer, Answer, Unresolved
  <2>7. CASE Answer(s) /\ request[s] # "rejected"
    <3> DEFINE to == [call[s] EXCEPT !.pc = "finalizing", !.outcome = "sent",
                                     !.copy = [@ EXCEPT !.provider = TRUE]]
    <3>1. /\ At(s, "submitted") /\ SetCall(s, to) /\ UNCHANGED attempt
          /\ request[s] = "accepted"
      BY <2>7 DEF Answer
    <3>2. call[s].attempt = s /\ s # None
      BY <2>0, <3>1, CallersDisjoint DEF TypeInv, CallOK, At, Dispatching
    <3>3. attempt[s].invoice = call[s].invoice
      BY <2>0, <3>2 DEF BelongInv, Held, Belongs
    <3>4. TakenOne(call[s].invoice)
      BY <2>0, <3>1, <3>3 DEF TakenOne, Taken, Namesakes, TypeInv, CallOK, At
    <3>5. to.invoice = call[s].invoice
      BY <2>0 DEF CallRecord
    <3> HIDE DEF to
    <3> QED
      BY <1>b, <2>0, <3>1, <3>4, <3>5, SentMoves DEF Calm
  <2>8. CASE StoreRaises(s)
    <3>1. Calm
      <4>1. CASE UNCHANGED attempt
        BY <1>b, <4>1
      <4>2. CASE Append(s, "preflight_passed") \/ Append(s, "request_started")
        BY <2>2, <4>2
      <4>3. CASE At(s, "finalizing") /\ call[s].outcome = "sent" /\ CloseBoth(s)
        <5>1. TakenOne(call[s].invoice)
          BY <2>0, <4>3 DEF SentInv, Confirms, At
        <5> QED
          BY <4>3, <5>1, Concluded, ClosingSent DEF CloseBoth, Calm
      <4> QED
        BY <2>8, <4>1, <4>2, <4>3 DEF StoreRaises
    <3> QED
      BY <1>e, <2>0, <2>8, <3>1 DEF StoreRaises
  <2>9. CASE ProviderDecides(s)
    BY <1>a, <1>b, <2>9 DEF ProviderDecides
  <2>10. CASE BecomeStale(s) \/ ExpireLease(s)
    <3>1. PICK to : /\ to \in {[attempt[s] EXCEPT !.stale = TRUE],
                               [attempt[s] EXCEPT !.lease = "expired"]}
                    /\ SetAttempt(s, to)
      BY <2>10 DEF BecomeStale, ExpireLease
    <3>2. to.state = attempt[s].state
      BY <2>0, <3>1 DEF AttemptRecord
    <3>3. Calm
      BY <3>1, <3>2 DEF Calm, SetAttempt, TypeInv, TypeOK
    <3> QED
      BY <1>a, <2>10, <3>3 DEF BecomeStale, ExpireLease
  <2> QED
    BY <1>5, <2>1, <2>4, <2>5, <2>6, <2>7, <2>8, <2>9, <2>10 DEF SenderStep
<1>6. ASSUME NEW r \in Reconciler, ReconcilerStep(r) PROVE SentInv'
  <2>0. r \in Caller /\ call[r] \in CallRecord
    BY DEF TypeInv, TypeOK, Caller
  <2>1. ASSUME NEW i \in Invoice, ReadInvoice(r, i) PROVE SentInv'
    <3> DEFINE to == [NoCall EXCEPT !.pc = "loading", !.invoice = i,
                                    !.attempt = invoice[i].attempt, !.copy = invoice[i]]
    <3>1. to.pc = "loading"
      BY DEF NoCall
    <3>2. SetCall(r, to) /\ UNCHANGED attempt
      BY <2>1 DEF ReadInvoice
    <3> HIDE DEF to
    <3> QED
      BY <1>b, <1>c, <2>0, <3>1, <3>2
  <2>2. CASE LoadAttempt(r)
    <3> DEFINE to == [call[r] EXCEPT !.pc = "claiming", !.stale = attempt[call[r].attempt].stale]
    <3>1. to.pc = "claiming"
      BY <2>0 DEF CallRecord
    <3>2. (SetCall(r, to) \/ SetCall(r, Ended("done"))) /\ UNCHANGED attempt
      BY <2>2 DEF LoadAttempt
    <3> HIDE DEF to
    <3> QED
      BY <1>b, <1>c, <2>0, <3>1, <3>2, EndedPc
  <2>3. CASE ClaimReconciliation(r)
    <3> DEFINE copy == [call[r].copy EXCEPT !.status = Unresolved]
               a == call[r].attempt
               leased == [attempt[a] EXCEPT !.state = "reconciling", !.owner = r,
                                            !.lease = "active"]
               to == [call[r] EXCEPT !.copy = copy,
                        !.pc = IF call[r].copy.status = "sending" THEN "save" ELSE "query"]
    <3>1. a \in Sender /\ attempt[a] \in AttemptRecord
      BY <2>0, <2>3 DEF ClaimReconciliation, At, TypeInv, TypeOK, CallOK, Reconciling
    <3>2. leased.state = "reconciling" /\ to.pc # "finalizing"
      BY <2>0, <3>1 DEF AttemptRecord, CallRecord
    <3>3. \/ SetAttempt(a, leased) /\ SetCall(r, to)
          \/ UNCHANGED attempt /\ SetCall(r, Ended("done"))
      BY <2>3 DEF ClaimReconciliation, TakeLease
    <3> HIDE DEF leased, to
    <3> QED
      BY <1>b, <1>c, <1>f, <2>0, <3>1, <3>2, <3>3, EndedPc
  <2>4. CASE Query(r)
    <3>1. PICK outcome \in QueryAnswer(call[r].invoice) : Conclude(r, outcome)
      BY <2>4 DEF Query
    <3>2. outcome = "sent" => TakenOne(call[r].invoice)
      BY <2>0, <2>4, <3>1 DEF QueryAnswer, TakenOne, Taken, Unresolved, Query, At, TypeInv, CallOK
    <3>3. UNCHANGED attempt
      BY <2>4 DEF Query
    <3> QED
      BY <1>b, <1>e, <2>0, <3>1, <3>2, <3>3
  <2>5. CASE QueryRaises(r)
    <3>1. call[r].attempt \in Sender
      BY <2>0, <2>5 DEF QueryRaises, At, TypeInv, CallOK, Reconciling
    <3>2. Calm
      <4>1. CASE CanFinalize(r)
        BY <2>5, <3>1, <4>1, ClosingSent DEF QueryRaises, Unresolved, Calm
      <4>2. CASE ~CanFinalize(r)
        BY <1>b, <2>5, <4>2 DEF QueryRaises
      <4> QED BY <4>1, <4>2
    <3> QED
      BY <1>c, <2>0, <2>5, <3>2, EndedPc DEF QueryRaises
  <2> QED
    BY <1>6, <2>1, <2>2, <2>3, <2>4, <2>5 DEF ReconcilerStep
<1>7. ASSUME NEW c \in Sender \cup Reconciler, ResultStep(c) PROVE SentInv'
  <2>0. c \in Caller /\ call[c] \in CallRecord
    BY DEF TypeInv, TypeOK, Caller
  <2>1. CASE Finalize(c) /\ CanFinalize(c)
    <3> DEFINE to == [call[c] EXCEPT !.pc = "link", !.copy = Finalized(c)]
    <3>1. At(c, "finalizing") /\ CloseBoth(c)
            /\ (SetCall(c, to) \/ SetCall(c, Ended("done")))
      BY <2>1 DEF Finalize, AfterFinalize
    <3>2. call[c].outcome = "sent" => TakenOne(call[c].invoice)
      BY <2>0, <3>1 DEF SentInv, Confirms, At
    <3>3. Calm
      BY <3>1, <3>2, Concluded, ClosingSent DEF CloseBoth, Calm
    <3>4. to.pc = "link"
      BY <2>0 DEF CallRecord
    <3> HIDE DEF to
    <3> QED
      BY <1>c, <2>0, <3>1, <3>3, <3>4, EndedPc
  <2>2. CASE Finalize(c) /\ ~CanFinalize(c)
    BY <1>b, <1>c, <2>0, <2>2, EndedPc DEF Finalize
  <2>3. CASE Link(c) \/ LinkRaises(c)
    <3>1. UNCHANGED attempt
      BY <2>3 DEF Link, LinkRaises
    <3> DEFINE linked == [call[c] EXCEPT !.pc = "save", !.copy = [@ EXCEPT !.ref = TRUE]]
               noted == [call[c] EXCEPT !.pc = "save"]
    <3>2. linked.pc = "save" /\ noted.pc = "save"
      BY <2>0 DEF CallRecord
    <3>3. SetCall(c, linked) \/ SetCall(c, noted)
      BY <2>3 DEF Link, LinkRaises, Goto
    <3> HIDE DEF linked, noted
    <3> QED
      BY <1>b, <1>c, <2>0, <3>1, <3>2, <3>3
  <2> QED
    BY <1>7, <2>1, <2>2, <2>3 DEF ResultStep
<1> QED
  BY <1>1, <1>2, <1>3, <1>4, <1>5, <1>6, <1>7 DEF Next

\* "sent" is only ever written with an acceptance by the provider behind it, of a document
\* of the invoice's number, whichever call writes it and however late its answer came.
THEOREM SentAccepted == Spec => []SentIsAccepted
<1>1. TypeInv /\ RecordInv /\ BelongInv /\ SentInv /\ [Next]_vars => SentInv'
  BY SentStep
<1>2. SentInv => SentIsAccepted
  BY DEF SentInv, SentIsAccepted, TakenOne
<1> QED
  BY <1>1, <1>2, SentInit, BelongInvariant, PTL DEF Spec

-----------------------------------------------------------------------------
(* A reconciliation is ended by the owner on record.                       *)

EndedByOwner(s) ==
  (attempt[s].state = "reconciling" /\ attempt'[s].state # "reconciling")
    => \E r \in Reconciler :
         /\ attempt[s].owner = r
         /\ call[r].attempt = s
         /\ call'[r] # call[r]

\* A call that may finalize closes its own attempt only, and moves on.
LEMMA OwnerCloses ==
  ASSUME TypeInv, NEW c \in Sender \cup Reconciler, CanFinalize(c), NEW state, NEW to,
         CloseAttempt(call[c].attempt, state), SetCall(c, to), to.pc # call[c].pc
  PROVE  \A s \in Sender : EndedByOwner(s)
<1>1. \A s \in Sender : s # call[c].attempt => attempt'[s] = attempt[s]
  BY DEF CloseAttempt, SetAttempt, TypeInv, TypeOK
<1>2. call'[c] # call[c]
  BY OthersStay DEF Caller
<1>3. c \in Sender => attempt[call[c].attempt].state # "reconciling"
  BY DEF CanFinalize
<1>4. c \in Reconciler => attempt[call[c].attempt].owner = c
  BY CallersDisjoint DEF CanFinalize
<1> QED
  BY <1>1, <1>2, <1>3, <1>4 DEF EndedByOwner

LEMMA OwnerStep ==
  TypeInv /\ RecordInv /\ [Next]_vars => [\A s \in Sender : EndedByOwner(s)]_vars
<1> DEFINE Ends == \A s \in Sender : EndedByOwner(s)
<1> SUFFICES ASSUME TypeInv, RecordInv, Next PROVE Ends
  OBVIOUS
<1>0. ASSUME UNCHANGED attempt PROVE Ends
  BY <1>0 DEF EndedByOwner
<1>1. ASSUME NEW s \in Sender, \A t \in Sender : t # s => attempt'[t] = attempt[t],
             \/ attempt[s].state # "reconciling"
             \/ attempt'[s].state = attempt[s].state
             \/ attempt'[s].state = "reconciling"
      PROVE  Ends
  BY <1>1 DEF EndedByOwner
<1>2. ASSUME NEW s \in Sender, NEW state \in {"preflight_passed", "request_started"},
             Append(s, state), attempt[s].state # "reconciling"
      PROVE  Ends
  BY <1>1, <1>2, Appended
<1>3. ASSUME NEW s \in Sender, SenderStep(s) PROVE Ends
  <2>0. s \in Caller /\ attempt[s] \in AttemptRecord /\ call[s] \in CallRecord
    BY DEF TypeInv, TypeOK, Caller
  <2>1. ASSUME NEW i \in Invoice, NEW k \in Key, Claim(s, i, k) PROVE Ends
    <3>1. attempt[s].state # "reconciling"
      BY <2>1 DEF Claim, RecordInv, NoAttempt
    <3>2. \A t \in Sender : t # s => attempt'[t] = attempt[t]
      BY <2>1 DEF Claim, TakeClaim, SetAttempt, TypeInv, TypeOK
    <3> QED
      BY <1>1, <3>1, <3>2
  <2>2. CASE PassPreflight(s)
    BY <1>2, <2>2 DEF PassPreflight, RecordInv
  <2>3. CASE StartRequest(s)
    BY <1>2, <2>3 DEF StartRequest, RecordInv
  <2>4. CASE Submit(s) \/ RefuseLocally(s) \/ Answer(s) \/ LoseAnswer(s) \/ ProviderDecides(s)
    BY <1>0, <2>4 DEF Submit, RefuseLocally, Answer, LoseAnswer, ProviderDecides
  <2>5. CASE StoreRaises(s)
    <3>1. CASE UNCHANGED attempt
      BY <1>0, <3>1
    <3>2. CASE At(s, "claimed") /\ Append(s, "preflight_passed")
      BY <1>2, <3>2 DEF RecordInv
    <3>3. CASE At(s, "preflight") /\ Append(s, "request_started")
      BY <1>2, <3>3 DEF RecordInv
    <3>4. CASE At(s, "finalizing") /\ CanFinalize(s) /\ CloseBoth(s)
      <4>1. attempt[call[s].attempt].state # "reconciling"
        BY <3>4 DEF CanFinalize
      <4>2. \A t \in Sender : t # call[s].attempt => attempt'[t] = attempt[t]
        BY <3>4 DEF CloseBoth, CloseAttempt, SetAttempt, TypeInv, TypeOK
      <4> QED
        BY <1>1, <3>4, <4>1, <4>2, Concluded
    <3> QED
      BY <2>5, <3>1, <3>2, <3>3, <3>4 DEF StoreRaises
  <2>6. CASE BecomeStale(s) \/ ExpireLease(s)
    <3>1. PICK to : /\ to \in {[attempt[s] EXCEPT !.stale = TRUE],
                               [attempt[s] EXCEPT !.lease = "expired"]}
                    /\ SetAttempt(s, to)
      BY <2>6 DEF BecomeStale, ExpireLease
    <3>2. to.state = attempt[s].state
      BY <2>0, <3>1 DEF AttemptRecord
    <3>3. \A t \in Sender : attempt'[t] = IF t = s THEN to ELSE attempt[t]
      BY <3>1 DEF SetAttempt, TypeInv, TypeOK
    <3> QED
      BY <1>1, <3>2, <3>3
  <2> QED
    BY <1>3, <2>1, <2>2, <2>3, <2>4, <2>5, <2>6 DEF SenderStep
<1>4. ASSUME NEW r \in Reconciler, ReconcilerStep(r) PROVE Ends
  <2>0. r \in Caller /\ call[r] \in CallRecord
    BY DEF TypeInv, TypeOK, Caller
  <2>1. ASSUME NEW i \in Invoice, ReadInvoice(r, i) PROVE Ends
    BY <1>0, <2>1 DEF ReadInvoice
  <2>2. CASE LoadAttempt(r) \/ Query(r)
    BY <1>0, <2>2 DEF LoadAttempt, Query
  <2>3. CASE ClaimReconciliation(r)
    <3> DEFINE a == call[r].attempt
               to == [attempt[a] EXCEPT !.state = "reconciling", !.owner = r,
                                        !.lease = "active"]
    <3>1. a \in Sender /\ attempt[a] \in AttemptRecord
      BY <2>0, <2>3 DEF ClaimReconciliation, At, TypeInv, TypeOK, CallOK, Reconciling
    <3>2. to.state = "reconciling"
      BY <3>1 DEF AttemptRecord
    <3>3. SetAttempt(a, to) \/ UNCHANGED attempt
      BY <2>3 DEF ClaimReconciliation, TakeLease
    <3> HIDE DEF to
    <3>4. CASE SetAttempt(a, to)
      <4>1. \A t \in Sender : attempt'[t] = IF t = a THEN to ELSE attempt[t]
        BY <3>4 DEF SetAttempt, TypeInv, TypeOK
      <4> QED
        BY <1>1, <3>1, <3>2, <4>1
    <3> QED
      BY <1>0, <3>3, <3>4
  <2>4. CASE QueryRaises(r)
    <3>1. CASE CanFinalize(r)
      BY <2>4, <3>1, OwnerCloses, EndedPc DEF QueryRaises, At
    <3>2. CASE ~CanFinalize(r)
      BY <1>0, <2>4, <3>2 DEF QueryRaises
    <3> QED BY <3>1, <3>2
  <2> QED
    BY <1>4, <2>1, <2>2, <2>3, <2>4 DEF ReconcilerStep
<1>5. ASSUME NEW c \in Sender \cup Reconciler, ResultStep(c) PROVE Ends
  <2>1. CASE Finalize(c) /\ CanFinalize(c)
    <3> DEFINE to == [call[c] EXCEPT !.pc = "link", !.copy = Finalized(c)]
    <3>1. /\ At(c, "finalizing")
          /\ CloseAttempt(call[c].attempt, call[c].outcome)
          /\ SetCall(c, to) \/ SetCall(c, Ended("done"))
      BY <2>1 DEF Finalize, CloseBoth, AfterFinalize
    <3>2. to.pc = "link"
      BY Concluded, <3>1 DEF CallRecord
    <3> HIDE DEF to
    <3> QED
      BY <2>1, <3>1, <3>2, OwnerCloses, EndedPc DEF At
  <2>2. CASE (Finalize(c) /\ ~CanFinalize(c)) \/ Link(c) \/ LinkRaises(c)
    BY <1>0, <2>2 DEF Finalize, Link, LinkRaises
  <2> QED
    BY <1>5, <2>1, <2>2 DEF ResultStep
<1>6. ASSUME NEW c \in Caller, CallerStep(c) PROVE Ends
  BY <1>0, <1>6 DEF CallerStep, SaveRead, SaveWrite, Crash
<1>7. ASSUME NEW i \in Invoice, CreateDraft(i) \/ \E p \in Approver : Approve(p, i) PROVE Ends
  BY <1>0, <1>7 DEF CreateDraft, Approve
<1> HIDE DEF Ends
<1> QED
  BY <1>3, <1>4, <1>5, <1>6, <1>7 DEF Next

\* An attempt leaves "reconciling" only by a step of the reconcile() call that
\* holds its lease on record: a call whose lease was taken over, a late sender
\* and a raising store change nothing.
THEOREM OwnerEndsReconciliation == Spec => OnlyOwnerEndsReconciliation
<1>1. (\A s \in Sender : EndedByOwner(s))
        <=> (\A s \in Sender :
               (attempt[s].state = "reconciling" /\ attempt'[s].state # "reconciling")
                 => \E r \in Reconciler : /\ attempt[s].owner = r
                                          /\ call[r].attempt = s
                                          /\ call'[r] # call[r])
  BY DEF EndedByOwner
<1> QED
  BY <1>1, RecordInvariant, OwnerStep, PTL DEF Spec, OnlyOwnerEndsReconciliation

-----------------------------------------------------------------------------
(* Only the UBL of an attempt closed as sent enters the accounting flow.   *)

SourceInv ==
  /\ \A s \in source : attempt[s].state = "sent"
  /\ \A c \in Sender \cup Reconciler :
       At(c, "link") => attempt[call[c].attempt].state = "sent"

LEMMA SourceInit == Init => SourceInv
  BY DEF Init, SourceInv, At, NoCall, Caller

\* How a call comes to its request, to its outcome and to the link.
LEMMA CallComes ==
  ASSUME TypeInv, Next, NEW c \in Sender \cup Reconciler,
         call'[c].pc \in {"started", "finalizing", "link"}
  PROVE  \/ call'[c] = call[c]
         \/ c \in Sender /\ StartRequest(c) /\ call'[c].pc = "started"
         \/ c \in Sender /\ call'[c].pc = "finalizing"
         \/ c \in Reconciler /\ Query(c) /\ call'[c].pc = "finalizing"
         \/ Finalize(c) /\ CanFinalize(c)
<1> DEFINE Comes ==
             \/ call'[c] = call[c]
             \/ c \in Sender /\ StartRequest(c) /\ call'[c].pc = "started"
             \/ c \in Sender /\ call'[c].pc = "finalizing"
             \/ c \in Reconciler /\ Query(c) /\ call'[c].pc = "finalizing"
             \/ Finalize(c) /\ CanFinalize(c)
<1> SUFFICES Comes
  OBVIOUS
<1>0. \A d \in Caller : call[d] \in CallRecord
  BY DEF TypeInv, TypeOK
<1>1. c \in Caller
  BY DEF Caller
<1>2. ASSUME NEW d \in Caller, NEW to, SetCall(d, to),
             to.pc \notin {"started", "finalizing", "link"}
      PROVE  Comes
  BY <1>1, <1>2, OthersStay
<1>3. ASSUME NEW d \in Caller, NEW pc, Goto(d, pc), pc \notin {"started", "finalizing", "link"}
      PROVE  Comes
  BY <1>0, <1>2, <1>3 DEF Goto, CallRecord
<1>4. ASSUME NEW d \in Caller, d # c, NEW to, SetCall(d, to) PROVE Comes
  BY <1>1, <1>4, OthersStay
<1>5. ASSUME NEW s \in Sender, NEW to, SetCall(s, to), to.pc = "finalizing" PROVE Comes
  BY <1>1, <1>5, OthersStay DEF Caller
<1>6. ASSUME NEW d \in Caller, NEW how \in {"done", "crashed"}, SetCall(d, Ended(how))
      PROVE  Comes
  BY <1>2, <1>6, EndedPc
<1>7. CASE UNCHANGED call
  BY <1>7
<1>8. ASSUME NEW d \in Caller, NEW outcome
      PROVE  [call[d] EXCEPT !.pc = "finalizing", !.outcome = outcome].pc = "finalizing"
  BY <1>0 DEF CallRecord
<1>9. ASSUME NEW p \in Approver, NEW i \in Invoice, Approve(p, i) PROVE Comes
  BY <1>2, <1>9 DEF Approve, NoCall, Caller
<1>10. ASSUME NEW s \in Sender, SenderStep(s) PROVE Comes
  <2>0. s \in Caller
    BY DEF Caller
  <2>1. ASSUME NEW i \in Invoice, NEW k \in Key, Claim(s, i, k) PROVE Comes
    BY <1>2, <2>0, <2>1 DEF Claim, TakeClaim, NoCall
  <2>2. CASE Answer(s) /\ request[s] # "rejected"
    BY <1>0, <1>5, <2>0, <2>2 DEF Answer, CallRecord
  <2>3. CASE PassPreflight(s) \/ Submit(s)
    BY <1>3, <2>0, <2>3 DEF PassPreflight, Submit
  <2>4. CASE StartRequest(s)
    <3>1. [call[s] EXCEPT !.pc = "started"].pc = "started"
      BY <1>0, <2>0 DEF CallRecord
    <3> QED
      BY <1>1, <1>4, <2>0, <2>4, <3>1, OthersStay DEF StartRequest, Goto
  <2>5. CASE RefuseLocally(s) \/ LoseAnswer(s) \/ StoreRaises(s)
               \/ (Answer(s) /\ request[s] = "rejected")
    BY <1>5, <1>8, <2>0, <2>5 DEF RefuseLocally, LoseAnswer, StoreRaises, Answer, Conclude
  <2>6. CASE ProviderDecides(s) \/ BecomeStale(s) \/ ExpireLease(s)
    BY <1>7, <2>6 DEF ProviderDecides, BecomeStale, ExpireLease
  <2> QED
    BY <1>10, <2>1, <2>2, <2>3, <2>4, <2>5, <2>6 DEF SenderStep
<1>11. ASSUME NEW r \in Reconciler, ReconcilerStep(r) PROVE Comes
  <2>1. ASSUME NEW i \in Invoice, ReadInvoice(r, i) PROVE Comes
    BY <1>2, <2>1 DEF ReadInvoice, NoCall, Caller
  <2>2. CASE LoadAttempt(r)
    BY <1>0, <1>2, <2>2, EndedPc DEF LoadAttempt, CallRecord, Caller
  <2>3. CASE ClaimReconciliation(r)
    BY <1>0, <1>2, <1>6, <2>3 DEF ClaimReconciliation, TakeLease, CallRecord, Caller
  <2>4. CASE Query(r)
    <3>1. PICK outcome : Conclude(r, outcome)
      BY <2>4 DEF Query
    <3> DEFINE to == [call[r] EXCEPT !.pc = "finalizing", !.outcome = outcome]
    <3>2. r \in Caller /\ SetCall(r, to)
      BY <3>1 DEF Conclude, Caller
    <3>3. to.pc = "finalizing"
      BY <1>8, <3>2
    <3> HIDE DEF to
    <3> QED
      BY <1>4, <2>4, <3>2, <3>3, OthersStay
  <2>5. CASE QueryRaises(r)
    BY <1>6, <2>5 DEF QueryRaises, Caller
  <2> QED
    BY <1>11, <2>1, <2>2, <2>3, <2>4, <2>5 DEF ReconcilerStep
<1>12. ASSUME NEW d \in Sender \cup Reconciler, ResultStep(d) PROVE Comes
  <2>1. CASE Finalize(d) /\ d # c
    BY <1>4, <2>1 DEF Finalize, Caller
  <2>2. CASE Finalize(d) /\ d = c
    BY <1>6, <2>2 DEF Finalize, Caller
  <2>3. CASE Link(d)
    BY <1>0, <1>2, <2>3 DEF Link, CallRecord, Caller
  <2>4. CASE LinkRaises(d)
    BY <1>3, <2>4 DEF LinkRaises, Caller
  <2> QED
    BY <1>12, <2>1, <2>2, <2>3, <2>4 DEF ResultStep
<1>13. ASSUME NEW d \in Caller, CallerStep(d) PROVE Comes
  <2>1. CASE SaveRead(d)
    BY <1>0, <1>2, <2>1 DEF SaveRead, CallRecord
  <2>2. CASE SaveWrite(d)
    BY <1>0, <1>2, <2>2, EndedPc DEF SaveWrite, AfterSave, CallRecord
  <2>3. CASE Crash(d)
    BY <1>6, <2>3 DEF Crash
  <2> QED
    BY <1>13, <2>1, <2>2, <2>3 DEF CallerStep
<1> HIDE DEF Comes
<1> QED
  BY <1>7, <1>9, <1>10, <1>11, <1>12, <1>13 DEF Next, CreateDraft

\* What the closing of an attempt makes of it.
LEMMA ClosedState ==
  ASSUME TypeInv, NEW a \in Sender, NEW state, CloseAttempt(a, state)
  PROVE  /\ attempt'[a].state = state
         /\ \A s \in Sender : s # a => attempt'[s] = attempt[s]
<1> DEFINE to == [attempt[a] EXCEPT !.state = state, !.owner = None, !.lease = "none"]
<1>1. to.state = state
  BY DEF TypeInv, TypeOK, AttemptRecord
<1>2. SetAttempt(a, to)
  BY DEF CloseAttempt
<1> HIDE DEF to
<1> QED
  BY <1>1, <1>2 DEF SetAttempt, TypeInv, TypeOK

LEMMA SourceStep == TypeInv /\ RecordInv /\ SourceInv /\ [Next]_vars => SourceInv'
<1> SUFFICES ASSUME TypeInv, RecordInv, SourceInv, Next PROVE SourceInv'
  BY DEF vars, SourceInv, At
<1>1. \A s \in Sender : attempt[s].state = "sent" => attempt'[s].state = "sent"
  BY VerdictStep DEF Closed, vars
<1>2. source \subseteq Sender
  BY DEF TypeInv, TypeOK
<1>3. \A c \in Sender \cup Reconciler : At(c, "link") => call[c].attempt \in Sender
  BY DEF TypeInv, CallOK, Caller, At, Dispatching, Reconciling
<1>4. ASSUME NEW s \in source' PROVE attempt'[s].state = "sent"
  <2>1. CASE \E c \in Sender \cup Reconciler : Link(c) \/ LinkRaises(c)
    <3>1. PICK c \in Sender \cup Reconciler : Link(c) \/ LinkRaises(c)
      BY <2>1
    <3>2. At(c, "link") /\ s \in source \cup {call[c].attempt}
      BY <1>4, <3>1 DEF Link, LinkRaises
    <3> QED
      BY <1>1, <1>2, <1>3, <3>2 DEF SourceInv
  <2>2. CASE ~\E c \in Sender \cup Reconciler : Link(c) \/ LinkRaises(c)
    <3>1. UNCHANGED source
      BY <2>2 DEF Next, SenderStep, ReconcilerStep, CallerStep, ResultStep, CreateDraft,
         Approve, Claim, TakeClaim, PassPreflight, StartRequest, Submit, RefuseLocally,
         Answer, LoseAnswer, StoreRaises, ProviderDecides, BecomeStale, ExpireLease,
         ReadInvoice, LoadAttempt, ClaimReconciliation, Query, QueryRaises, Finalize,
         SaveRead, SaveWrite, Crash
    <3> QED
      BY <1>1, <1>2, <3>1 DEF SourceInv
  <2> QED BY <2>1, <2>2
<1>5. ASSUME NEW c \in Sender \cup Reconciler, call'[c].pc = "link"
      PROVE  attempt'[call'[c].attempt].state = "sent"
  <2>1. CASE Finalize(c) /\ CanFinalize(c)
    <3> DEFINE to == [call[c] EXCEPT !.pc = "link", !.copy = Finalized(c)]
               a == call[c].attempt
    <3>1. At(c, "finalizing")
      BY <2>1 DEF Finalize
    <3>2. /\ c \in Caller /\ call[c] \in CallRecord
          /\ a \in Sender
          /\ call[c].copy \in InvoiceRecord
      BY <3>1, Concluded DEF CallRecord
    <3>3. call'[c] = AfterFinalize(c)
      BY <2>1, <3>2, OthersStay DEF Finalize
    <3>4. Finalized(c).status = "sent" /\ call'[c] = to
      BY <1>5, <3>3, EndedPc DEF AfterFinalize
    <3>5. call[c].outcome = "sent" /\ to.attempt = a
      BY <3>2, <3>4 DEF Finalized, InvoiceRecord, CallRecord
    <3>6. CloseAttempt(a, call[c].outcome)
      BY <2>1 DEF Finalize, CloseBoth
    <3>7. attempt'[a].state = call[c].outcome
      BY <3>2, <3>6, ClosedState
    <3> QED
      BY <3>4, <3>5, <3>7
  <2>2. CASE ~(Finalize(c) /\ CanFinalize(c))
    <3>1. call'[c] = call[c]
      BY <1>5, <2>2, CallComes
    <3> QED
      BY <1>1, <1>3, <1>5, <3>1 DEF SourceInv, At
  <2> QED BY <2>1, <2>2
<1> QED
  BY <1>4, <1>5 DEF SourceInv, At

-----------------------------------------------------------------------------
(* The receipt of a send, which the link asks for, comes from the          *)
(* provider's acceptance of that very invoice: no query puts it there.     *)

LEMMA AcceptedStays ==
  ASSUME TypeInv, RecordInv, [Next]_vars, NEW i, Accepted(i)
  PROVE  i \in Invoice /\ \E s \in Sender : attempt'[s].invoice = i /\ request'[s] = "accepted"
<1>1. PICK s \in Sender : attempt[s].invoice = i /\ request[s] = "accepted"
  BY DEF Accepted, Attempts
<1>2. attempt[s].started /\ attempt[s].invoice \in Invoice
  BY <1>1 DEF RecordInv, StartedStates, Verdict, Closed, Unresolved
<1>3. attempt[s] # NoAttempt
  BY <1>2 DEF NoAttempt
<1> QED
  BY <1>1, <1>2, <1>3, AcceptanceStays, StableStep DEF Stable

Receipted(to) ==
  /\ to.copy.provider \/ to.base.provider => Accepted(to.invoice)
  /\ to.pc = "link" => to.copy.provider

ReceiptInv ==
  /\ \A i \in Invoice : invoice[i].provider => Accepted(i)
  /\ \A c \in Caller : Receipted(call[c])
  /\ \A s \in source : Accepted(attempt[s].invoice)

LEMMA ReceiptInit == Init => ReceiptInv
  BY DEF Init, ReceiptInv, Receipted, NoInvoice, NoCall

LEMMA ReceiptKept ==
  ASSUME TypeInv, RecordInv, [Next]_vars,
         \A i \in Invoice : invoice'[i].provider => Accepted(i),
         \A c \in Caller : Receipted(call'[c]),
         \A s \in source' : s \in Sender /\ Accepted(attempt[s].invoice)
  PROVE  ReceiptInv'
<1>1. ASSUME NEW i \in Invoice, invoice'[i].provider
      PROVE  \E s \in Sender : attempt'[s].invoice = i /\ request'[s] = "accepted"
  BY <1>1, AcceptedStays
<1>2. ASSUME NEW c \in Caller, call'[c].copy.provider \/ call'[c].base.provider
      PROVE  \E s \in Sender : attempt'[s].invoice = call'[c].invoice /\ request'[s] = "accepted"
  <2>1. Accepted(call'[c].invoice)
    BY <1>2 DEF Receipted
  <2> QED BY <2>1, AcceptedStays
<1>3. ASSUME NEW s \in source'
      PROVE  \E t \in Sender : attempt'[t].invoice = attempt'[s].invoice
                                 /\ request'[t] = "accepted"
  <2>1. s \in Sender /\ Accepted(attempt[s].invoice)
    BY <1>3
  <2>2. attempt[s] # NoAttempt
    BY <2>1, AcceptedStays, CallersDisjoint DEF NoAttempt
  <2>3. attempt'[s].invoice = attempt[s].invoice
    BY <2>1, <2>2, StableStep DEF Stable
  <2> QED BY <2>1, <2>3, AcceptedStays
<1> QED
  BY <1>1, <1>2, <1>3 DEF ReceiptInv, Receipted, Accepted, Attempts

\* A step that moves one call, and sets no invoice or the call's.
LEMMA ReceiptMoves ==
  ASSUME TypeInv, RecordInv, ReceiptInv, [Next]_vars,
         NEW c \in Caller, NEW to, SetCall(c, to), Receipted(to),
         \/ UNCHANGED invoice
         \/ \E i, new : SetInvoice(i, new) /\ (new.provider => Accepted(i)),
         \/ UNCHANGED source
         \/ \E a \in Sender : source' = source \cup {a} /\ Accepted(attempt[a].invoice)
  PROVE  ReceiptInv'
<1>1. \A i \in Invoice : invoice'[i].provider => Accepted(i)
  BY DEF ReceiptInv, SetInvoice, TypeInv, TypeOK
<1>2. \A d \in Caller : Receipted(call'[d])
  BY OthersStay DEF ReceiptInv
<1>3. \A s \in source' : s \in Sender /\ Accepted(attempt[s].invoice)
  BY DEF ReceiptInv, TypeInv, TypeOK
<1> QED
  BY <1>1, <1>2, <1>3, ReceiptKept

LEMMA ReceiptStep ==
  TypeInv /\ RecordInv /\ BelongInv /\ ReceiptInv /\ [Next]_vars => ReceiptInv'
<1> SUFFICES ASSUME TypeInv, RecordInv, BelongInv, ReceiptInv, [Next]_vars PROVE ReceiptInv'
  OBVIOUS
<1>0. \A c \in Caller : /\ call[c] \in CallRecord
                        /\ call[c].copy \in InvoiceRecord /\ call[c].base \in InvoiceRecord
                        /\ Receipted(call[c])
  BY DEF TypeInv, TypeOK, CallRecord, ReceiptInv
<1>a. Receipted(Ended("done")) /\ Receipted(Ended("crashed"))
  BY EndedPc DEF Receipted, Ended, NoCall, NoInvoice
<1>b. ASSUME UNCHANGED <<call, source>>,
             \A i \in Invoice : invoice'[i].provider => invoice[i].provider
      PROVE  ReceiptInv'
  BY <1>b, ReceiptKept DEF ReceiptInv, TypeInv, TypeOK
<1>c. ASSUME NEW c \in Caller, NEW pc, pc # "link" PROVE Receipted([call[c] EXCEPT !.pc = pc])
  BY <1>0, <1>c DEF Receipted, CallRecord
<1>d. ASSUME NEW c \in Caller, NEW pc, pc # "link", Goto(c, pc), UNCHANGED <<invoice, source>>
      PROVE  ReceiptInv'
  BY <1>c, <1>d, ReceiptMoves DEF Goto
<1>e. ASSUME NEW c \in Caller, NEW outcome
      PROVE  Receipted([call[c] EXCEPT !.pc = "finalizing", !.outcome = outcome])
  BY <1>0 DEF Receipted, CallRecord
<1>f. ASSUME NEW c \in Caller, NEW outcome, Conclude(c, outcome), UNCHANGED source,
             \/ UNCHANGED invoice
             \/ \E i, new : SetInvoice(i, new) /\ (new.provider => Accepted(i))
      PROVE  ReceiptInv'
  BY <1>e, <1>f, ReceiptMoves DEF Conclude
<1>g. ASSUME NEW c \in Caller
      PROVE  Finalized(c).provider => Accepted(call[c].invoice)
  BY <1>0 DEF Receipted, Finalized, InvoiceRecord
<1>h. ASSUME NEW c \in Caller, NEW how \in {"done", "crashed"}, SetCall(c, Ended(how)),
             UNCHANGED <<invoice, source>>
      PROVE  ReceiptInv'
  BY <1>a, <1>h, ReceiptMoves
<1>i. ASSUME NEW i \in Invoice, NEW status, NEW a
      PROVE  LET new == [invoice[i] EXCEPT !.status = status, !.attempt = a]
             IN /\ new.provider => Accepted(i)
                /\ [invoice[i] EXCEPT !.status = status].provider => Accepted(i)
  BY DEF ReceiptInv, TypeInv, TypeOK, InvoiceRecord
<1>j. \A i \in Invoice : invoice[i] \in InvoiceRecord
  BY DEF TypeInv, TypeOK
<1>1. CASE UNCHANGED vars
  BY <1>b, <1>1 DEF vars
<1>2. ASSUME NEW i \in Invoice, CreateDraft(i) PROVE ReceiptInv'
  BY <1>b, <1>2 DEF CreateDraft, SetInvoice, TypeInv, TypeOK, InvoiceRecord
<1>3. ASSUME NEW p \in Approver, NEW i \in Invoice, Approve(p, i) PROVE ReceiptInv'
  <2> DEFINE to == [NoCall EXCEPT !.pc = "save", !.invoice = i,
                                  !.copy = [invoice[i] EXCEPT !.status = "approved"]]
  <2>1. Receipted(to)
    BY <1>i DEF Receipted, NoCall, NoInvoice
  <2>2. p \in Caller /\ SetCall(p, to) /\ UNCHANGED <<invoice, source>>
    BY <1>3 DEF Approve, Caller
  <2> HIDE DEF to
  <2> QED BY <2>1, <2>2, ReceiptMoves
<1>4. ASSUME NEW c \in Caller, CallerStep(c) PROVE ReceiptInv'
  <2>1. CASE SaveRead(c)
    <3> DEFINE to == [call[c] EXCEPT !.pc = "write", !.base = invoice[call[c].invoice]]
    <3>1. call[c].invoice \in Invoice
      BY <2>1 DEF SaveRead, At, TypeInv, CallOK
    <3>2. /\ to.pc = "write" /\ to.invoice = call[c].invoice /\ to.copy = call[c].copy
          /\ to.base = invoice[call[c].invoice]
      BY <1>0 DEF CallRecord
    <3>3. Receipted(to)
      BY <1>0, <3>1, <3>2 DEF Receipted, ReceiptInv
    <3>4. SetCall(c, to) /\ UNCHANGED <<invoice, source>>
      BY <2>1 DEF SaveRead
    <3> HIDE DEF to
    <3> QED BY <3>3, <3>4, ReceiptMoves
  <2>2. CASE SaveWrite(c)
    <3> DEFINE saved == Merge(call[c].base, call[c].copy)
               to == [call[c] EXCEPT !.pc = "query", !.copy = saved, !.base = NoInvoice]
    <3>1. saved.provider => Accepted(call[c].invoice)
      BY <1>0 DEF Merge, Receipted
    <3>2. /\ to.pc = "query" /\ to.invoice = call[c].invoice /\ to.copy = saved
          /\ to.base = NoInvoice
      BY <1>0 DEF CallRecord
    <3>3. Receipted(to)
      BY <3>1, <3>2 DEF Receipted, NoInvoice
    <3>4. /\ SetInvoice(call[c].invoice, saved) /\ UNCHANGED source
          /\ SetCall(c, to) \/ SetCall(c, Ended("done"))
      BY <2>2 DEF SaveWrite, AfterSave
    <3> HIDE DEF saved, to
    <3> QED BY <1>a, <3>1, <3>3, <3>4, ReceiptMoves
  <2>3. CASE Crash(c)
    BY <1>h, <2>3 DEF Crash
  <2> QED
    BY <1>4, <2>1, <2>2, <2>3 DEF CallerStep
<1>5. ASSUME NEW s \in Sender, SenderStep(s) PROVE ReceiptInv'
  <2>0. s \in Caller
    BY DEF Caller
  <2>1. ASSUME NEW i \in Invoice, NEW k \in Key, Claim(s, i, k) PROVE ReceiptInv'
    <3> DEFINE claimed == [invoice[i] EXCEPT !.status = "sending", !.attempt = s]
               to == [NoCall EXCEPT !.pc = "claimed", !.invoice = i, !.attempt = s,
                                    !.copy = claimed]
    <3>1. claimed.provider => Accepted(i)
      BY <1>i
    <3>2. /\ to.pc = "claimed" /\ to.invoice = i /\ to.copy = claimed
          /\ to.base = NoInvoice
      BY DEF NoCall
    <3>3. SetInvoice(i, claimed) /\ SetCall(s, to) /\ UNCHANGED source
      BY <2>1 DEF Claim, TakeClaim
    <3> HIDE DEF claimed, to
    <3>4. Receipted(to)
      BY <3>1, <3>2 DEF Receipted, NoInvoice
    <3> QED BY <2>0, <3>1, <3>3, <3>4, ReceiptMoves
  <2>2. CASE PassPreflight(s) \/ StartRequest(s) \/ Submit(s)
    BY <1>d, <2>0, <2>2 DEF PassPreflight, StartRequest, Submit
  <2>3. CASE RefuseLocally(s) \/ LoseAnswer(s) \/ (Answer(s) /\ request[s] = "rejected")
    BY <1>f, <2>0, <2>3 DEF RefuseLocally, LoseAnswer, Answer
  <2>4. CASE Answer(s) /\ request[s] # "rejected"
    <3> DEFINE to == [call[s] EXCEPT !.pc = "finalizing", !.outcome = "sent",
                                     !.copy = [@ EXCEPT !.provider = TRUE]]
    <3>1. /\ At(s, "submitted") /\ SetCall(s, to) /\ UNCHANGED <<invoice, source>>
          /\ request[s] = "accepted"
      BY <2>4 DEF Answer
    <3>2. call[s].attempt = s /\ s # None
      BY <2>0, <3>1, CallersDisjoint DEF TypeInv, CallOK, At, Dispatching
    <3>3. attempt[s].invoice = call[s].invoice
      BY <2>0, <3>2 DEF BelongInv, Held, Belongs
    <3>4. Accepted(call[s].invoice)
      BY <3>1, <3>3 DEF Accepted, Attempts
    <3>5. to.invoice = call[s].invoice /\ to.pc = "finalizing"
      BY <1>0, <2>0 DEF CallRecord
    <3> HIDE DEF to
    <3> QED
      BY <2>0, <3>1, <3>4, <3>5, ReceiptMoves DEF Receipted
  <2>5. CASE StoreRaises(s)
    <3>1. \/ UNCHANGED invoice
          \/ SetInvoice(call[s].invoice, Finalized(s))
      BY <2>5 DEF StoreRaises, CloseBoth
    <3> QED
      BY <1>f, <1>g, <2>0, <2>5, <3>1 DEF StoreRaises
  <2>6. CASE ProviderDecides(s) \/ BecomeStale(s) \/ ExpireLease(s)
    BY <1>b, <2>6 DEF ProviderDecides, BecomeStale, ExpireLease
  <2> QED
    BY <1>5, <2>1, <2>2, <2>3, <2>4, <2>5, <2>6 DEF SenderStep
<1>6. ASSUME NEW r \in Reconciler, ReconcilerStep(r) PROVE ReceiptInv'
  <2>0. r \in Caller
    BY DEF Caller
  <2>1. ASSUME NEW i \in Invoice, ReadInvoice(r, i) PROVE ReceiptInv'
    <3> DEFINE to == [NoCall EXCEPT !.pc = "loading", !.invoice = i,
                                    !.attempt = invoice[i].attempt, !.copy = invoice[i]]
    <3>1. Receipted(to)
      BY DEF Receipted, NoCall, NoInvoice, ReceiptInv
    <3>2. SetCall(r, to) /\ UNCHANGED <<invoice, source>>
      BY <2>1 DEF ReadInvoice
    <3> HIDE DEF to
    <3> QED BY <2>0, <3>1, <3>2, ReceiptMoves
  <2>2. CASE LoadAttempt(r)
    <3> DEFINE to == [call[r] EXCEPT !.pc = "claiming", !.stale = attempt[call[r].attempt].stale]
    <3>1. Receipted(to)
      BY <1>0, <2>0 DEF Receipted, CallRecord
    <3>2. (SetCall(r, to) \/ SetCall(r, Ended("done"))) /\ UNCHANGED <<invoice, source>>
      BY <2>2 DEF LoadAttempt
    <3> HIDE DEF to
    <3> QED BY <1>h, <2>0, <3>1, <3>2, ReceiptMoves
  <2>3. CASE ClaimReconciliation(r)
    <3> DEFINE copy == [call[r].copy EXCEPT !.status = Unresolved]
               to == [call[r] EXCEPT !.copy = copy,
                        !.pc = IF call[r].copy.status = "sending" THEN "save" ELSE "query"]
    <3>1. copy.provider = call[r].copy.provider
      BY <1>0, <2>0 DEF InvoiceRecord
    <3>2. /\ to.pc # "link" /\ to.invoice = call[r].invoice /\ to.copy = copy
          /\ to.base = call[r].base
      BY <1>0, <2>0 DEF CallRecord
    <3>3. Receipted(to)
      BY <1>0, <2>0, <3>1, <3>2 DEF Receipted
    <3>4. (SetCall(r, to) \/ SetCall(r, Ended("done"))) /\ UNCHANGED <<invoice, source>>
      BY <2>3 DEF ClaimReconciliation, TakeLease
    <3> HIDE DEF copy, to
    <3> QED BY <1>h, <2>0, <3>3, <3>4, ReceiptMoves
  <2>4. CASE Query(r)
    BY <1>f, <2>0, <2>4 DEF Query
  <2>5. CASE QueryRaises(r)
    BY <1>h, <2>0, <2>5 DEF QueryRaises
  <2> QED
    BY <1>6, <2>1, <2>2, <2>3, <2>4, <2>5 DEF ReconcilerStep
<1>7. ASSUME NEW c \in Sender \cup Reconciler, ResultStep(c) PROVE ReceiptInv'
  <2>0. c \in Caller
    BY DEF Caller
  <2>1. CASE Finalize(c) /\ CanFinalize(c)
    <3> DEFINE to == [call[c] EXCEPT !.pc = "link", !.copy = Finalized(c)]
    <3>1. SetInvoice(call[c].invoice, Finalized(c)) /\ SetCall(c, AfterFinalize(c))
          /\ UNCHANGED source
      BY <2>1 DEF Finalize, CloseBoth
    <3>2. /\ to.pc = "link" /\ to.invoice = call[c].invoice /\ to.copy = Finalized(c)
          /\ to.base = call[c].base
      BY <1>0, <2>0 DEF CallRecord
    <3>3. Finalized(c).provider => Receipted(to)
      BY <1>0, <1>g, <2>0, <3>2 DEF Receipted
    <3>4. AfterFinalize(c) = Ended("done") \/ (AfterFinalize(c) = to /\ Finalized(c).provider)
      BY DEF AfterFinalize
    <3>5. Receipted(AfterFinalize(c))
      BY <1>a, <3>3, <3>4
    <3> HIDE DEF to
    <3> QED BY <1>g, <2>0, <3>1, <3>5, ReceiptMoves
  <2>2. CASE Finalize(c) /\ ~CanFinalize(c)
    BY <1>h, <2>0, <2>2 DEF Finalize
  <2>3. CASE Link(c) \/ LinkRaises(c)
    <3> DEFINE linked == [call[c] EXCEPT !.pc = "save", !.copy = [@ EXCEPT !.ref = TRUE]]
               noted == [call[c] EXCEPT !.pc = "save"]
    <3>1. At(c, "link") /\ UNCHANGED invoice
      BY <2>3 DEF Link, LinkRaises
    <3>2. call[c].attempt \in Sender /\ Accepted(call[c].invoice)
      BY <1>0, <2>0, <3>1
         DEF Receipted, At, TypeInv, CallOK, Dispatching, Reconciling
    <3>3. Accepted(attempt[call[c].attempt].invoice)
      <4>1. call[c].attempt # None
        BY <3>2, CallersDisjoint DEF Caller
      <4>2. attempt[call[c].attempt].invoice = call[c].invoice
        BY <2>0, <4>1 DEF BelongInv, Held, Belongs
      <4> QED BY <3>2, <4>2
    <3>4. Receipted(linked) /\ Receipted(noted)
      BY <1>0, <2>0, <3>2 DEF Receipted, CallRecord, InvoiceRecord
    <3>5. SetCall(c, linked) \/ SetCall(c, noted)
      BY <2>3 DEF Link, LinkRaises, Goto
    <3>6. UNCHANGED source \/ source' = source \cup {call[c].attempt}
      BY <2>3 DEF Link, LinkRaises
    <3> HIDE DEF linked, noted
    <3> QED BY <2>0, <3>1, <3>2, <3>3, <3>4, <3>5, <3>6, ReceiptMoves
  <2> QED
    BY <1>7, <2>1, <2>2, <2>3 DEF ResultStep
<1> QED
  BY <1>1, <1>2, <1>3, <1>4, <1>5, <1>6, <1>7 DEF Next

-----------------------------------------------------------------------------
(* One attempt for each invoice, as long as the approvals of an invoice do *)
(* not overlap: a second approve() that saves late takes an invoice back   *)
(* to "approved" under its attempt, and a second attempt is claimed.       *)

ApprovalsApart ==
  \A p, q \in Approver :
    call[p].invoice = call[q].invoice /\ call[p].invoice # None => p = q

\* One approver is enough.
LEMMA OneApproverApart ==
  ASSUME \A p, q \in Approver : p = q
  PROVE  ApprovalsApart
BY DEF ApprovalsApart

Unclaimed == {"absent", "draft", "approved"}

\* An invoice that was not claimed has no attempt.
FreshInv ==
  \A i \in Invoice : invoice[i].status \in Unclaimed =>
    invoice[i].attempt = None /\ Attempts(i) = {}

\* A claimed invoice names its attempt, which is the only one it has and which
\* is closed before the invoice is.
NamedInv ==
  /\ \A i \in Invoice : invoice[i].status \notin Unclaimed =>
       /\ invoice[i].attempt \in Sender
       /\ attempt[invoice[i].attempt].invoice = i
       /\ invoice[i].status \in Closed => attempt[invoice[i].attempt].state \in Closed
  /\ \A s \in Sender : attempt[s].invoice # None => invoice[attempt[s].invoice].attempt = s

\* What a send() or reconcile() holds is never older than the claim.
Sound(to, invoices, attempts) ==
  to.invoice # None =>
    /\ invoices[to.invoice].status \notin Unclaimed
    /\ to.attempt = invoices[to.invoice].attempt
    /\ to.copy.attempt = to.attempt
    /\ to.copy.status \notin Unclaimed
    /\ to.copy.status \in Closed => attempts[to.attempt].state \in Closed

CallInv == \A c \in Sender \cup Reconciler : Sound(call[c], invoice, attempt)

\* An approval works on a draft.
ApproverInv ==
  \A p \in Approver : call[p].invoice # None =>
    /\ invoice[call[p].invoice].status = "draft"
    /\ call[p].copy.status = "approved"
    /\ call[p].copy.attempt = None
    /\ call[p].pc = "write" => call[p].base.attempt = None

Order == FreshInv /\ NamedInv /\ CallInv /\ ApproverInv

LEMMA OrderInit == Init => Order
  BY CallersDisjoint
     DEF Init, Order, FreshInv, NamedInv, CallInv, ApproverInv, Sound, Attempts, Unclaimed,
         NoInvoice, NoAttempt, NoCall, Caller

\* A step that changes the attempt of no invoice.
LEMMA OrderKept ==
  ASSUME TypeInv, RecordInv, Order, [Next]_vars,
         \A i \in Invoice : invoice'[i].attempt = invoice[i].attempt,
         \A i \in Invoice :
           invoice'[i].status \in Unclaimed <=> invoice[i].status \in Unclaimed,
         \A i \in Invoice : invoice'[i].status \in Closed =>
           \/ invoice[i].status \in Closed
           \/ attempt'[invoice[i].attempt].state \in Closed,
         \A c \in Sender \cup Reconciler :
           Sound(call'[c], invoice, attempt) \/ Sound(call'[c], invoice, attempt')
  PROVE  FreshInv' /\ NamedInv' /\ CallInv'
<1>1. \A s \in Sender : attempt'[s].invoice = attempt[s].invoice
  <2>1. ASSUME NEW s \in Sender, NEW i \in Invoice, NEW k \in Key, Claim(s, i, k)
        PROVE  FALSE
    <3>1. invoice[i].attempt = None
      BY <2>1 DEF Claim, Order, FreshInv, Unclaimed
    <3>2. invoice'[i].attempt = s
      BY <2>1 DEF Claim, TakeClaim, SetInvoice, TypeInv, TypeOK, InvoiceRecord
    <3> QED
      BY <3>1, <3>2, CallersDisjoint DEF Caller
  <2> QED
    BY <2>1, StableStep DEF Stable
<1>2. \A s \in Sender : attempt[s].state \in Closed => attempt'[s].state \in Closed
  BY VerdictStep DEF vars
<1>3. TypeInv' /\ None \notin Invoice
  BY TypeStep, CallersDisjoint
<1>4. FreshInv'
  BY <1>1 DEF Order, FreshInv, Attempts
<1>5. NamedInv'
  <2>1. ASSUME NEW i \in Invoice, invoice'[i].status \notin Unclaimed
        PROVE  /\ invoice'[i].attempt \in Sender
               /\ attempt'[invoice'[i].attempt].invoice = i
               /\ invoice'[i].status \in Closed =>
                    attempt'[invoice'[i].attempt].state \in Closed
    BY <1>1, <1>2, <2>1 DEF Order, NamedInv
  <2>2. ASSUME NEW s \in Sender, attempt'[s].invoice # None
        PROVE  invoice'[attempt'[s].invoice].attempt = s
    <3>1. attempt[s].invoice \in Invoice
      BY <1>1, <2>2 DEF TypeInv, TypeOK, AttemptRecord
    <3> QED
      BY <1>1, <2>2, <3>1 DEF Order, NamedInv
  <2> QED
    BY <2>1, <2>2 DEF NamedInv
<1>6. CallInv'
  <2> SUFFICES ASSUME NEW c \in Sender \cup Reconciler, call'[c].invoice # None
               PROVE  /\ invoice'[call'[c].invoice].status \notin Unclaimed
                      /\ call'[c].attempt = invoice'[call'[c].invoice].attempt
                      /\ call'[c].copy.attempt = call'[c].attempt
                      /\ call'[c].copy.status \notin Unclaimed
                      /\ call'[c].copy.status \in Closed =>
                           attempt'[call'[c].attempt].state \in Closed
    BY DEF CallInv, Sound
  <2>1. call'[c].invoice \in Invoice
    BY <1>3 DEF TypeInv, TypeOK, CallRecord, Caller
  <2>2. invoice[call'[c].invoice].status \notin Unclaimed
    BY DEF Sound
  <2>3. invoice[call'[c].invoice].attempt \in Sender
    BY <2>1, <2>2 DEF Order, NamedInv
  <2> QED
    BY <1>2, <2>1, <2>2, <2>3 DEF Sound
<1> QED
  BY <1>4, <1>5, <1>6

\* A step of anything but an approval, after which drafts are drafts.
LEMMA ApproverKept ==
  ASSUME TypeInv, Order,
         \A p \in Approver : call'[p] = call[p],
         \A i \in Invoice : invoice[i].status = "draft" => invoice'[i].status = "draft"
  PROVE  ApproverInv'
<1>1. \A p \in Approver : call[p].invoice \in Invoice \cup {None}
  BY DEF TypeInv, TypeOK, CallRecord, Caller
<1> QED
  BY <1>1 DEF Order, ApproverInv

\* A step of a send() or reconcile() that keeps to its invoice and its attempt.
LEMMA OrderMoves ==
  ASSUME TypeInv, RecordInv, Order, [Next]_vars,
         NEW c \in Sender \cup Reconciler, NEW to, SetCall(c, to),
         Sound(to, invoice, attempt) \/ Sound(to, invoice, attempt'),
         \/ UNCHANGED invoice
         \/ \E new : /\ SetInvoice(call[c].invoice, new)
                     /\ call[c].invoice \in Invoice
                     /\ new.attempt = invoice[call[c].invoice].attempt
                     /\ new.status \notin Unclaimed
                     /\ new.status \in Closed => attempt'[new.attempt].state \in Closed
  PROVE  Order'
<1> DEFINE Mild == /\ \A i \in Invoice : invoice'[i].attempt = invoice[i].attempt
                   /\ \A i \in Invoice :
                        invoice'[i].status \in Unclaimed <=> invoice[i].status \in Unclaimed
                   /\ \A i \in Invoice : invoice'[i].status \in Closed =>
                        \/ invoice[i].status \in Closed
                        \/ attempt'[invoice[i].attempt].state \in Closed
                   /\ \A i \in Invoice :
                        invoice[i].status = "draft" => invoice'[i].status = "draft"
<1>1. /\ call'[c] = to /\ \A d \in Caller : d # c => call'[d] = call[d]
      /\ c \notin Approver /\ None \notin Invoice
  BY OthersStay, CallersDisjoint DEF Caller
<1>2. call[c].invoice \in Invoice => invoice[call[c].invoice].status \notin Unclaimed
  BY <1>1 DEF Order, CallInv, Sound
<1>3. \A d \in Sender \cup Reconciler :
        Sound(call'[d], invoice, attempt) \/ Sound(call'[d], invoice, attempt')
  BY <1>1 DEF Order, CallInv, Caller
<1>4. Mild
  <2>1. CASE UNCHANGED invoice
    BY <2>1
  <2>2. ASSUME NEW new, SetInvoice(call[c].invoice, new), call[c].invoice \in Invoice,
               new.attempt = invoice[call[c].invoice].attempt,
               new.status \notin Unclaimed,
               new.status \in Closed => attempt'[new.attempt].state \in Closed
        PROVE  Mild
    <3>1. \A i \in Invoice : invoice'[i] = IF i = call[c].invoice THEN new ELSE invoice[i]
      BY <2>2 DEF SetInvoice, TypeInv, TypeOK
    <3> QED
      BY <1>2, <2>2, <3>1 DEF Unclaimed
  <2> QED BY <2>1, <2>2
<1>5. FreshInv' /\ NamedInv' /\ CallInv'
  BY <1>3, <1>4, OrderKept
<1>6. ApproverInv'
  BY <1>1, <1>4, ApproverKept DEF Caller
<1> QED
  BY <1>5, <1>6 DEF Order

\* The claim gives a fresh invoice its attempt.
LEMMA OrderClaim ==
  ASSUME TypeInv, RecordInv, Order, [Next]_vars,
         NEW s \in Sender, NEW i \in Invoice, NEW k \in Key, Claim(s, i, k)
  PROVE  Order'
<1> DEFINE claimed == [invoice[i] EXCEPT !.status = "sending", !.attempt = s]
           to == [NoCall EXCEPT !.pc = "claimed", !.invoice = i, !.attempt = s,
                                !.copy = claimed]
           new == [NoAttempt EXCEPT !.state = "claimed", !.invoice = i, !.key = k]
<1>1. SetInvoice(i, claimed) /\ SetCall(s, to) /\ SetAttempt(s, new)
  BY DEF Claim, TakeClaim
<1>2. claimed.status = "sending" /\ claimed.attempt = s
  BY DEF TypeInv, TypeOK, InvoiceRecord
<1>3. to.invoice = i /\ to.attempt = s /\ to.copy = claimed
  BY DEF NoCall
<1>4. new.invoice = i /\ new.state = "claimed"
  BY DEF NoAttempt
<1>5. attempt[s].invoice = None
  BY DEF Claim, RecordInv, NoAttempt
<1> HIDE DEF claimed, to, new
<1>6. /\ \A j \in Invoice : invoice'[j] = IF j = i THEN claimed ELSE invoice[j]
      /\ \A t \in Sender : attempt'[t] = IF t = s THEN new ELSE attempt[t]
  BY <1>1 DEF SetInvoice, SetAttempt, TypeInv, TypeOK
<1>7. call'[s] = to /\ \A d \in Caller : d # s => call'[d] = call[d]
  BY <1>1, OthersStay DEF Caller
<1>8. /\ invoice[i].status = "approved" /\ None \notin Invoice /\ None \notin Sender
      /\ s \notin Approver
  BY CallersDisjoint DEF Claim, Caller
<1>9. invoice[i].attempt = None /\ Attempts(i) = {}
  BY <1>8 DEF Order, FreshInv, Unclaimed
<1>10. FreshInv'
  BY <1>2, <1>4, <1>6, <1>8 DEF Order, FreshInv, Attempts, Unclaimed
<1>11. NamedInv'
  <2>1. ASSUME NEW j \in Invoice, invoice'[j].status \notin Unclaimed
        PROVE  /\ invoice'[j].attempt \in Sender
               /\ attempt'[invoice'[j].attempt].invoice = j
               /\ invoice'[j].status \in Closed =>
                    attempt'[invoice'[j].attempt].state \in Closed
    <3>1. CASE j = i
      BY <1>2, <1>4, <1>6, <3>1 DEF Closed
    <3>2. CASE j # i
      <4>1. /\ invoice[j].attempt \in Sender
            /\ attempt[invoice[j].attempt].invoice = j
            /\ invoice[j].status \in Closed => attempt[invoice[j].attempt].state \in Closed
        BY <1>6, <2>1, <3>2 DEF Order, NamedInv
      <4>2. invoice[j].attempt # s
        BY <1>5, <1>8, <4>1
      <4> QED
        BY <1>6, <3>2, <4>1, <4>2
    <3> QED BY <3>1, <3>2
  <2>2. ASSUME NEW t \in Sender, attempt'[t].invoice # None
        PROVE  invoice'[attempt'[t].invoice].attempt = t
    <3>1. CASE t = s
      BY <1>2, <1>4, <1>6, <3>1
    <3>2. CASE t # s
      <4>1. attempt'[t] = attempt[t] /\ attempt[t].invoice \in Invoice
        BY <1>6, <2>2, <3>2 DEF TypeInv, TypeOK, AttemptRecord
      <4>2. attempt[t].invoice # i
        BY <1>9 DEF Attempts
      <4>3. invoice[attempt[t].invoice].attempt = t
        BY <2>2, <4>1 DEF Order, NamedInv
      <4> QED
        BY <1>6, <4>1, <4>2, <4>3
    <3> QED BY <3>1, <3>2
  <2> QED
    BY <2>1, <2>2 DEF NamedInv
<1>12. CallInv'
  <2>1. ASSUME NEW c \in Sender \cup Reconciler
        PROVE  Sound(call'[c], invoice', attempt')
    <3>0. c \in Caller
      BY DEF Caller
    <3>1. CASE c = s
      BY <1>2, <1>3, <1>6, <1>7, <3>1 DEF Sound, Unclaimed, Closed
    <3>2. CASE c # s /\ call[c].invoice # None
      <4>1. Sound(call[c], invoice, attempt) /\ call'[c] = call[c]
        BY <1>7, <3>0, <3>2 DEF Order, CallInv
      <4>2. call[c].invoice \in Invoice /\ call[c].invoice # i
        BY <1>8, <3>0, <3>2, <4>1 DEF Sound, Unclaimed, TypeInv, TypeOK, CallRecord
      <4>3. call[c].attempt \in Sender /\ attempt[call[c].attempt].invoice = call[c].invoice
        BY <3>2, <4>1, <4>2 DEF Sound, Order, NamedInv
      <4>4. call[c].attempt # s
        BY <1>5, <3>2, <4>3
      <4>5. /\ invoice'[call[c].invoice] = invoice[call[c].invoice]
            /\ attempt'[call[c].attempt] = attempt[call[c].attempt]
        BY <1>6, <4>2, <4>3, <4>4
      <4> QED
        BY <4>1, <4>5 DEF Sound
    <3>3. CASE c # s /\ call[c].invoice = None
      BY <1>7, <3>0, <3>3 DEF Sound
    <3> QED BY <3>1, <3>2, <3>3
  <2> QED
    BY <2>1 DEF CallInv
<1>13. ApproverInv'
  <2>1. \A j \in Invoice : invoice[j].status = "draft" => invoice'[j].status = "draft"
    BY <1>6, <1>8
  <2> QED
    BY <1>7, <1>8, <2>1, ApproverKept DEF Caller
<1> QED
  BY <1>10, <1>11, <1>12, <1>13 DEF Order

\* approve(): its call, its two-phase save, and its death.
LEMMA OrderApprover ==
  ASSUME TypeInv, RecordInv, Order, ApprovalsApart, [Next]_vars, NEW p \in Approver,
         CallerStep(p) \/ \E i \in Invoice : Approve(p, i)
  PROVE  Order'
<1>0. /\ p \in Caller /\ p \notin Sender \cup Reconciler /\ None \notin Invoice
      /\ call[p] \in CallRecord /\ CallOK(p, call[p])
      /\ call[p].invoice \in Invoice \cup {None}
  BY CallersDisjoint DEF Caller, TypeInv, TypeOK, CallRecord
<1>1. ASSUME NEW to, SetCall(p, to)
      PROVE  /\ call'[p] = to
             /\ \A d \in Caller : d # p => call'[d] = call[d]
             /\ \A c \in Sender \cup Reconciler : Sound(call'[c], invoice, attempt)
  <2>1. call'[p] = to /\ \A d \in Caller : d # p => call'[d] = call[d]
    BY <1>0, <1>1, OthersStay
  <2> QED
    BY <1>0, <2>1 DEF Order, CallInv, Caller
<1>2. ASSUME NEW to, SetCall(p, to), UNCHANGED invoice,
             to.invoice # None =>
               /\ to.invoice \in Invoice /\ invoice[to.invoice].status = "draft"
               /\ to.copy.status = "approved" /\ to.copy.attempt = None
               /\ to.pc = "write" => to.base.attempt = None
      PROVE  Order'
  <2>1. FreshInv' /\ NamedInv' /\ CallInv'
    BY <1>1, <1>2, OrderKept
  <2>2. ApproverInv'
    BY <1>0, <1>1, <1>2 DEF Order, ApproverInv, Caller
  <2> QED
    BY <2>1, <2>2 DEF Order
<1>3. ASSUME NEW how, SetCall(p, Ended(how)), UNCHANGED invoice PROVE Order'
  <2>1. Ended(how).invoice = None
    BY DEF Ended, NoCall
  <2> QED
    BY <1>2, <1>3, <2>1
<1>4. ASSUME NEW i \in Invoice, Approve(p, i) PROVE Order'
  <2> DEFINE copy == [invoice[i] EXCEPT !.status = "approved"]
             to == [NoCall EXCEPT !.pc = "save", !.invoice = i, !.copy = copy]
  <2>1. SetCall(p, to) /\ UNCHANGED invoice /\ invoice[i].status = "draft"
    BY <1>4 DEF Approve
  <2>2. copy.status = "approved" /\ copy.attempt = invoice[i].attempt
    BY DEF TypeInv, TypeOK, InvoiceRecord
  <2>3. to.invoice = i /\ to.copy = copy /\ to.pc = "save"
    BY DEF NoCall
  <2>4. invoice[i].attempt = None
    BY <2>1 DEF Order, FreshInv, Unclaimed
  <2> HIDE DEF copy, to
  <2> QED
    BY <1>2, <2>1, <2>2, <2>3, <2>4
<1>5. CASE SaveRead(p)
  <2> DEFINE to == [call[p] EXCEPT !.pc = "write", !.base = invoice[call[p].invoice]]
  <2>1. SetCall(p, to) /\ UNCHANGED invoice /\ call[p].invoice \in Invoice
    BY <1>0, <1>5 DEF SaveRead, At, CallOK
  <2>2. /\ to.invoice = call[p].invoice /\ to.copy = call[p].copy
        /\ to.base = invoice[call[p].invoice]
    BY <1>0 DEF CallRecord
  <2>3. /\ invoice[call[p].invoice].status = "draft"
        /\ call[p].copy.status = "approved" /\ call[p].copy.attempt = None
    BY <1>0, <2>1 DEF Order, ApproverInv
  <2>4. invoice[call[p].invoice].attempt = None
    BY <2>1, <2>3 DEF Order, FreshInv, Unclaimed
  <2> HIDE DEF to
  <2> QED
    BY <1>2, <2>1, <2>2, <2>3, <2>4
<1>6. CASE SaveWrite(p)
  <2> DEFINE saved == Merge(call[p].base, call[p].copy)
             i == call[p].invoice
  <2>1. i \in Invoice /\ At(p, "write")
    BY <1>0, <1>6 DEF SaveWrite, At, CallOK
  <2>2. /\ invoice[i].status = "draft"
        /\ call[p].copy.status = "approved" /\ call[p].copy.attempt = None
        /\ call[p].base.attempt = None
    BY <1>0, <2>1 DEF Order, ApproverInv, At
  <2>3. saved.status = "approved" /\ saved.attempt = None
    BY <2>2 DEF Merge
  <2>4. SetInvoice(i, saved) /\ SetCall(p, Ended("done"))
    BY <1>6, <2>3 DEF SaveWrite, AfterSave, Unresolved
  <2>5. invoice[i].attempt = None
    BY <2>1, <2>2 DEF Order, FreshInv, Unclaimed
  <2> HIDE DEF saved
  <2>6. \A j \in Invoice : invoice'[j] = IF j = i THEN saved ELSE invoice[j]
    BY <2>4 DEF SetInvoice, TypeInv, TypeOK
  <2>7. FreshInv' /\ NamedInv' /\ CallInv'
    BY <1>1, <2>2, <2>3, <2>4, <2>5, <2>6, OrderKept DEF Unclaimed, Closed
  <2>8. ApproverInv'
    <3>1. call'[p].invoice = None
      BY <1>1, <2>4 DEF Ended, NoCall
    <3>2. \A q \in Approver : q # p => call'[q] = call[q] /\ call[q].invoice # i
      BY <1>0, <1>1, <2>1, <2>4 DEF ApprovalsApart, Caller
    <3>3. \A q \in Approver : call[q].invoice \in Invoice \cup {None}
      BY DEF TypeInv, TypeOK, CallRecord, Caller
    <3> QED
      BY <2>6, <3>1, <3>2, <3>3 DEF Order, ApproverInv
  <2> QED
    BY <2>7, <2>8 DEF Order
<1>7. CASE Crash(p)
  BY <1>3, <1>7 DEF Crash
<1> QED
  BY <1>4, <1>5, <1>6, <1>7 DEF CallerStep

LEMMA SoundMoved ==
  ASSUME TypeInv, Order, NEW c \in Sender \cup Reconciler, NEW to,
         to.invoice = call[c].invoice,
         to.attempt = call[c].attempt,
         to.copy.attempt = call[c].copy.attempt,
         to.copy.status \in {call[c].copy.status, Unresolved}
  PROVE  Sound(to, invoice, attempt)
  BY DEF Order, CallInv, Sound, Unclaimed, Closed, Unresolved

LEMMA SoundEnded == \A how : Sound(Ended(how), invoice, attempt)
  BY DEF Sound, Ended, NoCall

\* What a call that closes its attempt writes to the invoice keeps its attempt.
LEMMA OrderClosing ==
  ASSUME TypeInv, RecordInv, Order, NEW c \in Sender \cup Reconciler,
         At(c, "finalizing"), CloseBoth(c)
  PROVE  /\ SetInvoice(call[c].invoice, Finalized(c))
         /\ call[c].invoice \in Invoice
         /\ Finalized(c).status = call[c].outcome
         /\ Finalized(c).attempt = call[c].attempt
         /\ Finalized(c).attempt = invoice[call[c].invoice].attempt
         /\ Finalized(c).status \notin Unclaimed
         /\ Finalized(c).status \in Closed => attempt'[Finalized(c).attempt].state \in Closed
<1>1. /\ call[c] \in CallRecord /\ call[c].invoice \in Invoice /\ call[c].attempt \in Sender
      /\ call[c].outcome \in Verdict /\ None \notin Invoice
  BY Concluded, CallersDisjoint
<1>2. call[c].copy.attempt = call[c].attempt
        /\ call[c].attempt = invoice[call[c].invoice].attempt
  BY <1>1 DEF Order, CallInv, Sound
<1>3. Finalized(c).status = call[c].outcome /\ Finalized(c).attempt = call[c].copy.attempt
  BY <1>1 DEF Finalized, CallRecord, InvoiceRecord
<1>4. attempt'[call[c].attempt].state = call[c].outcome
  BY <1>1, ClosedState DEF CloseBoth
<1> QED
  BY <1>1, <1>2, <1>3, <1>4 DEF CloseBoth, Verdict, Closed, Unresolved, Unclaimed

LEMMA OrderWorker ==
  ASSUME TypeInv, RecordInv, Order, [Next]_vars, NEW c \in Sender \cup Reconciler,
         CallerStep(c) \/ ResultStep(c)
  PROVE  Order'
<1>0. /\ c \in Caller /\ call[c] \in CallRecord /\ call[c].copy \in InvoiceRecord
      /\ call[c].pc \notin {"idle", "done", "crashed"} =>
           call[c].invoice \in Invoice /\ call[c].invoice # None
  BY CallersDisjoint DEF Caller, TypeInv, TypeOK, CallOK, CallRecord
<1>1. CASE SaveRead(c)
  <2> DEFINE to == [call[c] EXCEPT !.pc = "write", !.base = invoice[call[c].invoice]]
  <2>1. SetCall(c, to) /\ UNCHANGED invoice
    BY <1>1 DEF SaveRead
  <2>2. /\ to.invoice = call[c].invoice /\ to.attempt = call[c].attempt
        /\ to.copy = call[c].copy
    BY <1>0 DEF CallRecord
  <2> HIDE DEF to
  <2> QED
    BY <2>1, <2>2, SoundMoved, OrderMoves
<1>2. CASE SaveWrite(c)
  <2> DEFINE saved == Merge(call[c].base, call[c].copy)
             i == call[c].invoice
             to == [call[c] EXCEPT !.pc = "query", !.copy = saved, !.base = NoInvoice]
  <2>1. /\ SetInvoice(i, saved) /\ SetCall(c, AfterSave(c, saved))
        /\ i \in Invoice /\ i # None
    BY <1>0, <1>2 DEF SaveWrite, At
  <2>2. /\ invoice[i].status \notin Unclaimed
        /\ call[c].attempt = invoice[i].attempt
        /\ call[c].copy.attempt = call[c].attempt
        /\ call[c].copy.status \notin Unclaimed
        /\ call[c].copy.status \in Closed => attempt[call[c].attempt].state \in Closed
    BY <2>1 DEF Order, CallInv, Sound
  <2>3. call[c].attempt \in Sender /\ call[c].attempt # None
    BY <2>1, <2>2, CallersDisjoint DEF Order, NamedInv, Caller
  <2>4. saved.status = call[c].copy.status /\ saved.attempt = call[c].attempt
    BY <2>2, <2>3 DEF Merge
  <2>5. attempt' = attempt
    BY <1>2 DEF SaveWrite
  <2>6. to.invoice = i /\ to.attempt = call[c].attempt /\ to.copy = saved
    BY <1>0 DEF CallRecord
  <2>7. AfterSave(c, saved) \in {to, Ended("done")}
    BY DEF AfterSave
  <2> HIDE DEF saved, to
  <2>8. Sound(to, invoice, attempt)
    BY <2>2, <2>4, <2>6, SoundMoved
  <2> QED
    BY <2>1, <2>2, <2>4, <2>5, <2>7, <2>8, SoundEnded, OrderMoves
<1>3. CASE Crash(c)
  BY <1>3, SoundEnded, OrderMoves DEF Crash
<1>4. CASE Finalize(c) /\ CanFinalize(c)
  <2> DEFINE to == [call[c] EXCEPT !.pc = "link", !.copy = Finalized(c)]
  <2>1. /\ At(c, "finalizing") /\ CloseBoth(c)
        /\ SetCall(c, to) \/ SetCall(c, Ended("done"))
    BY <1>4 DEF Finalize, AfterFinalize
  <2>2. to.invoice = call[c].invoice /\ to.attempt = call[c].attempt /\ to.copy = Finalized(c)
    BY <1>0 DEF CallRecord
  <2> HIDE DEF to
  <2>3. call[c].invoice # None
    BY <1>0, <2>1 DEF At
  <2>4. Sound(to, invoice, attempt')
    BY <2>1, <2>2, <2>3, OrderClosing DEF Sound, Order, CallInv
  <2> QED
    BY <2>1, <2>4, OrderClosing, SoundEnded, OrderMoves
<1>5. CASE Finalize(c) /\ ~CanFinalize(c)
  BY <1>5, SoundEnded, OrderMoves DEF Finalize
<1>6. CASE Link(c)
  <2> DEFINE copy == [call[c].copy EXCEPT !.ref = TRUE]
             to == [call[c] EXCEPT !.pc = "save", !.copy = copy]
  <2>1. SetCall(c, to) /\ UNCHANGED invoice
    BY <1>6 DEF Link
  <2>2. /\ to.invoice = call[c].invoice /\ to.attempt = call[c].attempt /\ to.copy = copy
        /\ copy.attempt = call[c].copy.attempt /\ copy.status = call[c].copy.status
    BY <1>0 DEF CallRecord, InvoiceRecord
  <2> HIDE DEF copy, to
  <2> QED
    BY <2>1, <2>2, SoundMoved, OrderMoves
<1>7. CASE LinkRaises(c)
  <2> DEFINE to == [call[c] EXCEPT !.pc = "save"]
  <2>1. SetCall(c, to) /\ UNCHANGED invoice
    BY <1>7 DEF LinkRaises, Goto
  <2>2. /\ to.invoice = call[c].invoice /\ to.attempt = call[c].attempt
        /\ to.copy = call[c].copy
    BY <1>0 DEF CallRecord
  <2> HIDE DEF to
  <2> QED
    BY <2>1, <2>2, SoundMoved, OrderMoves
<1> QED
  BY <1>1, <1>2, <1>3, <1>4, <1>5, <1>6, <1>7 DEF CallerStep, ResultStep

LEMMA OrderConclude ==
  ASSUME TypeInv, RecordInv, Order, [Next]_vars, NEW c \in Sender \cup Reconciler,
         NEW outcome, Conclude(c, outcome),
         UNCHANGED invoice \/ (At(c, "finalizing") /\ CloseBoth(c))
  PROVE  Order'
<1> DEFINE to == [call[c] EXCEPT !.pc = "finalizing", !.outcome = outcome]
<1>1. SetCall(c, to)
  BY DEF Conclude
<1>2. /\ to.invoice = call[c].invoice /\ to.attempt = call[c].attempt
      /\ to.copy = call[c].copy
  BY DEF Caller, TypeInv, TypeOK, CallRecord
<1> HIDE DEF to
<1>3. Sound(to, invoice, attempt)
  BY <1>2, SoundMoved
<1> QED
  BY <1>1, <1>3, OrderClosing, OrderMoves

LEMMA OrderSender ==
  ASSUME TypeInv, RecordInv, Order, [Next]_vars, NEW s \in Sender, SenderStep(s)
  PROVE  Order'
<1>0. s \in Caller /\ call[s] \in CallRecord /\ call[s].copy \in InvoiceRecord
  BY DEF Caller, TypeInv, TypeOK, CallRecord
<1>1. ASSUME NEW i \in Invoice, NEW k \in Key, Claim(s, i, k) PROVE Order'
  BY <1>1, OrderClaim
<1>2. ASSUME NEW pc, Goto(s, pc), UNCHANGED invoice PROVE Order'
  <2> DEFINE to == [call[s] EXCEPT !.pc = pc]
  <2>1. SetCall(s, to)
    BY <1>2 DEF Goto
  <2>2. /\ to.invoice = call[s].invoice /\ to.attempt = call[s].attempt
        /\ to.copy = call[s].copy
    BY <1>0 DEF CallRecord
  <2> HIDE DEF to
  <2> QED
    BY <1>2, <2>1, <2>2, SoundMoved, OrderMoves
<1>3. CASE PassPreflight(s) \/ StartRequest(s) \/ Submit(s)
  BY <1>2, <1>3 DEF PassPreflight, StartRequest, Submit
<1>4. CASE \/ RefuseLocally(s) \/ LoseAnswer(s) \/ StoreRaises(s)
           \/ Answer(s) /\ request[s] = "rejected"
  BY <1>4, OrderConclude DEF RefuseLocally, LoseAnswer, StoreRaises, Answer
<1>5. CASE Answer(s) /\ request[s] # "rejected"
  <2> DEFINE copy == [call[s].copy EXCEPT !.provider = TRUE]
             to == [call[s] EXCEPT !.pc = "finalizing", !.outcome = "sent", !.copy = copy]
  <2>1. SetCall(s, to) /\ UNCHANGED invoice
    BY <1>5 DEF Answer
  <2>2. /\ to.invoice = call[s].invoice /\ to.attempt = call[s].attempt /\ to.copy = copy
        /\ copy.attempt = call[s].copy.attempt /\ copy.status = call[s].copy.status
    BY <1>0 DEF CallRecord, InvoiceRecord
  <2> HIDE DEF copy, to
  <2> QED
    BY <2>1, <2>2, SoundMoved, OrderMoves
<1>6. CASE ProviderDecides(s) \/ BecomeStale(s) \/ ExpireLease(s)
  <2>1. UNCHANGED <<invoice, call>>
    BY <1>6 DEF ProviderDecides, BecomeStale, ExpireLease
  <2>2. FreshInv' /\ NamedInv' /\ CallInv'
    BY <2>1, OrderKept DEF Order, CallInv
  <2> QED
    BY <2>1, <2>2, ApproverKept DEF Order
<1> QED
  BY <1>1, <1>3, <1>4, <1>5, <1>6 DEF SenderStep

LEMMA OrderReconciler ==
  ASSUME TypeInv, RecordInv, Order, [Next]_vars, NEW r \in Reconciler, ReconcilerStep(r)
  PROVE  Order'
<1>0. r \in Caller /\ call[r] \in CallRecord /\ call[r].copy \in InvoiceRecord
  BY DEF Caller, TypeInv, TypeOK, CallRecord
<1>1. ASSUME NEW i \in Invoice, ReadInvoice(r, i) PROVE Order'
  <2> DEFINE to == [NoCall EXCEPT !.pc = "loading", !.invoice = i,
                                  !.attempt = invoice[i].attempt, !.copy = invoice[i]]
  <2>1. /\ SetCall(r, to) /\ UNCHANGED invoice
        /\ invoice[i].status \in {Unresolved, "sending"}
    BY <1>1 DEF ReadInvoice
  <2>2. to.invoice = i /\ to.attempt = invoice[i].attempt /\ to.copy = invoice[i]
    BY DEF NoCall
  <2> HIDE DEF to
  <2>3. Sound(to, invoice, attempt)
    BY <2>1, <2>2 DEF Sound, Unclaimed, Closed, Unresolved
  <2> QED
    BY <2>1, <2>3, OrderMoves
<1>2. CASE LoadAttempt(r)
  <2> DEFINE to == [call[r] EXCEPT !.pc = "claiming", !.stale = attempt[call[r].attempt].stale]
  <2>1. (SetCall(r, to) \/ SetCall(r, Ended("done"))) /\ UNCHANGED invoice
    BY <1>2 DEF LoadAttempt
  <2>2. /\ to.invoice = call[r].invoice /\ to.attempt = call[r].attempt
        /\ to.copy = call[r].copy
    BY <1>0 DEF CallRecord
  <2> HIDE DEF to
  <2> QED
    BY <2>1, <2>2, SoundMoved, SoundEnded, OrderMoves
<1>3. CASE ClaimReconciliation(r)
  <2> DEFINE copy == [call[r].copy EXCEPT !.status = Unresolved]
             to == [call[r] EXCEPT !.copy = copy,
                      !.pc = IF call[r].copy.status = "sending" THEN "save" ELSE "query"]
  <2>1. (SetCall(r, to) \/ SetCall(r, Ended("done"))) /\ UNCHANGED invoice
    BY <1>3 DEF ClaimReconciliation, TakeLease
  <2>2. /\ to.invoice = call[r].invoice /\ to.attempt = call[r].attempt /\ to.copy = copy
        /\ copy.attempt = call[r].copy.attempt /\ copy.status = Unresolved
    BY <1>0 DEF CallRecord, InvoiceRecord
  <2> HIDE DEF copy, to
  <2> QED
    BY <2>1, <2>2, SoundMoved, SoundEnded, OrderMoves
<1>4. CASE Query(r)
  BY <1>4, OrderConclude DEF Query
<1>5. CASE QueryRaises(r)
  BY <1>5, SoundEnded, OrderMoves DEF QueryRaises
<1> QED
  BY <1>1, <1>2, <1>3, <1>4, <1>5 DEF ReconcilerStep

LEMMA OrderStep ==
  TypeInv /\ RecordInv /\ Order /\ ApprovalsApart /\ [Next]_vars => Order'
<1> SUFFICES ASSUME TypeInv, RecordInv, Order, ApprovalsApart, [Next]_vars PROVE Order'
  OBVIOUS
<1>0. ASSUME UNCHANGED call, UNCHANGED invoice PROVE Order'
  <2>1. FreshInv' /\ NamedInv' /\ CallInv'
    BY <1>0, OrderKept DEF Order, CallInv
  <2> QED
    BY <1>0, <2>1, ApproverKept DEF Order
<1>1. ASSUME NEW i \in Invoice, CreateDraft(i) PROVE Order'
  <2>1. [invoice[i] EXCEPT !.status = "draft"].status = "draft"
          /\ [invoice[i] EXCEPT !.status = "draft"].attempt = invoice[i].attempt
    BY DEF TypeInv, TypeOK, InvoiceRecord
  <2>2. /\ UNCHANGED call /\ invoice[i].status = "absent"
        /\ \A j \in Invoice : j # i => invoice'[j] = invoice[j]
        /\ invoice'[i].status = "draft" /\ invoice'[i].attempt = invoice[i].attempt
    BY <1>1, <2>1 DEF CreateDraft, SetInvoice, TypeInv, TypeOK
  <2>3. FreshInv' /\ NamedInv' /\ CallInv'
    BY <2>2, OrderKept DEF Order, CallInv, Unclaimed, Closed
  <2> QED
    BY <2>2, <2>3, ApproverKept DEF Order
<1> QED
  BY <1>0, <1>1, OrderApprover, OrderWorker, OrderSender, OrderReconciler
     DEF Next, vars, Caller

LEMMA OrderInvariant ==
  Spec /\ []ApprovalsApart => [](TypeInv /\ RecordInv /\ BelongInv /\ Order)
<1>1. TypeInv /\ RecordInv /\ Order /\ ApprovalsApart /\ [Next]_vars => Order'
  BY OrderStep
<1> QED
  BY <1>1, OrderInit, BelongInvariant, PTL DEF Spec

\* Where the approvals of an invoice do not overlap, a request that went out and
\* is not decided is one reconcile() can take up: the projection names its
\* attempt and is not closed.
THEOREM OpenAttemptReachable == Spec /\ []ApprovalsApart => []OpenAttemptIsReachable
<1>1. TypeInv /\ RecordInv /\ Order => OpenAttemptIsReachable
  <2> SUFFICES ASSUME TypeInv, RecordInv, Order,
                      NEW s \in Sender, request[s] # "none", attempt[s].state \notin Closed
               PROVE  /\ invoice[attempt[s].invoice].attempt = s
                      /\ invoice[attempt[s].invoice].status \in {"sending", Unresolved}
    BY DEF OpenAttemptIsReachable
  <2> DEFINE i == attempt[s].invoice
  <2>1. i \in Invoice /\ i # None
    BY CallersDisjoint DEF RecordInv, StartedStates, Verdict, Closed, Unresolved
  <2>2. invoice[i].attempt = s
    BY <2>1 DEF Order, NamedInv
  <2>3. invoice[i].status \notin Unclaimed
    BY <2>1 DEF Order, FreshInv, Attempts
  <2>4. invoice[i].status \notin Closed
    BY <2>1, <2>2, <2>3 DEF Order, NamedInv
  <2>5. invoice[i].status \in {"absent", "draft", "approved", "sending"} \cup Verdict
    BY <2>1 DEF TypeInv, TypeOK, InvoiceRecord
  <2> QED
    BY <2>2, <2>3, <2>4, <2>5 DEF Unclaimed, Verdict
<1> QED
  BY <1>1, OrderInvariant, PTL

\* Where the approvals of an invoice do not overlap, what enters the accounting
\* flow is a document the provider took, and an invoice enters it once.
THEOREM SourceConfirmed == Spec /\ []ApprovalsApart => []SourceIsConfirmedSale
<1>1. TypeInv /\ RecordInv /\ Order /\ SourceInv /\ ReceiptInv => SourceIsConfirmedSale
  <2> SUFFICES ASSUME TypeInv, RecordInv, Order, SourceInv, ReceiptInv
               PROVE  SourceIsConfirmedSale
    OBVIOUS
  <2>1. source \subseteq Sender
    BY DEF TypeInv, TypeOK
  <2>2. \A s \in source : attempt[s].state = "sent"
    BY DEF SourceInv
  <2>3. \A s \in source : attempt[s].invoice \in Invoice
    BY <2>1, <2>2 DEF RecordInv
  <2>4. \A s, t \in source : attempt[s].invoice = attempt[t].invoice => s = t
    BY <2>1, <2>3, CallersDisjoint DEF Order, NamedInv
  <2> QED
    BY <2>4 DEF SourceIsConfirmedSale, ReceiptInv
<1>2. TypeInv /\ RecordInv /\ BelongInv /\ ReceiptInv /\ [Next]_vars => ReceiptInv'
  BY ReceiptStep
<1>3. TypeInv /\ RecordInv /\ SourceInv /\ [Next]_vars => SourceInv'
  BY SourceStep
<1> QED
  BY <1>1, <1>2, <1>3, ReceiptInit, SourceInit, OrderInvariant, PTL DEF Spec

-----------------------------------------------------------------------------
(* How often the provider was asked.                                       *)

CountInv ==
  \A i \in Invoice :
    submits[i] = IF \E s \in Attempts(i) : request[s] # "none" THEN 1 ELSE 0

LEMMA CountInit == Init => CountInv
  BY DEF Init, CountInv, Attempts

\* An invoice has one attempt at most.
LEMMA OneAttempt ==
  ASSUME Order, NEW i \in Invoice, NEW s \in Attempts(i)
  PROVE  Attempts(i) = {s} /\ invoice[i].attempt = s
  BY CallersDisjoint DEF Order, NamedInv, Attempts

\* Only Submit asks the provider: after any other step an attempt has a request
\* out if it had one before.
LEMMA RequestsStay ==
  ASSUME [Next]_vars, TypeInv, ~\E t \in Sender : Submit(t)
  PROVE  submits' = submits /\ \A s \in Sender : request'[s] = "none" <=> request[s] = "none"
<1>1. CASE \E t \in Sender : ProviderDecides(t)
  BY <1>1 DEF ProviderDecides, TypeInv, TypeOK
<1>2. CASE ~\E t \in Sender : ProviderDecides(t)
  BY <1>2 DEF Next, vars, SenderStep, ReconcilerStep, CallerStep, ResultStep, CreateDraft,
     Approve, Claim, TakeClaim, PassPreflight, StartRequest, RefuseLocally, Answer,
     LoseAnswer, StoreRaises, BecomeStale, ExpireLease, ReadInvoice, LoadAttempt,
     ClaimReconciliation, Query, QueryRaises, Finalize, Link, LinkRaises, SaveRead,
     SaveWrite, Crash
<1> QED
  BY <1>1, <1>2

\* The request of a sender goes out for the invoice of its attempt, once.
LEMMA Submitted ==
  ASSUME TypeInv, RecordInv, BelongInv, NEW s \in Sender, Submit(s)
  PROVE  /\ call[s].invoice \in Invoice
         /\ attempt[s].invoice = call[s].invoice
         /\ request[s] = "none" /\ request'[s] = "inflight"
         /\ \A t \in Sender : t # s => request'[t] = request[t]
         /\ \A j \in Invoice : submits'[j] = IF j = call[s].invoice THEN submits[j] + 1
                                                                   ELSE submits[j]
         /\ UNCHANGED <<attempt, invoice>>
<1>1. s \in Caller /\ At(s, "started") /\ s # None
  BY CallersDisjoint DEF Submit, Caller
<1>2. call[s].invoice \in Invoice /\ call[s].attempt = s
  BY <1>1 DEF TypeInv, CallOK, At, Dispatching
<1>3. attempt[s].invoice = call[s].invoice
  BY <1>1, <1>2 DEF BelongInv, Held, Belongs
<1>4. request[s] = "none"
  BY <1>1 DEF RecordInv, At
<1> QED
  BY <1>2, <1>3, <1>4 DEF Submit, TypeInv, TypeOK

LEMMA CountStep ==
  TypeInv /\ RecordInv /\ BelongInv /\ Order /\ CountInv /\ [Next]_vars => CountInv'
<1> SUFFICES ASSUME TypeInv, RecordInv, BelongInv, Order, CountInv, [Next]_vars
             PROVE  CountInv'
  OBVIOUS
<1>1. ASSUME NEW s \in Sender, Submit(s) PROVE CountInv'
  <2> DEFINE i == call[s].invoice
  <2>1. i \in Invoice /\ attempt[s].invoice = i /\ request[s] = "none"
    BY <1>1, Submitted
  <2>2. \A t \in Sender : attempt[t].invoice = i => t = s
    BY <2>1, OneAttempt DEF Attempts
  <2>3. submits[i] = 0
    BY <2>1, <2>2 DEF CountInv, Attempts
  <2>4. /\ \A t \in Sender : request'[t] = IF t = s THEN "inflight" ELSE request[t]
        /\ \A j \in Invoice : submits'[j] = IF j = i THEN 1 ELSE submits[j]
        /\ attempt' = attempt
    BY <1>1, <2>3, Submitted
  <2> SUFFICES ASSUME NEW j \in Invoice
               PROVE  submits'[j] = IF \E t \in Sender : /\ attempt'[t].invoice = j
                                                         /\ request'[t] # "none"
                                    THEN 1 ELSE 0
    BY DEF CountInv, Attempts
  <2>5. CASE j = i
    BY <2>1, <2>4, <2>5
  <2>6. CASE j # i
    BY <2>1, <2>4, <2>6 DEF CountInv, Attempts
  <2> QED BY <2>5, <2>6
<1>2. CASE ~\E s \in Sender : Submit(s)
  <2>1. submits' = submits /\ \A s \in Sender : request'[s] = "none" <=> request[s] = "none"
    BY <1>2, RequestsStay
  <2>2. ASSUME NEW s \in Sender, request[s] # "none"
        PROVE  attempt'[s].invoice = attempt[s].invoice
    <3>1. attempt[s] # NoAttempt
      BY <2>2 DEF RecordInv, NoAttempt
    <3> QED
      BY <3>1, StableStep DEF Stable
  <2>3. ASSUME NEW i \in Invoice
        PROVE  (\E s \in Attempts(i) : request[s] # "none")
                 <=> (\E s \in Sender : attempt'[s].invoice = i /\ request'[s] # "none")
    BY <2>1, <2>2 DEF Attempts
  <2> QED
    BY <2>1, <2>3 DEF CountInv, Attempts
<1> QED
  BY <1>1, <1>2

LEMMA CountInvariant ==
  Spec /\ []ApprovalsApart => [](TypeInv /\ RecordInv /\ BelongInv /\ Order /\ CountInv)
<1>1. TypeInv /\ RecordInv /\ BelongInv /\ Order /\ CountInv /\ [Next]_vars => CountInv'
  BY CountStep
<1> QED
  BY <1>1, CountInit, OrderInvariant, PTL DEF Spec

\* Where the approvals of an invoice do not overlap it reaches the provider at
\* most once, whatever keys, callers, crashes and reconciliations there are.
THEOREM OneSubmissionOnly == Spec /\ []ApprovalsApart => []OneSubmission
<1>1. CountInv => OneSubmission
  <2> SUFFICES ASSUME CountInv, NEW i \in Invoice PROVE submits[i] <= 1
    BY DEF OneSubmission
  <2>1. submits[i] = 0 \/ submits[i] = 1
    BY DEF CountInv
  <2> QED
    BY <2>1
<1> QED
  BY <1>1, CountInvariant, PTL

-----------------------------------------------------------------------------
(* The protocol implements InvoiceDispatch.                                *)

\* How a step may move the state of attempt a: on to its request, into doubt,
\* or to the verdict of a call that is finalizing it.
StateMoves(a) ==
  \/ attempt'[a].state = attempt[a].state
  \/ /\ attempt[a].state \in {"claimed", "preflight_passed"}
     /\ attempt'[a].state \in {"preflight_passed", "request_started"}
  \/ /\ attempt[a].state \in {"request_started", "reconciling", Unresolved}
     /\ attempt'[a].state \in {"reconciling", Unresolved}
  \/ /\ attempt[a].state \in {"request_started", "reconciling"}
     /\ attempt'[a].state \in Closed
     /\ \E c \in Sender \cup Reconciler :
          /\ At(c, "finalizing") /\ call[c].attempt = a
          /\ call[c].outcome = attempt'[a].state

OneMoves ==
  /\ UNCHANGED submits
  /\ \E a \in Sender :
       (\A t \in Sender : t # a => attempt'[t] = attempt[t]) /\ StateMoves(a)

LEMMA ClosingMoves ==
  ASSUME TypeInv, NEW c \in Sender \cup Reconciler, At(c, "finalizing"),
         CanFinalize(c), CloseBoth(c), UNCHANGED submits
  PROVE  OneMoves
<1>1. /\ call[c].attempt \in Sender
      /\ call[c].outcome \in Verdict
      /\ CloseAttempt(call[c].attempt, call[c].outcome)
  BY Concluded DEF CloseBoth
<1>2. /\ attempt'[call[c].attempt].state = call[c].outcome
      /\ \A t \in Sender : t # call[c].attempt => attempt'[t] = attempt[t]
  BY <1>1, ClosedState
<1>3. attempt[call[c].attempt].state \in {"request_started", "reconciling"}
  BY DEF CanFinalize
<1> QED
  BY <1>1, <1>2, <1>3 DEF OneMoves, StateMoves, Verdict

LEMMA AttemptMoves ==
  ASSUME TypeInv, RecordInv, Next
  PROVE  \/ UNCHANGED attempt
         \/ \E s \in Sender, i \in Invoice, k \in Key : Claim(s, i, k)
         \/ OneMoves
<1> DEFINE Moves == \/ UNCHANGED attempt
                    \/ \E s \in Sender, i \in Invoice, k \in Key : Claim(s, i, k)
                    \/ OneMoves
<1> SUFFICES Moves
  OBVIOUS
<1>0. ASSUME UNCHANGED attempt PROVE Moves
  BY <1>0
<1>1. ASSUME NEW a \in Sender, UNCHANGED submits, StateMoves(a),
             \A t \in Sender : t # a => attempt'[t] = attempt[t]
      PROVE  Moves
  BY <1>1 DEF OneMoves
<1>2. ASSUME NEW s \in Sender, NEW state \in {"preflight_passed", "request_started"},
             Append(s, state), attempt[s].state \in {"claimed", "preflight_passed"},
             UNCHANGED submits
      PROVE  Moves
  BY <1>1, <1>2, Appended DEF StateMoves
<1>3. ASSUME NEW c \in Sender \cup Reconciler, At(c, "finalizing"),
             CanFinalize(c), CloseBoth(c), UNCHANGED submits
      PROVE  Moves
  BY <1>3, ClosingMoves
<1>4. ASSUME NEW s \in Sender, SenderStep(s) PROVE Moves
  <2>0. attempt[s] \in AttemptRecord
    BY DEF TypeInv, TypeOK
  <2>1. CASE PassPreflight(s)
    BY <1>2, <2>1 DEF PassPreflight, RecordInv
  <2>2. CASE StartRequest(s)
    BY <1>2, <2>2 DEF StartRequest, RecordInv
  <2>3. CASE Submit(s) \/ RefuseLocally(s) \/ Answer(s) \/ LoseAnswer(s) \/ ProviderDecides(s)
    BY <1>0, <2>3 DEF Submit, RefuseLocally, Answer, LoseAnswer, ProviderDecides
  <2>4. CASE StoreRaises(s)
    <3>0. UNCHANGED submits
      BY <2>4 DEF StoreRaises
    <3>1. CASE UNCHANGED attempt
      BY <1>0, <3>1
    <3>2. CASE At(s, "claimed") /\ Append(s, "preflight_passed")
      BY <1>2, <3>0, <3>2 DEF RecordInv
    <3>3. CASE At(s, "preflight") /\ Append(s, "request_started")
      BY <1>2, <3>0, <3>3 DEF RecordInv
    <3>4. CASE At(s, "finalizing") /\ CanFinalize(s) /\ CloseBoth(s)
      BY <1>3, <3>0, <3>4
    <3> QED
      BY <2>4, <3>1, <3>2, <3>3, <3>4 DEF StoreRaises
  <2>5. CASE BecomeStale(s) \/ ExpireLease(s)
    <3>1. PICK to : /\ to \in {[attempt[s] EXCEPT !.stale = TRUE],
                               [attempt[s] EXCEPT !.lease = "expired"]}
                    /\ SetAttempt(s, to)
      BY <2>5 DEF BecomeStale, ExpireLease
    <3>2. to.state = attempt[s].state
      BY <2>0, <3>1 DEF AttemptRecord
    <3>3. \A t \in Sender : attempt'[t] = IF t = s THEN to ELSE attempt[t]
      BY <3>1 DEF SetAttempt, TypeInv, TypeOK
    <3>4. StateMoves(s) /\ UNCHANGED submits
      BY <2>5, <3>2, <3>3 DEF StateMoves, BecomeStale, ExpireLease
    <3> QED
      BY <1>1, <3>3, <3>4
  <2> QED
    BY <1>4, <2>1, <2>2, <2>3, <2>4, <2>5 DEF SenderStep
<1>5. ASSUME NEW r \in Reconciler, ReconcilerStep(r) PROVE Moves
  <2>0. r \in Caller /\ call[r] \in CallRecord
    BY DEF TypeInv, TypeOK, Caller
  <2>1. ASSUME NEW i \in Invoice, ReadInvoice(r, i) PROVE Moves
    BY <1>0, <2>1 DEF ReadInvoice
  <2>2. CASE LoadAttempt(r) \/ Query(r)
    BY <1>0, <2>2 DEF LoadAttempt, Query
  <2>3. CASE ClaimReconciliation(r)
    <3> DEFINE a == call[r].attempt
               to == [attempt[a] EXCEPT !.state = "reconciling", !.owner = r,
                                        !.lease = "active"]
    <3>1. a \in Sender /\ attempt[a] \in AttemptRecord
      BY <2>0, <2>3 DEF ClaimReconciliation, At, TypeInv, TypeOK, CallOK, Reconciling
    <3>2. to.state = "reconciling"
      BY <3>1 DEF AttemptRecord
    <3>3. \/ /\ SetAttempt(a, to)
             /\ attempt[a].state \in {"request_started", "reconciling", Unresolved}
          \/ UNCHANGED attempt
      BY <2>3 DEF ClaimReconciliation, TakeLease, Reclaimable
    <3>4. UNCHANGED submits
      BY <2>3 DEF ClaimReconciliation
    <3> HIDE DEF to
    <3>5. CASE SetAttempt(a, to) /\ ~UNCHANGED attempt
      <4>1. \A t \in Sender : attempt'[t] = IF t = a THEN to ELSE attempt[t]
        BY <3>5 DEF SetAttempt, TypeInv, TypeOK
      <4>2. StateMoves(a)
        BY <3>1, <3>2, <3>3, <3>5, <4>1 DEF StateMoves
      <4> QED
        BY <1>1, <3>1, <3>4, <4>1, <4>2
    <3> QED
      BY <1>0, <3>3, <3>5
  <2>4. CASE QueryRaises(r) /\ CanFinalize(r)
    <3> DEFINE a == call[r].attempt
    <3>1. a \in Sender
      BY <2>0, <2>4 DEF QueryRaises, At, TypeInv, CallOK, Reconciling
    <3>2. attempt[a].state = "reconciling"
      BY <2>4, CallersDisjoint DEF CanFinalize
    <3>3. CloseAttempt(a, Unresolved) /\ UNCHANGED submits
      BY <2>4 DEF QueryRaises
    <3>4. /\ attempt'[a].state = Unresolved
          /\ \A t \in Sender : t # a => attempt'[t] = attempt[t]
      BY <3>1, <3>3, ClosedState
    <3>5. StateMoves(a)
      BY <3>2, <3>4 DEF StateMoves
    <3> QED
      BY <1>1, <3>1, <3>3, <3>4, <3>5
  <2>5. CASE QueryRaises(r) /\ ~CanFinalize(r)
    BY <1>0, <2>5 DEF QueryRaises
  <2> QED
    BY <1>5, <2>1, <2>2, <2>3, <2>4, <2>5 DEF ReconcilerStep
<1>6. ASSUME NEW c \in Sender \cup Reconciler, ResultStep(c) PROVE Moves
  <2>1. CASE Finalize(c) /\ CanFinalize(c)
    BY <1>3, <2>1 DEF Finalize
  <2>2. CASE (Finalize(c) /\ ~CanFinalize(c)) \/ Link(c) \/ LinkRaises(c)
    BY <1>0, <2>2 DEF Finalize, Link, LinkRaises
  <2> QED
    BY <1>6, <2>1, <2>2 DEF ResultStep
<1>7. ASSUME NEW c \in Caller, CallerStep(c) PROVE Moves
  BY <1>0, <1>7 DEF CallerStep, SaveRead, SaveWrite, Crash
<1>8. ASSUME NEW i \in Invoice, CreateDraft(i) \/ \E p \in Approver : Approve(p, i) PROVE Moves
  BY <1>0, <1>8 DEF CreateDraft, Approve
<1> HIDE DEF Moves
<1> QED
  BY <1>4, <1>5, <1>6, <1>7, <1>8 DEF Next

\* With a number, the provider finds the invoice alone.
NumbersApart == \A i, j \in Invoice : numberOf[i] = numberOf[j] => i = j

LEMMA OneName ==
  ASSUME NumbersApart, NEW i \in Invoice
  PROVE  Namesakes(i) = Attempts(i)
BY DEF NumbersApart, Namesakes, Attempts

\* An attempt that is about to be submitted is undecided, since a reconcile()
\* decides an attempt only on what the provider said of its request.
DispatchInv ==
  /\ \A s \in Sender : At(s, "started") => attempt[s].state \notin Closed
  /\ \A r \in Reconciler :
       At(r, "finalizing") /\ call[r].outcome \in Closed => request[call[r].attempt] # "none"

LEMMA DispatchInit == Init => DispatchInv
  BY DEF Init, DispatchInv, At, NoCall, Caller

LEMMA FinalizedPc ==
  ASSUME TypeInv, NEW c \in Sender \cup Reconciler, Finalize(c)
  PROVE  call'[c].pc \in {"link", "done"}
<1> DEFINE to == [call[c] EXCEPT !.pc = "link", !.copy = Finalized(c)]
<1>1. SetCall(c, to) \/ SetCall(c, Ended("done"))
  BY DEF Finalize, AfterFinalize
<1>2. c \in Caller /\ to.pc = "link"
  BY DEF Caller, TypeInv, TypeOK, CallRecord
<1> HIDE DEF to
<1> QED
  BY <1>1, <1>2, OthersStay, EndedPc

LEMMA DispatchInvStep ==
  ASSUME NumbersApart
  PROVE  TypeInv /\ RecordInv /\ BelongInv /\ Order /\ DispatchInv /\ [Next]_vars => DispatchInv'
<1> SUFFICES ASSUME TypeInv, RecordInv, BelongInv, Order, DispatchInv, Next
             PROVE  DispatchInv'
  BY DEF vars, DispatchInv, At
<1>0. \A s \in Sender : request[s] # "none" => request'[s] # "none"
  <2>1. CASE \E t \in Sender : Submit(t)
    BY <2>1, Submitted
  <2>2. CASE ~\E t \in Sender : Submit(t)
    BY <2>2, RequestsStay
  <2> QED BY <2>1, <2>2
<1>1. ASSUME NEW s \in Sender, call'[s].pc = "started" PROVE attempt'[s].state \notin Closed
  <2>0. s \in Caller /\ s \notin Reconciler
    BY CallersDisjoint DEF Caller
  <2>1. CASE StartRequest(s)
    BY <2>1, Appended DEF StartRequest, Closed
  <2>2. CASE call'[s] = call[s]
    <3>1. At(s, "started") /\ attempt[s].state \notin Closed /\ request[s] = "none"
      BY <1>1, <2>2 DEF DispatchInv, RecordInv, At
    <3>2. ASSUME attempt'[s].state \in Closed PROVE FALSE
      <4>1. ~\E t \in Sender, i \in Invoice, k \in Key : Claim(t, i, k)
        <5>1. ASSUME NEW t \in Sender, NEW i \in Invoice, NEW k \in Key, Claim(t, i, k)
              PROVE  FALSE
          <6>1. t # s
            BY <3>1, <5>1 DEF Claim, At
          <6>2. attempt'[s] = attempt[s]
            BY <5>1, <6>1 DEF Claim, TakeClaim, SetAttempt, TypeInv, TypeOK
          <6> QED
            BY <3>1, <3>2, <6>2
        <5> QED BY <5>1
      <4>2. PICK a \in Sender :
              (\A t \in Sender : t # a => attempt'[t] = attempt[t]) /\ StateMoves(a)
        BY <3>1, <3>2, <4>1, AttemptMoves DEF OneMoves
      <4>3. a = s
        BY <3>1, <3>2, <4>2
      <4>4. PICK c \in Sender \cup Reconciler :
              /\ At(c, "finalizing") /\ call[c].attempt = s
              /\ call[c].outcome = attempt'[s].state
        BY <3>1, <3>2, <4>2, <4>3 DEF StateMoves, Closed, Unresolved
      <4>5. CASE c \in Sender
        <5>1. c = s
          BY <4>4, <4>5, Concluded DEF TypeInv, CallOK, At, Dispatching
        <5> QED
          BY <3>1, <4>4, <5>1 DEF At
      <4>6. CASE c \in Reconciler
        BY <3>1, <3>2, <4>4, <4>6 DEF DispatchInv
      <4> QED BY <4>5, <4>6
    <3> QED BY <3>2
  <2>3. CASE Finalize(s)
    BY <1>1, <2>3, FinalizedPc
  <2> QED
    BY <1>1, <2>0, <2>1, <2>2, <2>3, CallComes
<1>2. ASSUME NEW r \in Reconciler, call'[r].pc = "finalizing", call'[r].outcome \in Closed
      PROVE  request'[call'[r].attempt] # "none"
  <2>0. r \in Caller /\ r \notin Sender /\ call[r] \in CallRecord
    BY CallersDisjoint DEF Caller, TypeInv, TypeOK
  <2>1. CASE call'[r] = call[r]
    <3>1. At(r, "finalizing") /\ request[call[r].attempt] # "none"
      BY <1>2, <2>1 DEF DispatchInv, At
    <3>2. call[r].attempt \in Sender
      BY <3>1, Concluded
    <3> QED
      BY <1>0, <2>1, <3>1, <3>2
  <2>2. CASE Query(r)
    <3>1. PICK outcome \in QueryAnswer(call[r].invoice) : Conclude(r, outcome)
      BY <2>2 DEF Query
    <3> DEFINE to == [call[r] EXCEPT !.pc = "finalizing", !.outcome = outcome]
    <3>2. SetCall(r, to)
      BY <3>1 DEF Conclude
    <3>3. to.outcome = outcome /\ to.attempt = call[r].attempt
      BY <2>0 DEF CallRecord
    <3> HIDE DEF to
    <3>4. call'[r] = to
      BY <2>0, <3>2, OthersStay
    <3>5. call[r].invoice \in Invoice /\ call[r].invoice # None
      BY <2>0, <2>2, CallersDisjoint DEF Query, At, TypeInv, CallOK
    <3>6. PICK t \in Sender : attempt[t].invoice = call[r].invoice /\ request[t] # "none"
      BY <1>2, <3>1, <3>3, <3>4, <3>5, OneName DEF QueryAnswer, Attempts, Closed, Unresolved
    <3>7. invoice[call[r].invoice].attempt = t
      BY <3>5, <3>6 DEF Order, NamedInv
    <3>8. call[r].attempt = t
      BY <3>5, <3>7 DEF Order, CallInv, Sound
    <3> QED
      BY <1>0, <3>3, <3>4, <3>6, <3>8
  <2>3. CASE Finalize(r)
    BY <1>2, <2>3, FinalizedPc
  <2> QED
    BY <1>2, <2>0, <2>1, <2>2, <2>3, CallComes
<1> QED
  BY <1>1, <1>2 DEF DispatchInv, At

Stage(state) ==
  IF state \in Closed THEN state
  ELSE IF state \in {Unresolved, "reconciling"} THEN "unresolved" ELSE "dispatching"

\* The phase of an invoice is that of its attempt, whichever it is.
PhaseInv ==
  \A i \in Invoice :
    /\ Attempts(i) = {} => Phase(i) = "open"
    /\ \A s \in Sender : attempt[s].invoice = i => Phase(i) = Stage(attempt[s].state)

LEMMA PhaseOf == Order => PhaseInv
<1> SUFFICES ASSUME Order, NEW i \in Invoice
             PROVE  /\ Attempts(i) = {} => Phase(i) = "open"
                    /\ \A s \in Sender :
                         attempt[s].invoice = i => Phase(i) = Stage(attempt[s].state)
  BY DEF PhaseInv
<1>1. Attempts(i) = {} => Phase(i) = "open"
  BY DEF Phase
<1>2. ASSUME NEW s \in Sender, attempt[s].invoice = i
      PROVE  Phase(i) = Stage(attempt[s].state)
  <2>1. Attempts(i) = {s}
    BY <1>2, OneAttempt DEF Attempts
  <2>2. (CHOOSE t \in Attempts(i) : TRUE) = s
    BY <2>1
  <2> QED
    BY <2>1, <2>2 DEF Phase, Stage
<1> QED
  BY <1>1, <1>2

LEMMA RefinementInit == Init => Dispatch!Init
  BY CallersDisjoint DEF Init, Dispatch!Init, Phase, Attempts, NoAttempt

\* All that the invariants say before and after a step.
Ordered ==
  TypeInv /\ RecordInv /\ BelongInv /\ Order /\ CountInv /\ SentInv /\ DispatchInv /\ PhaseInv

LEMMA PhasesMove ==
  ASSUME NEW i \in Invoice, NEW to, UNCHANGED submits, Phase(i)' = to,
         \A j \in Invoice : j # i => Phase(j)' = Phase(j)
  PROVE  Dispatch!Move(i, to)
  BY DEF Dispatch!Move

LEMMA PhasesStay ==
  ASSUME \A j \in Invoice : Phase(j)' = Phase(j)
  PROVE  UNCHANGED [i \in Invoice |-> Phase(i)]
  OBVIOUS

\* Of an invoice whose attempts do not change, the phase does not.
LEMMA SamePhase ==
  ASSUME PhaseInv, PhaseInv', NEW j \in Invoice,
         \A t \in Sender : attempt[t].invoice = j \/ attempt'[t].invoice = j =>
           attempt'[t].invoice = attempt[t].invoice /\ attempt'[t].state = attempt[t].state
  PROVE  Phase(j)' = Phase(j)
<1>1. CASE Attempts(j) = {}
  <2>1. Attempts(j)' = {}
    BY <1>1 DEF Attempts
  <2> QED
    BY <1>1, <2>1 DEF PhaseInv
<1>2. CASE Attempts(j) # {}
  <2>1. PICK s \in Sender : attempt[s].invoice = j
    BY <1>2 DEF Attempts
  <2>2. attempt'[s].invoice = j /\ attempt'[s].state = attempt[s].state
    BY <2>1
  <2>3. Phase(j) = Stage(attempt[s].state)
    BY <2>1 DEF PhaseInv
  <2>4. Phase(j)' = Stage(attempt'[s].state)
    BY <2>2 DEF PhaseInv, Stage
  <2> QED
    BY <2>2, <2>3, <2>4
<1> QED BY <1>1, <1>2

LEMMA RefinementClaim ==
  ASSUME Ordered, Ordered', NEW s \in Sender, NEW i \in Invoice, NEW k \in Key, Claim(s, i, k)
  PROVE  Dispatch!Begin(i)
<1> DEFINE new == [NoAttempt EXCEPT !.state = "claimed", !.invoice = i, !.key = k]
<1>1. SetAttempt(s, new) /\ UNCHANGED submits
  BY DEF Claim, TakeClaim
<1>2. new.invoice = i /\ new.state = "claimed"
  BY DEF NoAttempt
<1>3. attempt[s].invoice = None /\ None \notin Invoice
  BY CallersDisjoint DEF Claim, Ordered, RecordInv, NoAttempt
<1> HIDE DEF new
<1>4. \A t \in Sender : attempt'[t] = IF t = s THEN new ELSE attempt[t]
  BY <1>1 DEF SetAttempt, Ordered, TypeInv, TypeOK
<1>5. Phase(i) = "open"
  BY DEF Claim, Ordered, Order, FreshInv, Unclaimed, PhaseInv
<1>6. Phase(i)' = "dispatching"
  <2>1. Phase(i)' = Stage(attempt'[s].state)
    BY <1>2, <1>4 DEF Ordered, PhaseInv, Stage
  <2> QED
    BY <1>2, <1>4, <2>1 DEF Stage, Closed, Unresolved
<1>7. \A j \in Invoice : j # i => Phase(j)' = Phase(j)
  BY <1>2, <1>3, <1>4, SamePhase DEF Ordered
<1> QED
  BY <1>1, <1>5, <1>6, <1>7, PhasesMove DEF Dispatch!Begin

LEMMA RefinementSubmit ==
  ASSUME Ordered, Ordered', NEW s \in Sender, Submit(s)
  PROVE  Dispatch!Submit(call[s].invoice)
<1> DEFINE i == call[s].invoice
<1>1. i \in Invoice /\ attempt[s].invoice = i /\ request[s] = "none" /\ UNCHANGED attempt
  BY Submitted DEF Ordered
<1>2. attempt[s].state \notin Closed
  BY DEF Submit, Ordered, DispatchInv
<1>3. Phase(i) \in {"dispatching", "unresolved"}
  BY <1>1, <1>2 DEF Ordered, PhaseInv, Stage
<1>4. submits[i] = 0
  <2>1. \A t \in Sender : attempt[t].invoice = i => t = s
    BY <1>1, OneAttempt DEF Attempts, Ordered
  <2> QED
    BY <1>1, <2>1 DEF Ordered, CountInv, Attempts
<1>5. submits' = [submits EXCEPT ![i] = 1]
  BY <1>4 DEF Submit
<1>6. UNCHANGED [j \in Invoice |-> Phase(j)]
  BY <1>1, SamePhase, PhasesStay DEF Ordered
<1> QED
  BY <1>1, <1>3, <1>4, <1>5, <1>6 DEF Dispatch!Submit, Dispatch!Undecided

LEMMA RefinementMoves ==
  ASSUME NumbersApart, Ordered, Ordered', Next, OneMoves,
         ~\E s \in Sender, i \in Invoice, k \in Key : Claim(s, i, k)
  PROVE  UNCHANGED Dispatch!ledger \/ Dispatch!Next
<1>1. UNCHANGED submits
  BY DEF OneMoves
<1>2. PICK a \in Sender :
        (\A t \in Sender : t # a => attempt'[t] = attempt[t]) /\ StateMoves(a)
  BY DEF OneMoves
<1>3. \A s \in Sender : attempt'[s].invoice = attempt[s].invoice
  BY StableStep DEF Ordered, Stable
<1>a. PICK i : i = attempt[a].invoice
  OBVIOUS
<1>4. CASE Stage(attempt'[a].state) = Stage(attempt[a].state) /\ i \in Invoice
  <2>1. Phase(i)' = Phase(i)
    BY <1>a, <1>3, <1>4 DEF Ordered, PhaseInv, Stage
  <2>2. \A j \in Invoice : j # i => Phase(j)' = Phase(j)
    BY <1>a, <1>2, <1>3, SamePhase DEF Ordered
  <2>3. \A j \in Invoice : Phase(j)' = Phase(j)
    BY <2>1, <2>2
  <2> QED
    BY <1>1, <2>3, PhasesStay DEF Dispatch!ledger
<1>5. CASE attempt'[a].state = attempt[a].state /\ i \notin Invoice
  BY <1>a, <1>1, <1>2, <1>3, <1>5, SamePhase, PhasesStay DEF Ordered, Dispatch!ledger
<1>6. CASE attempt'[a].state # attempt[a].state
           /\ Stage(attempt'[a].state) # Stage(attempt[a].state)
  <2>1. i \in Invoice
    BY <1>a, <1>2, <1>6 DEF StateMoves, Ordered, RecordInv, Unresolved
  <2>2. /\ Phase(i) = Stage(attempt[a].state)
        /\ Phase(i)' = Stage(attempt'[a].state)
    BY <1>a, <1>3, <2>1 DEF Ordered, PhaseInv, Stage
  <2>3. Dispatch!Move(i, Stage(attempt'[a].state))
    BY <1>a, <1>1, <1>2, <1>3, <2>1, <2>2, SamePhase, PhasesMove DEF Ordered
  <2>4. CASE attempt'[a].state \in {"reconciling", Unresolved}
    <3>1. Stage(attempt'[a].state) = "unresolved" /\ Phase(i) = "dispatching"
      BY <1>2, <1>6, <2>2, <2>4 DEF StateMoves, Stage, Closed, Unresolved
    <3>2. Dispatch!Doubt(i)
      BY <2>1, <2>3, <3>1 DEF Dispatch!Doubt
    <3> QED
      BY <2>1, <3>2 DEF Dispatch!Next
  <2>5. CASE attempt'[a].state = "failed"
    <3>1. Stage(attempt'[a].state) = "failed" /\ Phase(i) \in {"dispatching", "unresolved"}
      BY <1>2, <1>6, <2>2, <2>5 DEF StateMoves, Stage, Closed, Unresolved
    <3>2. Dispatch!Fail(i)
      BY <2>1, <2>3, <3>1 DEF Dispatch!Fail, Dispatch!Undecided
    <3> QED
      BY <2>1, <3>2 DEF Dispatch!Next
  <2>6. CASE attempt'[a].state = "sent"
    <3>1. Stage(attempt'[a].state) = "sent" /\ Phase(i) \in {"dispatching", "unresolved"}
      BY <1>2, <1>6, <2>2, <2>6 DEF StateMoves, Stage, Closed, Unresolved
    <3>2. \E t \in Sender : attempt'[t].invoice = i /\ request'[t] = "accepted"
      BY <1>a, <1>3, <2>1, <2>6
         DEF Ordered, SentInv, TakenOne, Taken, Namesakes, NumbersApart
    <3>3. submits'[i] = 1
      BY <2>1, <3>2 DEF Ordered, CountInv, Attempts
    <3>4. Dispatch!Confirm(i)
      BY <1>1, <2>1, <2>3, <3>1, <3>3 DEF Dispatch!Confirm, Dispatch!Undecided
    <3> QED
      BY <2>1, <3>4 DEF Dispatch!Next
  <2>7. CASE attempt'[a].state \in {"preflight_passed", "request_started"}
    BY <1>2, <1>6, <2>7 DEF StateMoves, Stage, Closed, Unresolved
  <2> QED
    BY <1>2, <1>6, <2>4, <2>5, <2>6, <2>7 DEF StateMoves, Closed
<1>7. CASE attempt'[a].state # attempt[a].state /\ i \notin Invoice
  BY <1>a, <1>2, <1>7 DEF StateMoves, Ordered, RecordInv, Unresolved
<1> QED
  BY <1>4, <1>5, <1>6, <1>7

LEMMA RefinementStep ==
  ASSUME NumbersApart
  PROVE  Ordered /\ Ordered' /\ [Next]_vars => [Dispatch!Next]_(Dispatch!ledger)
<1> SUFFICES ASSUME Ordered, Ordered', [Next]_vars
             PROVE  UNCHANGED Dispatch!ledger \/ Dispatch!Next
  BY DEF Dispatch!ledger
<1>0. CASE UNCHANGED attempt /\ ~\E s \in Sender : Submit(s)
  <2>1. UNCHANGED submits
    BY <1>0, RequestsStay DEF Ordered
  <2>2. UNCHANGED [i \in Invoice |-> Phase(i)]
    BY <1>0, SamePhase, PhasesStay DEF Ordered
  <2> QED
    BY <2>1, <2>2 DEF Dispatch!ledger
<1>1. CASE UNCHANGED vars
  <2>1. UNCHANGED submits /\ UNCHANGED attempt
    BY <1>1 DEF vars
  <2>2. UNCHANGED [i \in Invoice |-> Phase(i)]
    BY <2>1, SamePhase, PhasesStay DEF Ordered
  <2> QED
    BY <2>1, <2>2 DEF Dispatch!ledger
<1>2. ASSUME NEW s \in Sender, NEW i \in Invoice, NEW k \in Key, Claim(s, i, k)
      PROVE  Dispatch!Next
  BY <1>2, RefinementClaim DEF Dispatch!Next
<1>3. ASSUME NEW s \in Sender, Submit(s) PROVE Dispatch!Next
  BY <1>3, RefinementSubmit, Submitted DEF Dispatch!Next, Ordered
<1>4. CASE Next /\ OneMoves /\ ~\E s \in Sender, i \in Invoice, k \in Key : Claim(s, i, k)
  BY <1>4, RefinementMoves
<1> QED
  BY <1>0, <1>1, <1>2, <1>3, <1>4, AttemptMoves DEF Ordered

\* Where the approvals of an invoice do not overlap, and no two invoices have one number,
\* drafting, sending, retrying, crashing and reconciling implement a dispatch that begins
\* once, submits once and is confirmed, failed or in doubt.
THEOREM ProtocolImplementsDispatch ==
  ASSUME NumbersApart
  PROVE  Spec /\ []ApprovalsApart => ImplementsDispatch
<1>1. TypeInv /\ RecordInv /\ BelongInv /\ SentInv /\ [Next]_vars => SentInv'
  BY SentStep
<1>2. TypeInv /\ RecordInv /\ BelongInv /\ Order /\ DispatchInv /\ [Next]_vars => DispatchInv'
  BY DispatchInvStep
<1>3. Spec /\ []ApprovalsApart => []Ordered
  BY <1>1, <1>2, SentInit, DispatchInit, CountInvariant, PhaseOf, PTL DEF Spec, Ordered
<1>4. Ordered /\ Ordered' /\ [Next]_vars => [Dispatch!Next]_(Dispatch!ledger)
  BY RefinementStep
<1> QED
  BY <1>3, <1>4, RefinementInit, PTL DEF Spec, ImplementsDispatch, Dispatch!Spec
=============================================================================
