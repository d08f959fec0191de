----------------------- MODULE JournalRevisions_proofs ------------------------
(***************************************************************************)
(* Proofs about JournalRevisions for any sets of runs and calls and any    *)
(* bound on the revisions: first its invariants, by one inductive          *)
(* invariant, then that it implements RevisionStore.                       *)
(***************************************************************************)
EXTENDS JournalRevisions, TLAPS

Transacting == {"locked", "fenced", "keeping", "posting"}

\* The locks behind the program points.
LockInv ==
  /\ \A w \in Run : run[w].pc \in Transacting => lock["document"] = w
  /\ \A c \in Call : call[c].pc = "writing" => lock["journal"] = c

\* The revision a run has read is current as long as it holds the document, and the
\* record shows the current revision or a result kept aside.
RevisionInv ==
  /\ RevisionsAgree
  /\ record.of \in {0, journal.no}
  /\ \A w \in Run : run[w].pc \in Transacting => run[w].revision = journal.no

\* Revisions only grow, so content read between the page and the locked journal, both
\* at the expected revision, is of that revision or was kept aside beside it.
ReadFits(to) ==
  /\ to.base = 0 \/ (to.expected <= to.base /\ to.base <= journal.no)
  /\ to.base = 0 /\ to.expected = journal.no => record.of = 0

CallInv ==
  \A c \in Call :
    /\ call[c].pc # "idle" => call[c].expected <= journal.no
    /\ call[c].pc \in {"read", "writing"} => ReadFits(call[c])
    /\ call[c].pc = "writing" => call[c].expected = journal.no

\* A run on its way to post has seen a journal that is not approved, and nobody
\* can approve it before the run ends.
RunInv ==
  \A w \in Run :
    /\ run[w].pc = "posting" => ~Approved
    /\ run[w].pc = "keeping" => run[w].leave # "approved"

\* Only a review approves, and an approved document shows what the journal has.
ExportInv ==
  /\ journal.status = "approved" => journal.by = "review"
  /\ document.status = "approved" => record.of = journal.no

IInv ==
  /\ TypeOK
  /\ LockInv
  /\ RevisionInv
  /\ CallInv
  /\ RunInv
  /\ ExportInv

-----------------------------------------------------------------------------
LEMMA Distinct == None \notin Run /\ None \notin Call /\ Run \cap Call = {}
BY RevisionsAssumption

LEMMA InitSafe == Init => IInv
<1> SUFFICES ASSUME Init PROVE IInv
  OBVIOUS
<1>1. TypeOK
  BY DEF Init, TypeOK, JournalRecord, DocumentRecord, RecordRecord, RunRecord, CallRecord,
         NoRun, NoCall, Maker, Status, DocumentStatus
<1>2. LockInv /\ CallInv /\ RunInv
  BY DEF Init, LockInv, CallInv, RunInv, NoRun, NoCall, Transacting
<1>3. RevisionInv /\ ExportInv
  BY DEF Init, RevisionInv, RevisionsAgree, ExportInv, NoRun, Transacting
<1> QED
  BY <1>1, <1>2, <1>3 DEF IInv

-----------------------------------------------------------------------------
(* Steps of one transaction that leave journal, document and record alone: *)
(* the locks it holds afterwards fit its program point.                    *)

Data == <<journal, document, record>>

LockMoves(p) ==
  /\ lock' \in [Row -> Run \cup Call \cup {None}]
  /\ \A r \in Row : lock[r] # None /\ lock[r] # p => lock'[r] = lock[r]

LEMMA Releasing ==
  ASSUME TypeOK, NEW p \in Run \cup Call, Release(p)
  PROVE  LockMoves(p)
BY DEF Release, LockMoves, TypeOK, Row

LEMMA Locking ==
  ASSUME TypeOK, NEW p \in Run \cup Call, NEW r \in Row, Free(r), Lock(r, p)
  PROVE  LockMoves(p) /\ lock'[r] = p /\ (\A q \in Row : q # r => lock'[q] = lock[q])
BY Distinct DEF Lock, Free, LockMoves, TypeOK, Row

LEMMA Keeping ==
  ASSUME TypeOK, NEW p \in Run \cup Call, UNCHANGED lock
  PROVE  LockMoves(p)
BY DEF LockMoves, TypeOK

LEMMA RunMoves ==
  ASSUME IInv, NEW w \in Run, NEW to \in RunRecord, SetRun(w, to), LockMoves(w),
         UNCHANGED <<Data, call>>, holder' \in Run \cup {None},
         to.pc \in Transacting => lock'["document"] = w /\ to.revision = journal.no,
         to.pc = "posting" => ~Approved,
         to.pc = "keeping" => to.leave # "approved"
  PROVE  IInv'
<1>1. run' = [run EXCEPT ![w] = to] /\ run'[w] = to /\ (\A v \in Run \ {w} : run'[v] = run[v])
  BY DEF IInv, TypeOK, SetRun
<1>2. TypeOK'
  BY <1>1 DEF IInv, TypeOK, Data, LockMoves
<1>3. LockInv'
  <2>1. ASSUME NEW v \in Run, run'[v].pc \in Transacting PROVE lock'["document"] = v
    BY <1>1, <2>1, Distinct DEF IInv, LockInv, LockMoves, Row
  <2>2. ASSUME NEW c \in Call, call'[c].pc = "writing" PROVE lock'["journal"] = c
    BY <2>2, Distinct DEF IInv, LockInv, LockMoves, Row, Data
  <2> QED BY <2>1, <2>2 DEF LockInv
<1>4. RevisionInv'
  BY <1>1 DEF IInv, RevisionInv, RevisionsAgree, Data
<1>5. RunInv'
  BY <1>1 DEF IInv, RunInv, Approved, Data
<1>6. CallInv' /\ ExportInv'
  BY DEF IInv, CallInv, ReadFits, ExportInv, Data
<1> QED BY <1>2, <1>3, <1>4, <1>5, <1>6 DEF IInv

LEMMA CallMoves ==
  ASSUME IInv, NEW c \in Call, NEW to \in CallRecord, SetCall(c, to), LockMoves(c),
         UNCHANGED <<Data, run, holder>>,
         to.pc = "writing" => lock'["journal"] = c /\ to.expected = journal.no,
         to.pc # "idle" => to.expected <= journal.no,
         to.pc \in {"read", "writing"} => ReadFits(to)
  PROVE  IInv'
<1>1. call' = [call EXCEPT ![c] = to] /\ call'[c] = to /\ (\A d \in Call \ {c} : call'[d] = call[d])
  BY DEF IInv, TypeOK, SetCall
<1>2. TypeOK'
  BY <1>1 DEF IInv, TypeOK, Data, LockMoves
<1>3. LockInv'
  <2>1. ASSUME NEW v \in Run, run'[v].pc \in Transacting PROVE lock'["document"] = v
    BY <2>1, Distinct DEF IInv, LockInv, LockMoves, Row, Data
  <2>2. ASSUME NEW d \in Call, call'[d].pc = "writing" PROVE lock'["journal"] = d
    BY <1>1, <2>2, Distinct DEF IInv, LockInv, LockMoves, Row, Data
  <2> QED BY <2>1, <2>2 DEF LockInv
<1>4. CallInv'
  BY <1>1 DEF IInv, CallInv, ReadFits, Data
<1>5. RevisionInv' /\ RunInv' /\ ExportInv'
  BY DEF IInv, RevisionInv, RevisionsAgree, RunInv, Approved, ExportInv, Data
<1> QED BY <1>2, <1>3, <1>4, <1>5 DEF IInv

-----------------------------------------------------------------------------
(* The three steps that write.                                             *)

LEMMA KeepSafe == ASSUME IInv, NEW w \in Run, Keep(w) PROVE IInv'
<1> USE DEF IInv
<1>1. run'[w] = NoRun /\ (\A v \in Run \ {w} : run'[v] = run[v]) /\ run' \in [Run -> RunRecord]
  BY DEF Keep, SetRun, TypeOK, NoRun, RunRecord, DocumentStatus
<1>2. LockMoves(w)
  BY Releasing DEF Keep
<1>3. TypeOK'
  BY <1>1, <1>2 DEF Keep, TypeOK, LockMoves, RecordRecord, DocumentRecord, RunRecord
<1>4. LockInv'
  BY <1>1, <1>2, Distinct DEF Keep, LockInv, LockMoves, Row, NoRun, Transacting
<1>5. RevisionInv'
  BY <1>1 DEF Keep, RevisionInv, RevisionsAgree, NoRun, Transacting, TypeOK, DocumentRecord
<1>6. CallInv'
  BY DEF Keep, CallInv, ReadFits
<1>7. RunInv'
  BY <1>1 DEF Keep, RunInv, Approved, NoRun
<1>8. ExportInv'
  BY DEF Keep, ExportInv, RunInv, TypeOK, DocumentRecord
<1> QED BY <1>3, <1>4, <1>5, <1>6, <1>7, <1>8

LEMMA PostSafe == ASSUME IInv, NEW w \in Run, Post(w) PROVE IInv'
<1> USE DEF IInv
<1>1. run'[w] = NoRun /\ (\A v \in Run \ {w} : run'[v] = run[v]) /\ run' \in [Run -> RunRecord]
  BY DEF Post, SetRun, TypeOK, NoRun, RunRecord, DocumentStatus
<1>2. LockMoves(w)
  BY Releasing DEF Post
<1>a. journal \in JournalRecord /\ journal.no \in Nat
  BY DEF TypeOK, JournalRecord
<1>b. /\ journal' \in JournalRecord
      /\ journal'.no = journal.no + 1 /\ journal'.status = "review_required"
      /\ journal'.by = "worker"
  <2>1. journal' = [no |-> journal.no + 1, status |-> "review_required", by |-> "worker",
                    basis |-> journal.no + 1, approved |-> journal.approved]
    BY <1>a DEF Post, JournalRecord
  <2> QED
    BY <1>a, <2>1 DEF JournalRecord, Maker, Status
<1>c. document' = [status |-> "review_required", revision |-> journal.no + 1]
      /\ record' = [revision |-> journal.no + 1, of |-> journal.no + 1]
      /\ UNCHANGED <<holder, call>> /\ Free("journal") /\ run[w].pc = "posting"
  BY DEF Post
<1>3. TypeOK'
  BY <1>1, <1>2, <1>a, <1>b, <1>c DEF TypeOK, LockMoves, RecordRecord, DocumentRecord, DocumentStatus, Status
<1>d. \A v \in Run : run'[v].pc \notin Transacting
  BY <1>1, <1>c, Distinct DEF LockInv, NoRun, Transacting
<1>e. \A c \in Call : call[c].pc # "writing"
  BY <1>c, Distinct DEF LockInv, Free
<1>4. LockInv'
  BY <1>c, <1>d, <1>e DEF LockInv
<1>5. RevisionInv'
  BY <1>b, <1>c, <1>d DEF RevisionInv, RevisionsAgree
<1>6. CallInv'
  BY <1>a, <1>b, <1>c, <1>e DEF CallInv, ReadFits, TypeOK, CallRecord
<1>7. RunInv'
  BY <1>d DEF RunInv, Transacting
<1>8. ExportInv'
  BY <1>b, <1>c DEF ExportInv
<1> QED BY <1>3, <1>4, <1>5, <1>6, <1>7, <1>8

\* What a decision or a reopen makes of the journal.
NewRevision(c, new) ==
  /\ new \in JournalRecord
  /\ new.status \in Status
  /\ new.no = journal.no + 1
  /\ new.by = call[c].kind
  /\ new.status = "approved" => new.by = "review"

LEMMA WriteSafe ==
  ASSUME IInv, NEW c \in Call, NEW new, NewRevision(c, new), Write(c, new) PROVE IInv'
<1> USE DEF IInv
<1>1. /\ call'[c] = NoCall /\ (\A d \in Call \ {c} : call'[d] = call[d])
      /\ call' \in [Call -> CallRecord]
  BY DEF Write, SetCall, TypeOK, NoCall, CallRecord
<1>2. LockMoves(c)
  BY Releasing DEF Write
<1>a. journal \in JournalRecord /\ journal.no \in Nat /\ call[c] \in CallRecord
  BY DEF TypeOK, JournalRecord
<1>b. /\ journal' = new /\ new \in JournalRecord /\ new.status \in Status
      /\ new.no = journal.no + 1
      /\ new.status = "approved" => new.by = "review"
  BY DEF Write, NewRevision
<1>c. /\ document' = [status |-> new.status, revision |-> new.no]
      /\ record' = [revision |-> new.no, of |-> new.no]
      /\ UNCHANGED <<holder, run>> /\ Free("document") /\ call[c].pc = "writing"
  BY DEF Write
<1>3. TypeOK'
  BY <1>1, <1>2, <1>a, <1>b, <1>c DEF TypeOK, LockMoves, RecordRecord, DocumentRecord, DocumentStatus, Status
<1>d. \A v \in Run : run[v].pc \notin Transacting
  BY <1>c, Distinct DEF LockInv, Free
<1>e. \A d \in Call : call'[d].pc # "writing"
  BY <1>1, <1>c, Distinct DEF LockInv, NoCall
<1>4. LockInv'
  BY <1>c, <1>d, <1>e DEF LockInv
<1>5. RevisionInv'
  BY <1>b, <1>c, <1>d DEF RevisionInv, RevisionsAgree
<1>6. CallInv'
  BY <1>1, <1>a, <1>b, <1>c, <1>e DEF CallInv, ReadFits, TypeOK, CallRecord, NoCall
<1>7. RunInv'
  BY <1>c, <1>d DEF RunInv, Transacting
<1>8. ExportInv'
  BY <1>b, <1>c DEF ExportInv
<1> QED BY <1>3, <1>4, <1>5, <1>6, <1>7, <1>8
-----------------------------------------------------------------------------
LEMMA RunStepSafe == ASSUME IInv, NEW w \in Run, RunStep(w) PROVE IInv'
<1>w. run[w] \in RunRecord /\ TypeOK /\ NoRun \in RunRecord
  BY DEF IInv, TypeOK, NoRun, RunRecord, DocumentStatus
<1>1. CASE LockDocument(w)
  <2>1. Locked(w) \in RunRecord /\ Locked(w).pc = "locked" /\ Locked(w).revision = journal.no
    BY <1>w DEF IInv, RevisionInv, RevisionsAgree, Locked, RunRecord, TypeOK, DocumentRecord
  <2>2. LockMoves(w) /\ lock'["document"] = w
    BY <1>1, <1>w, Locking DEF LockDocument, Row
  <2> QED
    BY <1>1, <1>w, <2>1, <2>2, RunMoves DEF LockDocument, Data, TypeOK
<1>2. CASE CheckFence(w)
  <2>1. CASE holder = w
    <3>1. LockMoves(w) /\ lock'["document"] = lock["document"]
      BY <1>2, <1>w, <2>1, Locking DEF CheckFence, Row
    <3>2. lock["document"] = w /\ run[w].revision = journal.no
      BY <1>2 DEF CheckFence, IInv, LockInv, RevisionInv, Transacting
    <3> DEFINE to == [run[w] EXCEPT !.pc = "fenced"]
    <3>3. to \in RunRecord /\ to.pc = "fenced" /\ to.revision = journal.no
      BY <1>w, <3>2 DEF RunRecord
    <3>4. SetRun(w, to)
      BY <1>2, <2>1 DEF CheckFence
    <3>5. UNCHANGED <<Data, call, holder>>
      BY <1>2 DEF CheckFence, Data
    <3> HIDE DEF to
    <3> QED
      BY <1>w, <3>1, <3>2, <3>3, <3>4, <3>5, RunMoves DEF TypeOK
  <2>2. CASE holder # w
    BY <1>2, <1>w, <2>2, Releasing, RunMoves DEF CheckFence, Data, NoRun, Transacting, TypeOK
  <2> QED BY <2>1, <2>2
<1>3. ASSUME NEW result \in Result, ReadJournal(w, result) PROVE IInv'
  <2>1. lock["document"] = w /\ run[w].revision = journal.no
    BY <1>3 DEF ReadJournal, IInv, LockInv, RevisionInv, Transacting
  <2>2. LockMoves(w) /\ UNCHANGED <<Data, call, holder, lock>>
    BY <1>3, <1>w, Keeping DEF ReadJournal, Data
  <2>3. ASSUME NEW status \in DocumentStatus \ {"approved"}, SetRun(w, Leaving(w, status))
        PROVE  IInv'
    <3>1. /\ Leaving(w, status) \in RunRecord
          /\ Leaving(w, status).pc = "keeping" /\ Leaving(w, status).leave = status
          /\ Leaving(w, status).revision = journal.no
      BY <1>w, <2>1 DEF Leaving, RunRecord
    <3> QED
      BY <1>w, <2>1, <2>2, <2>3, <3>1, RunMoves DEF TypeOK
  <2>4. ASSUME ~Approved, SetRun(w, [run[w] EXCEPT !.pc = "posting"]) PROVE IInv'
    <3> DEFINE to == [run[w] EXCEPT !.pc = "posting"]
    <3>1. to \in RunRecord /\ to.pc = "posting" /\ to.revision = journal.no
      BY <1>w, <2>1 DEF RunRecord
    <3>2. SetRun(w, to)
      BY <2>4
    <3> HIDE DEF to
    <3> QED
      BY <1>w, <2>1, <2>2, <2>4, <3>1, <3>2, RunMoves DEF TypeOK
  <2>5. \/ \E status \in DocumentStatus \ {"approved"} : SetRun(w, Leaving(w, status))
        \/ ~Approved /\ SetRun(w, [run[w] EXCEPT !.pc = "posting"])
    BY <1>3 DEF ReadJournal, Result, DocumentStatus, Status
  <2> QED BY <2>3, <2>4, <2>5
<1> QED
  BY <1>1, <1>2, <1>3, KeepSafe, PostSafe DEF RunStep

LEMMA CallStepSafe == ASSUME IInv, NEW c \in Call, CallStep(c) PROVE IInv'
<1>c. call[c] \in CallRecord /\ TypeOK /\ NoCall \in CallRecord
      /\ journal.no \in Nat /\ record.revision = journal.no
  BY DEF IInv, TypeOK, NoCall, CallRecord, JournalRecord, RevisionInv, RevisionsAgree
<1>1. CASE ReadRecord(c)
  <2> DEFINE to == [call[c] EXCEPT !.pc = "read", !.base = record.of]
  <2>1. to \in CallRecord /\ to.pc = "read" /\ to.expected = call[c].expected /\ to.base = record.of
    BY <1>c DEF CallRecord, TypeOK, RecordRecord
  <2>2. call[c].expected <= journal.no /\ ReadFits(to)
    BY <1>1, <1>c, <2>1 DEF ReadRecord, IInv, CallInv, RevisionInv, ReadFits
  <2>3. SetCall(c, to) /\ LockMoves(c) /\ UNCHANGED <<Data, run, holder>>
    BY <1>1, <1>c, Keeping DEF ReadRecord, Data
  <2> HIDE DEF to
  <2> QED
    BY <1>c, <2>1, <2>2, <2>3, CallMoves
<1>2. CASE LockJournal(c)
  <2>1. CASE UNCHANGED lock /\ SetCall(c, NoCall)
    BY <1>2, <1>c, <2>1, Keeping, CallMoves DEF LockJournal, Data, NoCall
  <2>2. CASE Lock("journal", c) /\ SetCall(c, [call[c] EXCEPT !.pc = "writing"])
             /\ journal.no = call[c].expected
    <3> DEFINE to == [call[c] EXCEPT !.pc = "writing"]
    <3>1. /\ to \in CallRecord /\ to.pc = "writing"
          /\ to.expected = call[c].expected /\ to.base = call[c].base
      BY <1>c DEF CallRecord
    <3>2. ReadFits(to) /\ call[c].expected <= journal.no
      BY <1>2, <3>1 DEF LockJournal, IInv, CallInv, ReadFits
    <3>3. LockMoves(c) /\ lock'["journal"] = c /\ SetCall(c, to) /\ UNCHANGED <<Data, run, holder>>
      BY <1>2, <1>c, <2>2, Locking DEF LockJournal, Data, Row
    <3> HIDE DEF to
    <3> QED
      BY <1>c, <2>2, <3>1, <3>2, <3>3, CallMoves
  <2> QED BY <1>2, <2>1, <2>2 DEF LockJournal
<1>3. CASE Reopen(c)
  <2>1. NewRevision(c, Reopened)
    BY <1>c, <1>3 DEF Reopen, Reopened, NewRevision, JournalRecord, Maker, Status, IInv, TypeOK
  <2> QED
    BY <1>3, <2>1, WriteSafe DEF Reopen
<1>4. ASSUME NEW status \in {"approved", "rejected", "review_required"}, Decide(c, status)
      PROVE  IInv'
  <2>1. NewRevision(c, Decided(c, status))
    BY <1>c, <1>4 DEF Decide, Decided, NewRevision, JournalRecord, CallRecord, Maker, Status, IInv, TypeOK
  <2> QED
    BY <1>4, <2>1, WriteSafe DEF Decide
<1> QED
  BY <1>1, <1>2, <1>3, <1>4 DEF CallStep

LEMMA FailureSafe ==
  ASSUME IInv,
         \/ \E w \in Run : LoseRun(w)
         \/ \E c \in Call : LoseCall(c)
         \/ \E w \in Run, c \in Call : BreakDeadlock(w, c)
  PROVE  IInv'
<1>t. TypeOK /\ NoRun \in RunRecord /\ NoCall \in CallRecord /\ holder \in Run \cup {None}
  BY DEF IInv, TypeOK, NoRun, RunRecord, DocumentStatus, NoCall, CallRecord
<1>1. ASSUME NEW w \in Run, Release(w), SetRun(w, NoRun), UNCHANGED <<Data, call, holder>> PROVE IInv'
  BY <1>1, <1>t, Releasing, RunMoves DEF NoRun, Transacting
<1>2. ASSUME NEW c \in Call, Release(c), SetCall(c, NoCall), UNCHANGED <<Data, run, holder>> PROVE IInv'
  BY <1>2, <1>t, Releasing, CallMoves DEF NoCall
<1> QED
  BY <1>1, <1>2 DEF LoseRun, LoseCall, BreakDeadlock, Data

LEMMA BeginSafe ==
  ASSUME IInv,
         \/ \E w \in Run : Start(w)
         \/ \E c \in Call, kind \in {"review", "reopen"} : Ask(c, kind)
  PROVE  IInv'
<1>1. ASSUME NEW w \in Run, Start(w) PROVE IInv'
  <2> DEFINE to == [NoRun EXCEPT !.pc = "running"]
  <2>1. to \in RunRecord /\ to.pc = "running"
    BY DEF NoRun, RunRecord, DocumentStatus
  <2>2. SetRun(w, to) /\ LockMoves(w) /\ UNCHANGED <<Data, call>> /\ holder' \in Run \cup {None}
    BY <1>1, Keeping DEF Start, Data, IInv
  <2> HIDE DEF to
  <2> QED BY <2>1, <2>2, RunMoves DEF Transacting
<1>2. ASSUME NEW c \in Call, NEW kind \in {"review", "reopen"}, Ask(c, kind) PROVE IInv'
  <2> DEFINE to == [NoCall EXCEPT !.pc = "asked", !.kind = kind, !.expected = journal.no]
  <2>1. journal.no \in Nat
    BY DEF IInv, TypeOK, JournalRecord
  <2>2. to \in CallRecord /\ to.pc = "asked" /\ to.expected = journal.no
    BY <2>1 DEF NoCall, CallRecord
  <2>3. SetCall(c, to) /\ LockMoves(c) /\ UNCHANGED <<Data, run, holder>>
    BY <1>2, Keeping DEF Ask, Data, IInv
  <2> HIDE DEF to
  <2> QED BY <2>1, <2>2, <2>3, CallMoves
<1> QED BY <1>1, <1>2

LEMMA NextSafe == IInv /\ [Next]_vars => IInv'
<1> SUFFICES ASSUME IInv, [Next]_vars PROVE IInv'
  OBVIOUS
<1>1. CASE Next
  BY <1>1, RunStepSafe, CallStepSafe, FailureSafe, BeginSafe DEF Next
<1>2. CASE UNCHANGED vars
  BY <1>2 DEF vars, IInv, TypeOK, LockInv, RevisionInv, RevisionsAgree, CallInv, ReadFits, RunInv,
              Approved, ExportInv
<1> QED BY <1>1, <1>2

LEMMA Invariance == Spec => []IInv
BY InitSafe, NextSafe, PTL DEF Spec

-----------------------------------------------------------------------------
\* The state keeps its types for any runs, calls and bound on the revisions.
THEOREM TypeCorrect == Spec => []TypeOK
BY Invariance, PTL DEF IInv

\* Journal, documents row and workflow record always name the same revision,
\* whatever runs and reviewers do in whatever order of locks.
THEOREM OneRevision == Spec => []RevisionsAgree
<1>1. IInv => RevisionsAgree
  BY DEF IInv, RevisionInv
<1> QED BY <1>1, Invariance, PTL

\* What the export takes was approved by a reviewer and is what the record shows.
THEOREM ExportsShown == Spec => []ExportIsShown
<1>1. IInv => ExportIsShown
  BY DEF IInv, ExportInv, ExportIsShown, Exportable
<1> QED BY <1>1, Invariance, PTL

\* No run replaces an approved revision, although it looks at the journal without
\* a lock.
THEOREM ApprovalStands == Spec => ApprovedStands
<1> DEFINE Stands == Approved /\ journal'.no # journal.no => journal'.by # "worker"
<1>1. IInv /\ [Next]_vars => [Stands]_vars
  <2> SUFFICES ASSUME IInv, Next, Approved, journal' # journal PROVE journal'.by # "worker"
    BY DEF vars
  <2>1. \A w \in Run : ~Post(w)
    BY DEF IInv, RunInv, Post
  <2>2. \/ \E c \in Call : journal' = Reopened
        \/ \E c \in Call, status \in Status : journal' = Decided(c, status)
    BY <2>1 DEF Next, RunStep, CallStep, Start, LockDocument, CheckFence, ReadJournal, Keep,
                ReadRecord, LockJournal, LoseRun, LoseCall, BreakDeadlock, Ask, Reopen, Decide,
                Write, Status
  <2> QED
    BY <2>2 DEF Reopened, Decided
<1> QED
  BY <1>1, Invariance, PTL DEF Spec, ApprovedStands

-----------------------------------------------------------------------------
(* The store at one instant: JournalRevisions implements RevisionStore.    *)

Saving == {"fenced", "keeping", "posting"}

\* How a result may be left beside the journal as it is now.
LeaveFits(leave) ==
  \/ leave = "no_posting_required" /\ journal.no = 0
  \/ leave = "reprocess_review_required" /\ journal.no # 0
  \/ leave = "review_required" /\ ~Approved

LeavesWell(w) == run[w].pc = "keeping" => LeaveFits(run[w].leave)

\* What a transaction has checked is still so when it commits: the job is its own,
\* the journal is as the run read it, and is still the one that a reopen found.
StoreInv ==
  /\ \A w \in Run :
       /\ run[w].pc \in Saving => lock["job"] = w /\ holder = w
       /\ LeavesWell(w)
  /\ \A c \in Call :
       /\ call[c].pc # "idle" => call[c].expected # 0
       /\ call[c].pc = "writing" /\ call[c].kind = "reopen" => journal.status = "approved"
  /\ journal.no = 0 => journal.status # "approved"

LEMMA StoreInit == Init => StoreInv
BY DEF Init, StoreInv, NoRun, NoCall, Saving, LeavesWell

LEMMA RunKeeps ==
  ASSUME IInv, StoreInv, NEW w \in Run, NEW to \in RunRecord, SetRun(w, to), LockMoves(w),
         UNCHANGED <<journal, call>>, holder' = holder \/ Free("job"),
         to.pc \in Saving => lock'["job"] = w /\ holder' = w,
         to.pc = "keeping" => LeaveFits(to.leave)
  PROVE  StoreInv'
<1>1. run'[w] = to /\ (\A v \in Run \ {w} : run'[v] = run[v])
  BY DEF IInv, TypeOK, SetRun
<1>2. ASSUME NEW v \in Run \ {w}, run'[v].pc \in Saving PROVE lock'["job"] = v /\ holder' = v
  <2>1. lock["job"] = v /\ holder = v
    BY <1>1, <1>2 DEF StoreInv
  <2> QED BY <2>1, Distinct DEF LockMoves, Free, Row
<1>3. ASSUME NEW v \in Run \ {w} PROVE LeavesWell(v)'
  BY <1>1 DEF StoreInv, LeavesWell, LeaveFits, Approved
<1>4. \A c \in Call :
        /\ call'[c].pc # "idle" => call'[c].expected # 0
        /\ call'[c].pc = "writing" /\ call'[c].kind = "reopen" => journal'.status = "approved"
  BY DEF StoreInv
<1>5. journal'.no = 0 => journal'.status # "approved"
  BY DEF StoreInv
<1>6. /\ run'[w].pc \in Saving => lock'["job"] = w /\ holder' = w
      /\ LeavesWell(w)'
  BY <1>1 DEF LeavesWell, LeaveFits, Approved
<1> QED BY <1>2, <1>3, <1>4, <1>5, <1>6 DEF StoreInv

LEMMA CallKeeps ==
  ASSUME IInv, StoreInv, NEW c \in Call, NEW to \in CallRecord, SetCall(c, to), LockMoves(c),
         UNCHANGED <<journal, run, holder>>,
         to.pc # "idle" => to.expected # 0,
         to.pc = "writing" /\ to.kind = "reopen" => journal.status = "approved"
  PROVE  StoreInv'
<1>1. call'[c] = to /\ (\A d \in Call \ {c} : call'[d] = call[d])
  BY DEF IInv, TypeOK, SetCall
<1>2. ASSUME NEW v \in Run, run'[v].pc \in Saving PROVE lock'["job"] = v /\ holder' = v
  <2>1. lock["job"] = v /\ holder = v
    BY <1>2 DEF StoreInv
  <2> QED BY <2>1, Distinct DEF LockMoves, Row
<1>3. ASSUME NEW v \in Run PROVE LeavesWell(v)'
  BY DEF StoreInv, LeavesWell, LeaveFits, Approved
<1>4. \A d \in Call :
        /\ call'[d].pc # "idle" => call'[d].expected # 0
        /\ call'[d].pc = "writing" /\ call'[d].kind = "reopen" => journal'.status = "approved"
  BY <1>1 DEF StoreInv
<1>5. journal'.no = 0 => journal'.status # "approved"
  BY DEF StoreInv
<1> QED BY <1>2, <1>3, <1>4, <1>5 DEF StoreInv

\* How the transactions appear in the store: a step before the commit does not, and
\* a run that ends without one gives up.
Working == {w \in Run : run[w].pc # "idle"}

StoreStep == [Store!Next]_(Store!vars)

LEMMA StillWorking ==
  ASSUME TypeOK, NEW w \in Run, run[w].pc # "idle", NEW to, to.pc # "idle", SetRun(w, to)
  PROVE  Working' = Working
BY DEF TypeOK, SetRun, Working

LEMMA Ending ==
  ASSUME TypeOK, NEW w \in Run, run[w].pc # "idle", SetRun(w, NoRun)
  PROVE  Store!End(w) /\ Working' = Working \ {w} /\ w \in Working
BY DEF TypeOK, SetRun, Working, NoRun, Store!End

LEMMA Unseen ==
  ASSUME UNCHANGED <<Data, holder>>, Working' = Working
  PROVE  StoreStep
BY DEF Data, StoreStep, Store!vars, Working

LEMMA GivingUp ==
  ASSUME TypeOK, NEW w \in Run, run[w].pc # "idle", SetRun(w, NoRun), UNCHANGED <<Data, holder>>
  PROVE  StoreStep
<1>1. Store!GiveUp(w)
  BY Ending DEF Store!GiveUp, Data
<1> QED BY <1>1 DEF StoreStep, Store!Next

\* Until its commit a run only moves on: nothing shows, and what it has checked stays so.
LEMMA RunGoesOn ==
  ASSUME IInv, StoreInv, NEW w \in Run, run[w].pc # "idle", NEW to \in RunRecord, to.pc # "idle",
         SetRun(w, to), LockMoves(w), UNCHANGED <<Data, holder, call>>,
         to.pc \in Saving => lock'["job"] = w /\ holder = w,
         to.pc = "keeping" => LeaveFits(to.leave)
  PROVE  StoreInv' /\ StoreStep
<1>1. StoreInv'
  BY RunKeeps DEF Data
<1>2. Working' = Working
  BY StillWorking DEF IInv
<1> QED BY <1>1, <1>2, Unseen

LEMMA RunGivesUp ==
  ASSUME IInv, StoreInv, NEW w \in Run, run[w].pc # "idle", SetRun(w, NoRun), Release(w),
         UNCHANGED <<Data, holder, call>>
  PROVE  StoreInv' /\ StoreStep
<1>1. NoRun \in RunRecord /\ NoRun.pc = "idle" /\ LockMoves(w) /\ TypeOK
  BY Releasing DEF NoRun, RunRecord, DocumentStatus, IInv
<1>2. StoreInv'
  BY <1>1, RunKeeps DEF Data, Saving
<1> QED BY <1>1, <1>2, GivingUp

LEMMA CallGoesOn ==
  ASSUME IInv, StoreInv, NEW c \in Call, NEW to \in CallRecord, SetCall(c, to), LockMoves(c),
         UNCHANGED <<Data, run, holder>>,
         to.pc # "idle" => to.expected # 0,
         to.pc = "writing" /\ to.kind = "reopen" => journal.status = "approved"
  PROVE  StoreInv' /\ StoreStep
<1>1. StoreInv'
  BY CallKeeps DEF Data
<1>2. Working' = Working
  BY DEF Working
<1> QED BY <1>1, <1>2, Unseen

LEMMA StartTakes ==
  ASSUME IInv, StoreInv, NEW w \in Run, Start(w) PROVE StoreInv' /\ StoreStep
<1> DEFINE to == [NoRun EXCEPT !.pc = "running"]
<1>1. to \in RunRecord /\ to.pc = "running" /\ TypeOK
  BY DEF NoRun, RunRecord, DocumentStatus, IInv
<1>2. SetRun(w, to) /\ LockMoves(w) /\ UNCHANGED <<Data, call>> /\ Free("job") /\ holder' = w
  BY <1>1, Keeping DEF Start, Data
<1> HIDE DEF to
<1>3. StoreInv'
  BY <1>1, <1>2, RunKeeps DEF Data, Saving
<1>4. w \notin Working /\ Working' = Working \cup {w}
  BY <1>1, <1>2 DEF Start, Working, SetRun, TypeOK
<1>5. Store!Take(w)
  BY <1>2, <1>4 DEF Store!Take, Data, Working
<1> QED BY <1>3, <1>5 DEF StoreStep, Store!Next

-----------------------------------------------------------------------------
(* The three commits.                                                      *)

LEMMA KeepIsSave ==
  ASSUME IInv, StoreInv, NEW w \in Run, Keep(w) PROVE StoreInv' /\ StoreStep
<1>1. run[w].pc = "keeping" /\ SetRun(w, NoRun) /\ UNCHANGED <<journal, holder, call>>
  BY DEF Keep
<1>2. NoRun \in RunRecord /\ NoRun.pc = "idle" /\ LockMoves(w) /\ TypeOK
  BY Releasing DEF NoRun, RunRecord, DocumentStatus, IInv, Keep
<1>3. StoreInv'
  BY <1>1, <1>2, RunKeeps DEF Saving
<1>4. LeaveFits(run[w].leave) /\ holder = w
  BY <1>1 DEF StoreInv, LeavesWell, Saving
<1>5. Store!Saves(w)
  BY <1>1, <1>2, <1>4, Ending DEF Store!Saves
<1>6. /\ document'.status = run[w].leave
      /\ (record'.of # journal'.no) = (journal.no # 0)
  BY <1>1, <1>2 DEF Keep, TypeOK, DocumentRecord
<1>7. ASSUME NEW status, status = run[w].leave PROVE Store!KeepAside(status)
  BY <1>1, <1>6, <1>7 DEF Store!KeepAside
<1>8. CASE run[w].leave = "review_required" /\ ~Approved
  <2>1. (IF Store!Approved THEN "reprocess_review_required" ELSE "review_required") = run[w].leave
    BY <1>8 DEF Store!Approved, Approved
  <2>2. Store!SaveEvidence(w)
    BY <1>5, <1>7, <2>1 DEF Store!SaveEvidence
  <2> QED BY <1>3, <2>2 DEF StoreStep, Store!Next
<1>9. CASE \/ run[w].leave = "no_posting_required" /\ journal.no = 0
           \/ run[w].leave = "reprocess_review_required" /\ journal.no # 0
  <2>1. (IF journal.no = 0 THEN "no_posting_required" ELSE "reprocess_review_required") = run[w].leave
    BY <1>9
  <2>2. Store!SaveNoPosting(w)
    BY <1>5, <1>7, <2>1 DEF Store!SaveNoPosting
  <2> QED BY <1>3, <2>2 DEF StoreStep, Store!Next
<1> QED BY <1>4, <1>8, <1>9 DEF LeaveFits

LEMMA PostIsSave ==
  ASSUME IInv, StoreInv, NEW w \in Run, Post(w) PROVE StoreInv' /\ StoreStep
<1>1. /\ run[w].pc = "posting" /\ SetRun(w, NoRun) /\ UNCHANGED <<holder, call>>
      /\ Free("journal") /\ TypeOK /\ journal \in JournalRecord /\ journal.no \in Nat
  BY DEF Post, IInv, TypeOK, JournalRecord
<1>2. journal' = [no |-> journal.no + 1, status |-> "review_required", by |-> "worker",
                  basis |-> journal.no + 1, approved |-> journal.approved]
  BY <1>1 DEF Post, JournalRecord
<1>3. /\ document'.status = "review_required"
      /\ record'.of = journal'.no
  BY <1>2 DEF Post
<1>4. run'[w] = NoRun /\ (\A v \in Run \ {w} : run'[v] = run[v])
  BY <1>1 DEF SetRun, TypeOK
<1>5. \A v \in Run : run'[v].pc \notin Transacting
  BY <1>1, <1>4, Distinct DEF IInv, LockInv, NoRun, Transacting
<1>6. \A c \in Call : call'[c].pc # "writing"
  BY <1>1, Distinct DEF IInv, LockInv, Free
<1>7. StoreInv'
  <2>1. \A v \in Run : run'[v].pc \notin Saving /\ LeavesWell(v)'
    BY <1>5 DEF LeavesWell, Saving, Transacting
  <2>2. \A c \in Call : call'[c].pc # "idle" => call'[c].expected # 0
    BY <1>1 DEF StoreInv
  <2> QED BY <1>1, <1>2, <1>6, <2>1, <2>2 DEF StoreInv
<1>8. holder = w /\ ~Approved
  BY <1>1 DEF StoreInv, Saving, IInv, RunInv
<1>9. Store!Saves(w)
  BY <1>1, <1>8, Ending DEF Store!Saves
<1>10. Store!Revise("review_required", "worker", journal.no + 1, journal.approved)
  BY <1>1, <1>2, <1>3 DEF Store!Revise
<1>11. Store!SaveDraft(w)
  BY <1>8, <1>9, <1>10 DEF Store!SaveDraft, Store!Approved, Approved
<1> QED BY <1>7, <1>11 DEF StoreStep, Store!Next

LEMMA WriteRevises ==
  ASSUME IInv, StoreInv, NEW c \in Call, NEW new, NewRevision(c, new), Write(c, new)
  PROVE  /\ StoreInv'
         /\ journal.no # 0 /\ call[c].base \in Store!Content
         /\ Working' = Working /\ UNCHANGED holder
         /\ journal' = new /\ document'.status = new.status /\ record'.of = new.no
<1>1. /\ call[c].pc = "writing" /\ SetCall(c, NoCall) /\ UNCHANGED <<holder, run>>
      /\ Free("document") /\ TypeOK /\ journal.no \in Nat /\ call[c] \in CallRecord
      /\ journal' = new /\ document'.status = new.status /\ record'.of = new.no
      /\ new.no = journal.no + 1
  BY DEF Write, IInv, TypeOK, JournalRecord, NewRevision
<1>2. journal.no # 0 /\ call[c].base \in Store!Content
  BY <1>1 DEF IInv, CallInv, ReadFits, StoreInv, CallRecord, Store!Content
<1>3. call'[c] = NoCall /\ (\A d \in Call \ {c} : call'[d] = call[d])
  BY <1>1 DEF SetCall, TypeOK
<1>4. \A v \in Run : run'[v].pc \notin Saving /\ LeavesWell(v)'
  BY <1>1, Distinct DEF IInv, LockInv, Free, Saving, Transacting, LeavesWell
<1>5. \A d \in Call : call'[d].pc # "writing"
  BY <1>1, <1>3, Distinct DEF IInv, LockInv, NoCall
<1>6. \A d \in Call : call'[d].pc # "idle" => call'[d].expected # 0
  BY <1>3 DEF StoreInv, NoCall
<1>7. StoreInv'
  BY <1>1, <1>4, <1>5, <1>6 DEF StoreInv
<1> QED BY <1>1, <1>2, <1>7 DEF Working

LEMMA DecideIsReview ==
  ASSUME IInv, StoreInv, NEW c \in Call, NEW status \in {"approved", "rejected", "review_required"},
         Decide(c, status)
  PROVE  StoreInv' /\ StoreStep
<1>1. NewRevision(c, Decided(c, status)) /\ Write(c, Decided(c, status))
  BY DEF Decide, Decided, NewRevision, JournalRecord, CallRecord, Maker, Status, IInv, TypeOK
<1> DEFINE new == Decided(c, status)
<1>2. /\ StoreInv' /\ journal.no # 0 /\ call[c].base \in Store!Content
      /\ Working' = Working /\ UNCHANGED holder
      /\ journal' = new /\ document'.status = new.status /\ record'.of = new.no
  BY <1>1, WriteRevises
<1>3. new = [no |-> journal.no + 1, status |-> status, by |-> "review", basis |-> call[c].base,
             approved |-> journal.approved \/ status = "approved"]
  BY <1>2 DEF Decided
<1> HIDE DEF new
<1>4. Store!Revise(status, "review", call[c].base, journal.approved \/ status = "approved")
  BY <1>2, <1>3 DEF Store!Revise
<1>5. Store!Review(status)
  BY <1>2, <1>4 DEF Store!Review, Working
<1> QED BY <1>2, <1>5 DEF StoreStep, Store!Next

LEMMA ReopenIsReopen ==
  ASSUME IInv, StoreInv, NEW c \in Call, Reopen(c) PROVE StoreInv' /\ StoreStep
<1>1. NewRevision(c, Reopened) /\ Write(c, Reopened)
  BY DEF Reopen, Reopened, NewRevision, JournalRecord, Maker, Status, IInv, TypeOK
<1>2. /\ StoreInv' /\ Working' = Working /\ UNCHANGED holder
      /\ journal' = Reopened /\ document'.status = Reopened.status /\ record'.of = Reopened.no
  BY <1>1, WriteRevises
<1>3. journal.status = "approved"
  BY DEF Reopen, Write, StoreInv
<1>4. Store!Revise("working_draft", "reopen", journal.no, journal.approved)
  BY <1>2 DEF Store!Revise, Reopened
<1>5. Store!Reopen
  BY <1>2, <1>3, <1>4 DEF Store!Reopen, Working
<1> QED BY <1>2, <1>5 DEF StoreStep, Store!Next

-----------------------------------------------------------------------------
LEMMA StoreNext == IInv /\ StoreInv /\ [Next]_vars => StoreInv' /\ StoreStep
<1> SUFFICES ASSUME IInv, StoreInv, [Next]_vars PROVE StoreInv' /\ StoreStep
  OBVIOUS
<1>t. /\ TypeOK /\ NoCall \in CallRecord /\ NoCall.pc = "idle"
      /\ (\A w \in Run : run[w] \in RunRecord) /\ (\A c \in Call : call[c] \in CallRecord)
  BY DEF IInv, TypeOK, NoCall, CallRecord
<1>1. ASSUME NEW w \in Run, RunStep(w) PROVE StoreInv' /\ StoreStep
  <2>1. CASE LockDocument(w)
    <3>1. Locked(w) \in RunRecord /\ Locked(w).pc = "locked"
      BY <1>t DEF Locked, RunRecord, TypeOK, DocumentRecord
    <3>2. LockMoves(w) /\ run[w].pc # "idle"
      BY <2>1, <1>t, Locking DEF LockDocument, Row
    <3> QED
      BY <2>1, <3>1, <3>2, RunGoesOn DEF LockDocument, Data, Saving
  <2>2. CASE CheckFence(w)
    <3>1. CASE holder = w
      <4> DEFINE to == [run[w] EXCEPT !.pc = "fenced"]
      <4>1. to \in RunRecord /\ to.pc = "fenced"
        BY <1>t DEF RunRecord
      <4>2. LockMoves(w) /\ lock'["job"] = w /\ run[w].pc # "idle"
        BY <2>2, <3>1, <1>t, Locking DEF CheckFence, Row
      <4>3. SetRun(w, to) /\ UNCHANGED <<Data, holder, call>>
        BY <2>2, <3>1 DEF CheckFence, Data
      <4> HIDE DEF to
      <4> QED
        BY <3>1, <4>1, <4>2, <4>3, RunGoesOn
    <3>2. CASE holder # w
      BY <2>2, <3>2, RunGivesUp DEF CheckFence, Data
    <3> QED BY <3>1, <3>2
  <2>3. ASSUME NEW result \in Result, ReadJournal(w, result) PROVE StoreInv' /\ StoreStep
    <3>1. /\ run[w].pc = "fenced" /\ UNCHANGED <<Data, holder, call, lock>> /\ LockMoves(w)
          /\ lock'["job"] = w /\ holder = w
      BY <2>3, <1>t, Keeping DEF ReadJournal, Data, StoreInv, Saving
    <3>2. ASSUME NEW status \in DocumentStatus, LeaveFits(status), SetRun(w, Leaving(w, status))
          PROVE  StoreInv' /\ StoreStep
      <4>1. /\ Leaving(w, status) \in RunRecord
            /\ Leaving(w, status).pc = "keeping" /\ Leaving(w, status).leave = status
        BY <1>t DEF Leaving, RunRecord
      <4> QED
        BY <3>1, <3>2, <4>1, RunGoesOn
    <3>3. ASSUME SetRun(w, [run[w] EXCEPT !.pc = "posting"]) PROVE StoreInv' /\ StoreStep
      <4> DEFINE to == [run[w] EXCEPT !.pc = "posting"]
      <4>1. to \in RunRecord /\ to.pc = "posting"
        BY <1>t DEF RunRecord
      <4>2. SetRun(w, to)
        BY <3>3
      <4> HIDE DEF to
      <4> QED
        BY <3>1, <4>1, <4>2, RunGoesOn
    <3>4. Approved => journal.no # 0
      BY DEF StoreInv, Approved
    <3>5. \/ \E status \in DocumentStatus : LeaveFits(status) /\ SetRun(w, Leaving(w, status))
          \/ SetRun(w, [run[w] EXCEPT !.pc = "posting"])
      BY <2>3, <3>4 DEF ReadJournal, Result, DocumentStatus, Status, LeaveFits
    <3> QED BY <3>2, <3>3, <3>5
  <2> QED BY <1>1, <2>1, <2>2, <2>3, KeepIsSave, PostIsSave DEF RunStep
<1>2. ASSUME NEW c \in Call, CallStep(c) PROVE StoreInv' /\ StoreStep
  <2>1. CASE ReadRecord(c)
    <3> DEFINE to == [call[c] EXCEPT !.pc = "read", !.base = record.of]
    <3>1. to \in CallRecord /\ to.pc = "read" /\ to.expected = call[c].expected
      BY <1>t DEF CallRecord, TypeOK, RecordRecord
    <3>2. SetCall(c, to) /\ LockMoves(c) /\ UNCHANGED <<Data, run, holder>>
          /\ call[c].expected # 0
      BY <2>1, <1>t, Keeping DEF ReadRecord, Data, StoreInv
    <3> HIDE DEF to
    <3> QED BY <3>1, <3>2, CallGoesOn
  <2>2. CASE LockJournal(c)
    <3>1. CASE UNCHANGED lock /\ SetCall(c, NoCall)
      BY <2>2, <3>1, <1>t, Keeping, CallGoesOn DEF LockJournal, Data
    <3>2. CASE /\ Lock("journal", c) /\ SetCall(c, [call[c] EXCEPT !.pc = "writing"])
               /\ call[c].kind = "reopen" => journal.status = "approved"
      <4> DEFINE to == [call[c] EXCEPT !.pc = "writing"]
      <4>1. /\ to \in CallRecord /\ to.pc = "writing"
            /\ to.expected = call[c].expected /\ to.kind = call[c].kind
        BY <1>t DEF CallRecord
      <4>2. LockMoves(c) /\ SetCall(c, to) /\ UNCHANGED <<Data, run, holder>>
            /\ call[c].expected # 0
        BY <2>2, <3>2, <1>t, Locking DEF LockJournal, Data, Row, StoreInv
      <4> HIDE DEF to
      <4> QED BY <3>2, <4>1, <4>2, CallGoesOn
    <3> QED BY <2>2, <3>1, <3>2 DEF LockJournal
  <2> QED BY <1>2, <2>1, <2>2, DecideIsReview, ReopenIsReopen DEF CallStep
<1>3. ASSUME NEW w \in Run, run[w].pc # "idle", Release(w), SetRun(w, NoRun),
             UNCHANGED <<Data, holder, call>>
      PROVE  StoreInv' /\ StoreStep
  BY <1>3, RunGivesUp
<1>4. ASSUME NEW c \in Call, Release(c), SetCall(c, NoCall), UNCHANGED <<Data, run, holder>>
      PROVE  StoreInv' /\ StoreStep
  BY <1>4, <1>t, Releasing, CallGoesOn
<1>5. ASSUME NEW c \in Call, NEW kind \in {"review", "reopen"}, Ask(c, kind)
      PROVE  StoreInv' /\ StoreStep
  <2> DEFINE to == [NoCall EXCEPT !.pc = "asked", !.kind = kind, !.expected = journal.no]
  <2>1. journal.no \in Nat
    BY <1>t DEF TypeOK, JournalRecord
  <2>2. to \in CallRecord /\ to.pc = "asked" /\ to.expected = journal.no
    BY <2>1 DEF NoCall, CallRecord
  <2>3. SetCall(c, to) /\ LockMoves(c) /\ UNCHANGED <<Data, run, holder>> /\ journal.no # 0
    BY <1>5, <1>t, <2>1, Keeping, RevisionsAssumption DEF Ask, Data
  <2> HIDE DEF to
  <2> QED BY <2>2, <2>3, CallGoesOn
<1>6. CASE UNCHANGED vars
  <2>1. Working' = Working /\ UNCHANGED <<Data, holder>>
    BY <1>6 DEF vars, Working, Data
  <2> QED
    BY <1>6, <2>1, Unseen DEF vars, StoreInv, LeavesWell, LeaveFits, Approved
<1>7. CASE Next
  <2>1. CASE \E w \in Run : Start(w) \/ RunStep(w) \/ LoseRun(w)
    BY <2>1, <1>1, <1>3, StartTakes DEF LoseRun, Data
  <2>2. CASE \E c \in Call : CallStep(c) \/ LoseCall(c) \/ \E kind \in {"review", "reopen"} : Ask(c, kind)
    BY <2>2, <1>2, <1>4, <1>5 DEF LoseCall, Data
  <2>3. CASE \E w \in Run, c \in Call : BreakDeadlock(w, c)
    BY <2>3, <1>3, <1>4 DEF BreakDeadlock, Deadlocked, Data
  <2> QED BY <1>7, <2>1, <2>2, <2>3 DEF Next
<1> QED BY <1>6, <1>7

\* The locked transactions are the store's atomic steps: every save and every
\* decision takes effect at its commit, on the journal of that instant, and only the
\* run that took the job last saves.
THEOREM JournalImplementsStore == Spec => ImplementsStore
<1>1. Init => Store!Init
  BY DEF Init, Store!Init, NoRun
<1>2. IInv /\ StoreInv /\ [Next]_vars => StoreInv' /\ [Store!Next]_(Store!vars)
  BY StoreNext DEF StoreStep
<1> QED
  BY <1>1, <1>2, StoreInit, Invariance, PTL DEF Spec, ImplementsStore, Store!Spec
=============================================================================
