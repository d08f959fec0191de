---------------------------- MODULE QnbSync_proofs ----------------------------
(***************************************************************************)
(* Proofs about QnbSync for any set of workers, any sizes of pages and     *)
(* runs and any numbers of invoices, requests, saves and faults.           *)
(***************************************************************************)
EXTENDS QnbSync, TLAPS

\* What a run knows and has done, when the provider lists known invoices and those of
\* done are stored: the cursor it goes from is safe, its page is listed, and unless an
\* invoice failed everything before the next one is stored.
RunOK(rec, known, done) ==
  /\ rec.cursor <= known
  /\ \A i \in 1 .. rec.cursor : i \in done
  /\ rec.last <= known
  /\ 1 <= rec.next
  /\ rec.pc \in {"page", "fetch"} /\ ~rec.failed => \A i \in 1 .. (rec.next - 1) : i \in done
  /\ rec.pc = "fetch" => rec.next <= rec.last /\ rec.downloaded < MaxDocuments
  /\ rec.pc \in {"start", "list"} => rec.pages < MaxPages

RunsInv == \A w \in Syncer : RunOK(sync[w], listed, stored)

CursorInv == cursor <= listed /\ NothingSkipped

\* The schedule is held by a run that is under way and was claimed after the last save.
HolderInv ==
  \A w \in Syncer :
    policy.holder = w => Scheduled(w) /\ ~sync[w].lost /\ sync[w].saves = policy.saves

\* A request is held by the run that works on it, and by none once it is answered.
AnswerInv ==
  \A r \in Requests :
    /\ \A w \in Syncer : request[r].holder = w => sync[w].pc # "idle" /\ sync[w].request = r
    /\ request[r].status \in Finished => request[r].holder = NoOne /\ ~request[r].live

SInv == SyncTypeOK /\ CursorInv /\ RunsInv /\ HolderInv /\ AnswerInv

-----------------------------------------------------------------------------
LEMMA Bounds ==
  /\ 0 \in 0 .. MaxRequests /\ 0 \in 0 .. LastInvoice /\ 0 \in 0 .. MaxDocuments
  /\ 0 \in 0 .. MaxPages /\ 0 \in 0 .. MaxSaves /\ 0 \in 0 .. MaxFaults
  /\ Requests \subseteq 0 .. MaxRequests /\ 0 \notin Requests
  /\ NoOne \in Holder /\ Gone \in Holder /\ NoOne \notin Syncer /\ Gone \notin Syncer
BY SyncAssumption DEF Requests, Holder

LEMMA NoRunOK ==
  /\ NoSync \in SyncRecord /\ NoSync.pc = "idle" /\ NoSync.request = 0 /\ NoSync.cursor = 0
  /\ \A known \in Nat : \A done : RunOK(NoSync, known, done)
<1>1. NoSync \in SyncRecord
  BY Bounds DEF NoSync, SyncRecord, SyncStep
<1>2. /\ NoSync.pc = "idle" /\ NoSync.request = 0 /\ NoSync.cursor = 0 /\ NoSync.last = 0
      /\ NoSync.next = 1
  BY DEF NoSync
<1>3. \A known \in Nat : \A done : RunOK(NoSync, known, done)
  <2> TAKE known \in Nat
  <2> TAKE done
  <2> QED
    BY <1>2 DEF RunOK
<1> QED
  BY <1>1, <1>2, <1>3

LEMMA InitSafe == SyncInit => SInv
<1> SUFFICES ASSUME SyncInit PROVE SInv
  OBVIOUS
<1>1. listed = 0 /\ cursor = 0 /\ stored = {} /\ poison \in Poisons
  BY DEF SyncInit
<1>2. policy \in PolicyRecord /\ policy.holder = NoOne
  BY Bounds DEF SyncInit, PolicyRecord
<1>3. NoRequest \in RequestRecord /\ NoRequest.holder = NoOne /\ NoRequest.status = "none"
  BY Bounds DEF NoRequest, RequestRecord
<1>4. request \in [Requests -> RequestRecord] /\ \A r \in Requests : request[r] = NoRequest
  BY <1>3 DEF SyncInit
<1>5. sync \in [Syncer -> SyncRecord] /\ \A w \in Syncer : sync[w] = NoSync
  BY NoRunOK DEF SyncInit
<1>6. SyncTypeOK
  BY <1>1, <1>2, <1>4, <1>5, Bounds, SyncAssumption DEF SyncInit, SyncTypeOK, Invoice
<1>7. CursorInv
  BY <1>1 DEF CursorInv, NothingSkipped
<1>8. RunsInv
  BY <1>1, <1>5, NoRunOK DEF RunsInv
<1>9. HolderInv
  BY <1>2, Bounds DEF HolderInv
<1>10. AnswerInv
  BY <1>3, <1>4, Bounds DEF AnswerInv, Finished
<1> QED
  BY <1>6, <1>7, <1>8, <1>9, <1>10 DEF SInv

-----------------------------------------------------------------------------
\* A run stays right when more is listed and more is stored.
LEMMA RunGrows ==
  ASSUME NEW rec \in SyncRecord, NEW known \in Nat, NEW more \in Nat, known <= more,
         NEW done, NEW grown, done \subseteq grown, RunOK(rec, known, done)
  PROVE  RunOK(rec, more, grown)
<1>1. rec.cursor \in Nat /\ rec.last \in Nat
  BY SyncAssumption DEF SyncRecord
<1> QED
  BY <1>1 DEF RunOK

\* A step of one run.
LEMMA RunMoves ==
  ASSUME SInv, NEW w \in Syncer, NEW to \in SyncRecord, SetSync(w, to),
         UNCHANGED <<listed, poison>>,
         stored \subseteq stored', stored' \subseteq Invoice,
         cursor' \in 0 .. LastInvoice, CursorInv',
         policy' \in PolicyRecord, request' \in [Requests -> RequestRecord],
         faults' \in 0 .. MaxFaults,
         RunOK(to, listed, stored'), HolderInv', AnswerInv'
  PROVE  SInv'
<1>1. sync' = [sync EXCEPT ![w] = to] /\ sync'[w] = to /\ (\A u \in Syncer \ {w} : sync'[u] = sync[u])
  BY DEF SInv, SyncTypeOK, SetSync
<1>2. SyncTypeOK'
  BY <1>1 DEF SInv, SyncTypeOK
<1>3. RunsInv'
  <2>1. listed \in Nat
    BY SyncAssumption DEF SInv, SyncTypeOK
  <2>2. \A u \in Syncer : sync[u] \in SyncRecord /\ RunOK(sync[u], listed, stored)
    BY DEF SInv, SyncTypeOK, RunsInv
  <2>3. \A u \in Syncer : RunOK(sync[u], listed, stored')
    BY <2>1, <2>2, RunGrows
  <2> QED
    BY <1>1, <2>3 DEF RunsInv
<1> QED
  BY <1>2, <1>3 DEF SInv

\* A step of one run that leaves the leases alone and goes on with what it has claimed.
LEMMA RunGoesOn ==
  ASSUME SInv, NEW w \in Syncer, NEW to \in SyncRecord, SetSync(w, to),
         UNCHANGED <<listed, poison, policy, request>>,
         stored \subseteq stored', stored' \subseteq Invoice,
         cursor' \in 0 .. LastInvoice, CursorInv',
         faults' \in 0 .. MaxFaults,
         RunOK(to, listed, stored'),
         to.pc # "idle", to.request = sync[w].request,
         to.lost = sync[w].lost, to.saves = sync[w].saves
  PROVE  SInv'
<1>1. sync'[w] = to /\ (\A u \in Syncer \ {w} : sync'[u] = sync[u])
  BY DEF SInv, SyncTypeOK, SetSync
<1>2. HolderInv'
  BY <1>1 DEF SInv, HolderInv, Scheduled
<1>3. AnswerInv'
  BY <1>1 DEF SInv, AnswerInv
<1>4. policy' \in PolicyRecord /\ request' \in [Requests -> RequestRecord]
  BY DEF SInv, SyncTypeOK
<1> QED
  BY <1>2, <1>3, <1>4, RunMoves

\* What the end of a listing leaves of its run.
LEMMA EndingOK ==
  ASSUME SInv, NEW w \in Syncer, NEW raised \in BOOLEAN
  PROVE  /\ Ending(w, raised) \in SyncRecord
         /\ Ending(w, raised).pc = "ending"
         /\ Ending(w, raised).request = sync[w].request
         /\ Ending(w, raised).lost = sync[w].lost
         /\ Ending(w, raised).saves = sync[w].saves
         /\ \A done : RunOK(Ending(w, raised), listed, done)
<1> DEFINE to == Ending(w, raised)
<1>1. sync[w] \in SyncRecord /\ listed \in Nat
  BY SyncAssumption DEF SInv, SyncTypeOK
<1>2. /\ to \in SyncRecord /\ to.pc = "ending" /\ to.request = sync[w].request
      /\ to.lost = sync[w].lost /\ to.saves = sync[w].saves
      /\ to.cursor = 0 /\ to.last = 0 /\ to.next = 1
  BY <1>1, Bounds DEF Ending, NoSync, SyncRecord, SyncStep
<1> HIDE DEF to
<1>3. \A done : RunOK(to, listed, done)
  <2> TAKE done
  <2> QED
    BY <1>1, <1>2 DEF RunOK
<1> QED
  BY <1>2, <1>3 DEF to

-----------------------------------------------------------------------------
(* The environment.                                                        *)

LEMMA ArriveSafe == SInv /\ Arrive => SInv'
<1> SUFFICES ASSUME SInv, Arrive PROVE SInv'
  OBVIOUS
<1>1. listed \in Nat /\ listed' = listed + 1 /\ listed' \in 0 .. LastInvoice /\ cursor \in Nat
  BY SyncAssumption DEF Arrive, SInv, SyncTypeOK
<1>2. SyncTypeOK' /\ HolderInv' /\ AnswerInv'
  BY <1>1 DEF Arrive, SInv, SyncTypeOK, HolderInv, AnswerInv, Scheduled
<1>3. CursorInv'
  BY <1>1 DEF Arrive, SInv, CursorInv, NothingSkipped
<1>4. RunsInv'
  <2>1. listed <= listed' /\ listed' \in Nat
    BY <1>1
  <2>2. \A w \in Syncer : sync[w] \in SyncRecord /\ RunOK(sync[w], listed, stored)
    BY DEF SInv, SyncTypeOK, RunsInv
  <2>3. \A w \in Syncer : RunOK(sync[w], listed', stored)
    BY <1>1, <2>1, <2>2, RunGrows
  <2> QED
    BY <2>3 DEF Arrive, RunsInv
<1> QED
  BY <1>2, <1>3, <1>4 DEF SInv

\* Steps that change nothing but the schedule or a request.
LEMMA RowChanges ==
  ASSUME SInv, UNCHANGED <<listed, poison, stored, cursor, sync, faults>>,
         policy' \in PolicyRecord, request' \in [Requests -> RequestRecord],
         HolderInv', AnswerInv'
  PROVE  SInv'
BY DEF SInv, SyncTypeOK, CursorInv, NothingSkipped, RunsInv

LEMMA PolicyChanges ==
  ASSUME SInv, UNCHANGED <<listed, poison, stored, cursor, request, sync, faults>>,
         policy' \in PolicyRecord, HolderInv'
  PROVE  SInv'
<1>1. request' \in [Requests -> RequestRecord] /\ AnswerInv'
  BY DEF SInv, SyncTypeOK, AnswerInv
<1> QED
  BY <1>1, RowChanges

LEMMA NextRunComesSafe == SInv /\ NextRunComes => SInv'
<1> SUFFICES ASSUME SInv, NextRunComes PROVE SInv'
  OBVIOUS
<1>1. policy' \in PolicyRecord /\ policy'.holder = policy.holder /\ policy'.saves = policy.saves
  BY DEF NextRunComes, SInv, SyncTypeOK, PolicyRecord
<1>2. HolderInv'
  BY <1>1 DEF NextRunComes, SInv, HolderInv, Scheduled
<1> QED
  BY <1>1, <1>2, PolicyChanges DEF NextRunComes

LEMMA PolicyLeaseExpiresSafe == SInv /\ PolicyLeaseExpires => SInv'
<1> SUFFICES ASSUME SInv, PolicyLeaseExpires PROVE SInv'
  OBVIOUS
<1>1. policy' \in PolicyRecord /\ policy'.holder = policy.holder /\ policy'.saves = policy.saves
  BY DEF PolicyLeaseExpires, SInv, SyncTypeOK, PolicyRecord
<1>2. HolderInv'
  BY <1>1 DEF PolicyLeaseExpires, SInv, HolderInv, Scheduled
<1> QED
  BY <1>1, <1>2, PolicyChanges DEF PolicyLeaseExpires

LEMMA SavePolicySafe ==
  ASSUME SInv, NEW enabled \in BOOLEAN, SavePolicy(enabled)
  PROVE  SInv'
<1>1. policy.saves + 1 \in 0 .. MaxSaves
  BY SyncAssumption DEF SavePolicy, SInv, SyncTypeOK, PolicyRecord
<1>2. policy' \in PolicyRecord /\ policy'.holder = NoOne
  BY <1>1, Bounds DEF SavePolicy, SavedPolicy, PolicyRecord
<1>3. HolderInv'
  BY <1>2, Bounds DEF HolderInv
<1> QED
  BY <1>2, <1>3, PolicyChanges DEF SavePolicy

LEMMA RequestLeaseExpiresSafe ==
  ASSUME SInv, NEW r \in Requests, RequestLeaseExpires(r)
  PROVE  SInv'
<1>1. request' \in [Requests -> RequestRecord]
  BY DEF RequestLeaseExpires, SInv, SyncTypeOK, RequestRecord
<1>2. \A q \in Requests : /\ request'[q].holder = request[q].holder
                          /\ request'[q].status = request[q].status
                          /\ ~request[q].live => ~request'[q].live
  BY DEF RequestLeaseExpires, SInv, SyncTypeOK, RequestRecord
<1>3. policy' \in PolicyRecord /\ HolderInv'
  BY DEF RequestLeaseExpires, SInv, SyncTypeOK, HolderInv, Scheduled
<1>4. AnswerInv'
  BY <1>2 DEF RequestLeaseExpires, SInv, AnswerInv
<1> QED
  BY <1>1, <1>3, <1>4, RowChanges DEF RequestLeaseExpires

LEMMA EnqueueRequestSafe ==
  ASSUME SInv, NEW r \in Requests, NEW backfill \in BOOLEAN, EnqueueRequest(r, backfill)
  PROVE  SInv'
<1> DEFINE to == [NoRequest EXCEPT !.status = "queued", !.backfill = backfill]
<1>1. to \in RequestRecord /\ to.holder = NoOne /\ to.status = "queued"
  BY Bounds DEF NoRequest, RequestRecord
<1>2. request' = [request EXCEPT ![r] = to]
  BY DEF EnqueueRequest
<1> HIDE DEF to
<1>3. request' \in [Requests -> RequestRecord]
  BY <1>1, <1>2 DEF SInv, SyncTypeOK
<1>4. request'[r] = to /\ (\A q \in Requests \ {r} : request'[q] = request[q])
  BY <1>2 DEF SInv, SyncTypeOK
<1>5. policy' \in PolicyRecord /\ HolderInv'
  BY DEF EnqueueRequest, SInv, SyncTypeOK, HolderInv, Scheduled
<1>6. AnswerInv'
  <2>1. UNCHANGED sync /\ to.status \notin Finished
    BY <1>1 DEF EnqueueRequest, Finished
  <2>2. \A w \in Syncer : to.holder # w
    BY <1>1, Bounds
  <2> QED
    BY <1>4, <2>1, <2>2 DEF SInv, AnswerInv
<1> QED
  BY <1>3, <1>5, <1>6, RowChanges DEF EnqueueRequest

-----------------------------------------------------------------------------
(* Claims and leases.                                                      *)

LEMMA ClaimRequestSafe ==
  ASSUME SInv, NEW w \in Syncer, NEW r \in Requests, ClaimRequest(w, r)
  PROVE  SInv'
<1> DEFINE to  == [NoSync EXCEPT !.pc = "start", !.request = r, !.backfill = request[r].backfill]
           row == [request[r] EXCEPT !.status = "processing", !.holder = w, !.live = TRUE]
<1>1. request[r] \in RequestRecord /\ listed \in Nat
  BY SyncAssumption DEF SInv, SyncTypeOK
<1>2. /\ to \in SyncRecord /\ to.pc = "start" /\ to.request = r /\ to.cursor = 0 /\ to.last = 0
      /\ to.next = 1 /\ to.pages = 0
  BY <1>1, Bounds DEF NoSync, SyncRecord, SyncStep, RequestRecord
<1>3. row \in RequestRecord /\ row.holder = w /\ row.status = "processing"
  BY <1>1 DEF RequestRecord, Holder
<1>4. request' = [request EXCEPT ![r] = row] /\ SetSync(w, to) /\ sync[w].pc = "idle"
  BY DEF ClaimRequest
<1> HIDE DEF to, row
<1>5. sync'[w] = to /\ (\A u \in Syncer \ {w} : sync'[u] = sync[u])
  BY <1>4 DEF SInv, SyncTypeOK, SetSync
<1>6. request' \in [Requests -> RequestRecord]
  BY <1>3, <1>4 DEF SInv, SyncTypeOK
<1>7. request'[r] = row /\ (\A q \in Requests \ {r} : request'[q] = request[q])
  BY <1>4 DEF SInv, SyncTypeOK
<1>8. HolderInv'
  BY <1>4, <1>5 DEF ClaimRequest, SInv, HolderInv, Scheduled
<1>9. AnswerInv'
  BY <1>2, <1>3, <1>4, <1>5, <1>7 DEF SInv, AnswerInv, Finished
<1>10. RunOK(to, listed, stored')
  BY <1>1, <1>2, SyncAssumption DEF RunOK
<1>11. CursorInv' /\ policy' \in PolicyRecord
  BY DEF ClaimRequest, SInv, SyncTypeOK, CursorInv, NothingSkipped
<1> QED
  BY <1>2, <1>4, <1>6, <1>8, <1>9, <1>10, <1>11, RunMoves DEF ClaimRequest, SInv, SyncTypeOK

LEMMA ClaimPolicySafe ==
  ASSUME SInv, NEW w \in Syncer, ClaimPolicy(w)
  PROVE  SInv'
<1> DEFINE to == [NoSync EXCEPT !.pc = "start", !.saves = policy.saves]
<1>1. policy \in PolicyRecord /\ listed \in Nat
  BY SyncAssumption DEF SInv, SyncTypeOK
<1>2. /\ to \in SyncRecord /\ to.pc = "start" /\ to.request = 0 /\ to.cursor = 0 /\ to.last = 0
      /\ to.next = 1 /\ to.pages = 0 /\ to.saves = policy.saves /\ to.lost = FALSE
  BY <1>1, Bounds DEF NoSync, SyncRecord, SyncStep, PolicyRecord
<1>3. policy' \in PolicyRecord /\ policy'.holder = w /\ policy'.saves = policy.saves
  BY <1>1 DEF ClaimPolicy, PolicyRecord, Holder
<1>4. SetSync(w, to) /\ sync[w].pc = "idle"
  BY DEF ClaimPolicy
<1> HIDE DEF to
<1>5. sync'[w] = to /\ (\A u \in Syncer \ {w} : sync'[u] = sync[u])
  BY <1>4 DEF SInv, SyncTypeOK, SetSync
<1>6. HolderInv'
  BY <1>2, <1>3, <1>5 DEF HolderInv, Scheduled
<1>7. AnswerInv'
  BY <1>4, <1>5 DEF ClaimPolicy, SInv, AnswerInv
<1>8. RunOK(to, listed, stored')
  BY <1>1, <1>2, SyncAssumption DEF RunOK
<1>9. CursorInv'
  BY DEF ClaimPolicy, SInv, CursorInv, NothingSkipped
<1> QED
  BY <1>2, <1>3, <1>4, <1>6, <1>7, <1>8, <1>9, RunMoves DEF ClaimPolicy, SInv, SyncTypeOK

LEMMA RenewLeaseSafe ==
  ASSUME SInv, NEW w \in Syncer, RenewLease(w)
  PROVE  SInv'
<1>1. CASE Owns(w)
  <2>1. policy' \in PolicyRecord /\ policy'.holder = policy.holder /\ policy'.saves = policy.saves
    BY <1>1 DEF RenewLease, SInv, SyncTypeOK, PolicyRecord
  <2>2. UNCHANGED <<listed, poison, stored, cursor, request, sync, faults>>
    BY <1>1 DEF RenewLease
  <2>3. HolderInv'
    BY <2>1, <2>2 DEF SInv, HolderInv, Scheduled
  <2> QED
    BY <2>1, <2>2, <2>3, PolicyChanges
<1>2. CASE ~Owns(w)
  <2> DEFINE to == [sync[w] EXCEPT !.lost = TRUE]
  <2>1. sync[w] \in SyncRecord /\ RunOK(sync[w], listed, stored)
    BY DEF SInv, SyncTypeOK, RunsInv
  <2>2. /\ to \in SyncRecord /\ to.pc = sync[w].pc /\ to.request = sync[w].request
        /\ to.saves = sync[w].saves /\ to.cursor = sync[w].cursor /\ to.last = sync[w].last
        /\ to.next = sync[w].next /\ to.failed = sync[w].failed /\ to.downloaded = sync[w].downloaded
        /\ to.pages = sync[w].pages
    BY <2>1 DEF SyncRecord
  <2>3. SetSync(w, to) /\ UNCHANGED <<listed, poison, stored, cursor, policy, request, faults>>
    BY <1>2 DEF RenewLease
  <2> HIDE DEF to
  <2>4. sync'[w] = to /\ (\A u \in Syncer \ {w} : sync'[u] = sync[u])
    BY <2>3 DEF SInv, SyncTypeOK, SetSync
  <2>5. HolderInv'
    BY <1>2, <2>3, <2>4 DEF Owns, SInv, HolderInv, Scheduled
  <2>6. AnswerInv'
    BY <2>2, <2>3, <2>4 DEF SInv, AnswerInv
  <2>7. RunOK(to, listed, stored')
    BY <2>1, <2>2, <2>3 DEF RunOK
  <2>8. CursorInv'
    BY <2>3 DEF SInv, CursorInv, NothingSkipped
  <2> QED
    BY <2>2, <2>3, <2>5, <2>6, <2>7, <2>8, RunMoves DEF SInv, SyncTypeOK
<1> QED
  BY <1>1, <1>2

-----------------------------------------------------------------------------
(* One synchronisation.                                                    *)

LEMMA ReadCursorSafe ==
  ASSUME SInv, NEW w \in Syncer, ReadCursor(w)
  PROVE  SInv'
<1> DEFINE from == IF sync[w].backfill THEN 0 ELSE cursor
           to == [sync[w] EXCEPT !.pc = "list", !.cursor = from]
<1>1. sync[w] \in SyncRecord /\ RunOK(sync[w], listed, stored) /\ listed \in Nat
  BY SyncAssumption DEF SInv, SyncTypeOK, RunsInv
<1>2. from \in 0 .. LastInvoice /\ from <= listed /\ \A i \in 1 .. from : i \in stored
  BY <1>1, Bounds DEF SInv, SyncTypeOK, CursorInv, NothingSkipped
<1>3. SetSync(w, to) /\ sync[w].pc = "start"
  BY DEF ReadCursor
<1> HIDE DEF from
<1>4. /\ to \in SyncRecord /\ to.pc = "list" /\ to.request = sync[w].request
      /\ to.lost = sync[w].lost /\ to.saves = sync[w].saves /\ to.cursor = from
      /\ to.last = sync[w].last /\ to.next = sync[w].next /\ to.pages = sync[w].pages
  BY <1>1, <1>2 DEF SyncRecord, SyncStep
<1> HIDE DEF to
<1>5. RunOK(to, listed, stored)
  BY <1>1, <1>2, <1>3, <1>4 DEF RunOK
<1> QED
  BY <1>3, <1>4, <1>5, RunGoesOn DEF ReadCursor, SInv, SyncTypeOK, CursorInv, NothingSkipped

LEMMA ListPageSafe ==
  ASSUME SInv, NEW w \in Syncer, ListPage(w)
  PROVE  SInv'
<1> DEFINE first == sync[w].cursor + 1
           last  == IF listed < sync[w].cursor + PageSize THEN listed ELSE sync[w].cursor + PageSize
           to == [sync[w] EXCEPT !.pc = "page", !.pages = @ + 1, !.failed = FALSE,
                                !.next = first, !.last = last]
<1>1. sync[w] \in SyncRecord /\ RunOK(sync[w], listed, stored) /\ listed \in Nat
  BY SyncAssumption DEF SInv, SyncTypeOK, RunsInv
<1>2. sync[w].cursor \in Nat /\ first \in Nat /\ last \in Nat /\ last <= listed
      /\ first - 1 = sync[w].cursor /\ 1 <= first
  BY <1>1, SyncAssumption DEF SyncRecord
<1>3. SetSync(w, to) /\ sync[w].pc = "list"
  BY DEF ListPage
<1>4. sync[w].pages + 1 \in 0 .. MaxPages
  BY <1>1, <1>3, SyncAssumption DEF RunOK, SyncRecord
<1> HIDE DEF first, last
<1>5. /\ to \in SyncRecord /\ to.pc = "page" /\ to.request = sync[w].request
      /\ to.lost = sync[w].lost /\ to.saves = sync[w].saves /\ to.cursor = sync[w].cursor
      /\ to.last = last /\ to.next = first
  BY <1>1, <1>2, <1>4 DEF SyncRecord, SyncStep
<1> HIDE DEF to
<1>6. RunOK(to, listed, stored)
  BY <1>1, <1>2, <1>5 DEF RunOK
<1> QED
  BY <1>3, <1>5, <1>6, RunGoesOn DEF ListPage, SInv, SyncTypeOK, CursorInv, NothingSkipped

LEMMA LookAtInvoiceSafe ==
  ASSUME SInv, NEW w \in Syncer, LookAtInvoice(w)
  PROVE  SInv'
<1>1. sync[w] \in SyncRecord /\ RunOK(sync[w], listed, stored) /\ sync[w].pc = "page"
      /\ sync[w].next <= sync[w].last /\ listed \in Nat
  BY SyncAssumption DEF LookAtInvoice, SInv, SyncTypeOK, RunsInv
<1>2. /\ UNCHANGED <<listed, poison, stored, cursor, policy, request, faults>>
      /\ stored \subseteq Invoice /\ cursor' \in 0 .. LastInvoice /\ CursorInv'
      /\ faults' \in 0 .. MaxFaults
  BY DEF LookAtInvoice, SInv, SyncTypeOK, CursorInv, NothingSkipped
<1>3. CASE sync[w].downloaded >= MaxDocuments
  <2>1. SetSync(w, Ending(w, FALSE))
    BY <1>3 DEF LookAtInvoice
  <2> QED
    BY <1>2, <2>1, EndingOK, RunGoesOn
<1>4. CASE ~(sync[w].downloaded >= MaxDocuments) /\ sync[w].next \in stored
  <2> DEFINE to == [sync[w] EXCEPT !.next = @ + 1]
  <2>1. SetSync(w, to)
    BY <1>4 DEF LookAtInvoice
  <2>2. /\ to \in SyncRecord /\ to.pc = "page" /\ to.request = sync[w].request
        /\ to.lost = sync[w].lost /\ to.saves = sync[w].saves /\ to.cursor = sync[w].cursor
        /\ to.last = sync[w].last /\ to.next = sync[w].next + 1 /\ to.failed = sync[w].failed
        /\ sync[w].next \in Nat
    BY <1>1 DEF SyncRecord
  <2> HIDE DEF to
  <2>3. RunOK(to, listed, stored)
    BY <1>1, <1>4, <2>2 DEF RunOK
  <2> QED
    BY <1>2, <2>1, <2>2, <2>3, RunGoesOn
<1>5. CASE ~(sync[w].downloaded >= MaxDocuments) /\ sync[w].next \notin stored
  <2> DEFINE to == [sync[w] EXCEPT !.pc = "fetch"]
  <2>1. SetSync(w, to)
    BY <1>5 DEF LookAtInvoice
  <2>2. /\ to \in SyncRecord /\ to.pc = "fetch" /\ to.request = sync[w].request
        /\ to.lost = sync[w].lost /\ to.saves = sync[w].saves /\ to.cursor = sync[w].cursor
        /\ to.last = sync[w].last /\ to.next = sync[w].next /\ to.failed = sync[w].failed
        /\ to.downloaded = sync[w].downloaded
    BY <1>1 DEF SyncRecord, SyncStep
  <2>3. sync[w].downloaded < MaxDocuments
    BY <1>1, <1>5, SyncAssumption DEF SyncRecord
  <2> HIDE DEF to
  <2>4. RunOK(to, listed, stored)
    BY <1>1, <2>2, <2>3 DEF RunOK
  <2> QED
    BY <1>2, <2>1, <2>2, <2>4, RunGoesOn
<1> QED
  BY <1>3, <1>4, <1>5

LEMMA StoreInvoiceSafe ==
  ASSUME SInv, NEW w \in Syncer, StoreInvoice(w)
  PROVE  SInv'
<1> DEFINE to == [sync[w] EXCEPT !.pc = "page", !.next = @ + 1, !.downloaded = @ + 1]
<1>1. sync[w] \in SyncRecord /\ RunOK(sync[w], listed, stored) /\ sync[w].pc = "fetch"
      /\ listed \in 0 .. LastInvoice
  BY DEF StoreInvoice, SInv, SyncTypeOK, RunsInv
<1>2. sync[w].next \in Invoice /\ sync[w].downloaded + 1 \in 0 .. MaxDocuments
  BY <1>1, SyncAssumption DEF RunOK, SyncRecord, Invoice
<1>3. SetSync(w, to) /\ stored' = stored \cup {sync[w].next}
  BY DEF StoreInvoice
<1>4. sync[w].next \in Nat /\ sync[w].next + 1 \in Nat
  BY <1>1 DEF SyncRecord
<1>5. /\ to \in SyncRecord /\ to.pc = "page" /\ to.request = sync[w].request
      /\ to.lost = sync[w].lost /\ to.saves = sync[w].saves /\ to.cursor = sync[w].cursor
      /\ to.last = sync[w].last /\ to.next = sync[w].next + 1 /\ to.failed = sync[w].failed
      /\ sync[w].next \in Nat
  BY <1>1, <1>2, <1>4 DEF SyncRecord, SyncStep
<1> HIDE DEF to
<1>6. RunOK(to, listed, stored')
  BY <1>1, <1>3, <1>5 DEF RunOK
<1>7. stored \subseteq stored' /\ stored' \subseteq Invoice
  BY <1>2, <1>3 DEF SInv, SyncTypeOK
<1>8. CursorInv'
  BY <1>3 DEF StoreInvoice, SInv, CursorInv, NothingSkipped
<1> QED
  BY <1>3, <1>5, <1>6, <1>7, <1>8, RunGoesOn DEF StoreInvoice, SInv, SyncTypeOK

LEMMA FailInvoiceSafe ==
  ASSUME SInv, NEW w \in Syncer, FailInvoice(w)
  PROVE  SInv'
<1> DEFINE to == [sync[w] EXCEPT !.pc = "page", !.next = @ + 1, !.failed = TRUE]
<1>1. sync[w] \in SyncRecord /\ RunOK(sync[w], listed, stored) /\ sync[w].pc = "fetch"
      /\ listed \in 0 .. LastInvoice
  BY DEF FailInvoice, SInv, SyncTypeOK, RunsInv
<1>2. SetSync(w, to)
  BY DEF FailInvoice
<1>3. sync[w].next \in Nat /\ sync[w].next + 1 \in Nat
  BY <1>1 DEF SyncRecord
<1>4. /\ to \in SyncRecord /\ to.pc = "page" /\ to.request = sync[w].request
      /\ to.lost = sync[w].lost /\ to.saves = sync[w].saves /\ to.cursor = sync[w].cursor
      /\ to.last = sync[w].last /\ to.next = sync[w].next + 1 /\ to.failed = TRUE
      /\ sync[w].next \in Nat
  BY <1>1, <1>3 DEF SyncRecord, SyncStep
<1> HIDE DEF to
<1>5. /\ faults' \in 0 .. MaxFaults
      /\ stored' = stored \/ stored' = stored \cup {sync[w].next}
  BY SyncAssumption DEF FailInvoice, FailedAttempt, SInv, SyncTypeOK
<1>6. sync[w].next \in Invoice
  BY <1>1, SyncAssumption DEF RunOK, SyncRecord, Invoice
<1>7. stored \subseteq stored' /\ stored' \subseteq Invoice
  BY <1>5, <1>6 DEF SInv, SyncTypeOK
<1>8. RunOK(to, listed, stored')
  BY <1>1, <1>4, <1>7 DEF RunOK
<1>9. UNCHANGED <<listed, poison, cursor, policy, request>>
  BY DEF FailInvoice
<1>10. CursorInv'
  BY <1>7, <1>9 DEF SInv, CursorInv, NothingSkipped
<1> QED
  BY <1>2, <1>4, <1>5, <1>7, <1>8, <1>9, <1>10, RunGoesOn DEF FailInvoice, SInv, SyncTypeOK

LEMMA EndPageSafe ==
  ASSUME SInv, NEW w \in Syncer, EndPage(w)
  PROVE  SInv'
<1>1. /\ sync[w] \in SyncRecord /\ RunOK(sync[w], listed, stored) /\ sync[w].pc = "page"
      /\ sync[w].next > sync[w].last /\ listed \in 0 .. LastInvoice
      /\ cursor \in 0 .. LastInvoice
  BY DEF EndPage, SInv, SyncTypeOK, RunsInv
\* The cursor moves to the last invoice of a page only when the whole of it is stored.
<1>2. ASSUME NEW old \in 0 .. LastInvoice, old <= listed, \A i \in 1 .. old : i \in stored
      PROVE  /\ NextCursor(w, old) \in 0 .. LastInvoice /\ NextCursor(w, old) <= listed
             /\ \A i \in 1 .. NextCursor(w, old) : i \in stored
  <2>1. CASE sync[w].failed \/ sync[w].backfill \/ sync[w].last <= sync[w].cursor
    BY <1>2, <2>1 DEF NextCursor
  <2>2. CASE ~(sync[w].failed \/ sync[w].backfill \/ sync[w].last <= sync[w].cursor)
    <3>1. sync[w].last \in Nat /\ sync[w].next \in Nat /\ sync[w].last <= sync[w].next - 1
          /\ sync[w].last <= listed
      BY <1>1 DEF SyncRecord, RunOK
    <3>2. \A i \in 1 .. (sync[w].next - 1) : i \in stored
      BY <1>1, <2>2 DEF RunOK
    <3>3. NextCursor(w, old) = sync[w].last
      BY <2>2 DEF NextCursor
    <3>4. sync[w].last \in 0 .. LastInvoice
      BY <1>1, <3>1, SyncAssumption
    <3>5. \A i \in 1 .. sync[w].last : i \in 1 .. (sync[w].next - 1)
      BY <3>1
    <3> QED
      BY <3>1, <3>2, <3>3, <3>4, <3>5
  <2> QED
    BY <2>1, <2>2
<1>3. /\ cursor' = NextCursor(w, cursor)
      /\ UNCHANGED <<listed, poison, stored, policy, request, faults>>
  BY DEF EndPage
<1>4. cursor' \in 0 .. LastInvoice /\ CursorInv'
  BY <1>1, <1>2, <1>3 DEF SInv, CursorInv, NothingSkipped
<1>5. CASE ~GoesOn(w)
  <2>1. SetSync(w, Ending(w, FALSE))
    BY <1>5 DEF EndPage
  <2> QED
    BY <1>3, <1>4, <2>1, EndingOK, RunGoesOn DEF SInv, SyncTypeOK
<1>6. CASE GoesOn(w)
  <2> DEFINE c  == NextCursor(w, sync[w].cursor)
             to == [sync[w] EXCEPT !.pc = "list", !.cursor = c]
  <2>1. SetSync(w, to)
    BY <1>6 DEF EndPage
  <2>2. c \in 0 .. LastInvoice /\ c <= listed /\ \A i \in 1 .. c : i \in stored
    BY <1>1, <1>2 DEF SyncRecord, RunOK
  <2> HIDE DEF c
  <2>3. /\ to \in SyncRecord /\ to.pc = "list" /\ to.request = sync[w].request
        /\ to.lost = sync[w].lost /\ to.saves = sync[w].saves /\ to.cursor = c
        /\ to.last = sync[w].last /\ to.next = sync[w].next /\ to.pages = sync[w].pages
    BY <1>1, <2>2 DEF SyncRecord, SyncStep
  <2> HIDE DEF to
  <2>4. RunOK(to, listed, stored)
    BY <1>1, <1>6, <2>2, <2>3 DEF RunOK, GoesOn
  <2> QED
    BY <1>3, <1>4, <2>1, <2>3, <2>4, RunGoesOn DEF SInv, SyncTypeOK
<1> QED
  BY <1>5, <1>6

LEMMA RaiseSafe ==
  ASSUME SInv, NEW w \in Syncer, Raise(w)
  PROVE  SInv'
<1>1. faults' \in 0 .. MaxFaults
  BY SyncAssumption DEF Raise, SInv, SyncTypeOK
<1>2. SetSync(w, Ending(w, TRUE))
  BY DEF Raise
<1> QED
  BY <1>1, <1>2, EndingOK, RunGoesOn DEF Raise, SInv, SyncTypeOK, CursorInv, NothingSkipped

-----------------------------------------------------------------------------
(* Completions.                                                            *)

LEMMA CompletePolicySafe ==
  ASSUME SInv, NEW w \in Syncer, CompletePolicy(w)
  PROVE  SInv'
<1>1. /\ SetSync(w, NoSync) /\ sync[w].pc = "ending" /\ sync[w].request = 0
      /\ UNCHANGED <<listed, poison, stored, cursor, request, faults>>
      /\ listed \in Nat
  BY SyncAssumption DEF CompletePolicy, SInv, SyncTypeOK
<1>2. sync'[w] = NoSync /\ (\A u \in Syncer \ {w} : sync'[u] = sync[u])
  BY <1>1 DEF SInv, SyncTypeOK, SetSync
<1>3. policy' \in PolicyRecord /\ HolderInv'
  <2>1. CASE ~sync[w].lost /\ Owns(w)
    <3>1. policy' \in PolicyRecord /\ policy'.holder = NoOne
      BY <2>1, Bounds DEF CompletePolicy, SInv, SyncTypeOK, PolicyRecord
    <3> QED
      BY <3>1, Bounds DEF HolderInv
  <2>2. CASE ~(~sync[w].lost /\ Owns(w))
    <3>1. policy' = policy /\ policy.holder # w
      BY <2>2 DEF CompletePolicy, SInv, HolderInv, Owns
    <3> QED
      BY <1>2, <3>1 DEF SInv, SyncTypeOK, HolderInv, Scheduled
  <2> QED
    BY <2>1, <2>2
<1>4. AnswerInv'
  <2>1. \A r \in Requests : request[r].holder # w
    BY <1>1, Bounds DEF SInv, AnswerInv
  <2> QED
    BY <1>1, <1>2, <2>1 DEF SInv, AnswerInv
<1> QED
  BY <1>1, <1>3, <1>4, NoRunOK, RunMoves DEF SInv, SyncTypeOK, CursorInv, NothingSkipped

LEMMA CompleteRequestSafe ==
  ASSUME SInv, NEW w \in Syncer, CompleteRequest(w)
  PROVE  SInv'
<1> DEFINE r == sync[w].request
           answer == IF sync[w].raised THEN "failed" ELSE "completed"
           row == [request[r] EXCEPT !.status = answer, !.holder = NoOne, !.live = FALSE]
<1>1. /\ SetSync(w, NoSync) /\ sync[w].pc = "ending" /\ sync[w].request # 0
      /\ UNCHANGED <<listed, poison, stored, cursor, policy, faults>>
      /\ listed \in Nat /\ sync[w] \in SyncRecord
  BY SyncAssumption DEF CompleteRequest, SInv, SyncTypeOK
<1>2. sync'[w] = NoSync /\ (\A u \in Syncer \ {w} : sync'[u] = sync[u])
  BY <1>1 DEF SInv, SyncTypeOK, SetSync
<1>3. r \in Requests
  BY <1>1, SyncAssumption DEF SyncRecord, Requests
<1>4. row \in RequestRecord /\ row.status \in Finished /\ row.holder = NoOne /\ ~row.live
  BY <1>3, Bounds DEF SInv, SyncTypeOK, RequestRecord, Finished
<1>5. request' = IF OwnsRequest(w, r) THEN [request EXCEPT ![r] = row] ELSE request
  BY DEF CompleteRequest
<1> HIDE DEF r, answer, row
<1>6. request' \in [Requests -> RequestRecord]
  BY <1>3, <1>4, <1>5 DEF SInv, SyncTypeOK
<1>7. HolderInv'
  BY <1>1, <1>2 DEF SInv, HolderInv, Scheduled
<1>8. AnswerInv'
  <2>1. \A q \in Requests \ {r} : request[q].holder # w /\ request'[q] = request[q]
    BY <1>5 DEF SInv, SyncTypeOK, AnswerInv, r
  <2>2. CASE OwnsRequest(w, r)
    <3>1. request'[r] = row
      BY <1>3, <1>5, <2>2 DEF SInv, SyncTypeOK
    <3> QED
      BY <1>2, <1>4, <2>1, <3>1, Bounds DEF SInv, AnswerInv
  <2>3. CASE ~OwnsRequest(w, r)
    BY <1>2, <1>5, <2>1, <2>3 DEF SInv, AnswerInv, OwnsRequest
  <2> QED
    BY <2>2, <2>3
<1> QED
  BY <1>1, <1>6, <1>7, <1>8, NoRunOK, RunMoves DEF SInv, SyncTypeOK, CursorInv, NothingSkipped

LEMMA CrashSafe ==
  ASSUME SInv, NEW w \in Syncer, Crash(w)
  PROVE  SInv'
<1>1. /\ SetSync(w, NoSync) /\ faults' \in 0 .. MaxFaults
      /\ UNCHANGED <<listed, poison, stored, cursor>>
      /\ listed \in Nat
  BY SyncAssumption DEF Crash, SInv, SyncTypeOK
<1>2. sync'[w] = NoSync /\ (\A u \in Syncer \ {w} : sync'[u] = sync[u])
  BY <1>1 DEF SInv, SyncTypeOK, SetSync
<1>3. /\ policy' \in PolicyRecord /\ policy'.saves = policy.saves
      /\ policy'.holder = IF policy.holder = w THEN Gone ELSE policy.holder
  BY Bounds DEF Crash, SInv, SyncTypeOK, PolicyRecord
<1>4. HolderInv'
  BY <1>2, <1>3, Bounds DEF SInv, HolderInv, Scheduled
<1>5. /\ request' \in [Requests -> RequestRecord]
      /\ \A r \in Requests : /\ request'[r].status = request[r].status
                             /\ request'[r].live = request[r].live
                             /\ request'[r].holder = IF request[r].holder = w THEN Gone
                                                     ELSE request[r].holder
  BY Bounds DEF Crash, SInv, SyncTypeOK, RequestRecord
<1>6. AnswerInv'
  <2> SUFFICES ASSUME NEW r \in Requests
               PROVE  /\ \A u \in Syncer : request'[r].holder = u
                                            => sync'[u].pc # "idle" /\ sync'[u].request = r
                      /\ request'[r].status \in Finished
                           => request'[r].holder = NoOne /\ ~request'[r].live
    BY DEF AnswerInv
  <2>1. CASE request[r].holder = w
    BY <1>5, <2>1, Bounds DEF SInv, AnswerInv
  <2>2. CASE request[r].holder # w
    <3>1. request'[r].holder = request[r].holder
      BY <1>5, <2>2
    <3> QED
      BY <1>2, <1>5, <2>2, <3>1 DEF SInv, AnswerInv
  <2> QED
    BY <2>1, <2>2
<1> QED
  BY <1>1, <1>3, <1>4, <1>5, <1>6, NoRunOK, RunMoves DEF SInv, SyncTypeOK, CursorInv, NothingSkipped

-----------------------------------------------------------------------------
LEMMA EnvironmentSafe == SInv /\ Environment => SInv'
BY ArriveSafe, NextRunComesSafe, PolicyLeaseExpiresSafe, SavePolicySafe, RequestLeaseExpiresSafe,
   EnqueueRequestSafe DEF Environment

LEMMA NextSafe ==
  ASSUME SInv, [SyncNext]_syncVars
  PROVE  SInv'
<1>1. CASE UNCHANGED syncVars
  BY <1>1 DEF SInv, syncVars, SyncTypeOK, CursorInv, NothingSkipped, RunsInv, HolderInv, AnswerInv, Scheduled
<1>2. CASE Environment
  BY <1>2, EnvironmentSafe
<1>3. ASSUME NEW w \in Syncer, Work(w) PROVE SInv'
  BY <1>3, ClaimRequestSafe, ClaimPolicySafe, ReadCursorSafe, ListPageSafe, LookAtInvoiceSafe,
     StoreInvoiceSafe, EndPageSafe, CompletePolicySafe, CompleteRequestSafe, FailInvoiceSafe DEF Work
<1>4. ASSUME NEW w \in Syncer, Trouble(w) PROVE SInv'
  BY <1>4, FailInvoiceSafe, RaiseSafe, CrashSafe DEF Trouble
<1>5. ASSUME NEW w \in Syncer, RenewLease(w) PROVE SInv'
  BY <1>5, RenewLeaseSafe
<1> QED
  BY <1>1, <1>2, <1>3, <1>4, <1>5 DEF SyncNext

\* The invariant that the theorems below rest on.
THEOREM SyncInvariant == SyncSpec => []SInv
<1>1. SInv /\ [SyncNext]_syncVars => SInv'
  BY NextSafe
<1> QED
  BY InitSafe, <1>1, PTL DEF SyncSpec

\* The rows of the schedule and the requests, the cursor and every run keep their types
\* for any numbers of workers and invoices and any sizes of pages (postgres_workflow_store.py
\* 1165-1409, qnb_efatura.py 866-958).
THEOREM SyncTypeCorrect == SyncSpec => []SyncTypeOK
<1>1. SInv => SyncTypeOK
  BY DEF SInv
<1> QED
  BY SyncInvariant, <1>1, PTL

\* No run moves the cursor past an invoice that is not stored, for any number of workers
\* that overlap, die, lose their lease or save an older cursor over a newer one
\* (qnb_efatura.py 887-943).
THEOREM CursorIsSafe == SyncSpec => []NothingSkipped
<1>1. SInv => NothingSkipped
  BY DEF SInv, CursorInv
<1> QED
  BY SyncInvariant, <1>1, PTL

LEMMA AnswerStep ==
  ASSUME SInv, [SyncNext]_syncVars, NEW r \in Requests, request[r].status \in Finished
  PROVE  request'[r] = request[r]
<1>1. /\ request[r].holder = NoOne /\ ~request[r].live
      /\ request \in [Requests -> RequestRecord] /\ request[r] \in RequestRecord
  BY DEF SInv, SyncTypeOK, AnswerInv
<1>2. CASE UNCHANGED syncVars
  BY <1>2 DEF syncVars
<1>3. CASE Environment
  <2>1. ASSUME NEW q \in Requests, RequestLeaseExpires(q) PROVE request'[r] = request[r]
    BY <1>1, <2>1 DEF RequestLeaseExpires
  <2>2. ASSUME NEW q \in Requests, NEW backfill \in BOOLEAN, EnqueueRequest(q, backfill)
        PROVE  request'[r] = request[r]
    BY <1>1, <2>2 DEF EnqueueRequest, Finished
  <2> QED
    BY <1>3, <2>1, <2>2 DEF Environment, Arrive, NextRunComes, PolicyLeaseExpires, SavePolicy
<1>4. ASSUME NEW w \in Syncer, NEW q \in Requests, ClaimRequest(w, q) PROVE request'[r] = request[r]
  BY <1>1, <1>4 DEF ClaimRequest, RequestClaimable, Finished
<1>5. ASSUME NEW w \in Syncer, CompleteRequest(w) PROVE request'[r] = request[r]
  <2>1. request[r].holder # w
    BY <1>1, Bounds
  <2> QED
    BY <1>1, <1>5, <2>1 DEF CompleteRequest, OwnsRequest
<1>6. ASSUME NEW w \in Syncer, Crash(w) PROVE request'[r] = request[r]
  <2>1. request[r].holder # w
    BY <1>1, Bounds
  <2>2. request'[r] = [request[r] EXCEPT !.holder = request[r].holder]
    BY <1>1, <1>6, <2>1 DEF Crash
  <2> QED
    BY <1>1, <2>2 DEF RequestRecord
<1>7. ASSUME NEW w \in Syncer, Work(w) \/ Trouble(w) \/ RenewLease(w) PROVE request'[r] = request[r]
  BY <1>4, <1>5, <1>6, <1>7 DEF Work, Trouble, RenewLease, ClaimPolicy, ReadCursor, ListPage,
     LookAtInvoice, StoreInvoice, FailInvoice, EndPage, Raise, CompletePolicy
<1> QED
  BY <1>2, <1>3, <1>7 DEF SyncNext

\* The answer of a manual request is final, for any number of workers that take it over
\* from one another (qnb_worker.py 88-129).
THEOREM AnswerIsFinal == SyncSpec => FinalAnswerStands
<1>1. SInv /\ [SyncNext]_syncVars
        => [\A r \in Requests : request[r].status \in Finished => request'[r] = request[r]]_syncVars
  BY AnswerStep
<1> QED
  BY SyncInvariant, <1>1, PTL DEF SyncSpec, FinalAnswerStands

LEMMA SaveStep ==
  ASSUME SInv, [SyncNext]_syncVars, NEW w \in Syncer,
         Scheduled(w), sync[w].saves # policy.saves, sync'[w] # sync[w]
  PROVE  policy' = policy
<1>1. policy.holder # w /\ policy \in PolicyRecord /\ sync \in [Syncer -> SyncRecord]
  BY DEF SInv, SyncTypeOK, HolderInv
<1>2. CASE UNCHANGED syncVars
  BY <1>2 DEF syncVars
<1>3. CASE Environment
  BY <1>3 DEF Environment, Arrive, NextRunComes, PolicyLeaseExpires, SavePolicy,
              RequestLeaseExpires, EnqueueRequest
<1>4. ASSUME NEW u \in Syncer, ClaimPolicy(u) PROVE FALSE
  BY <1>1, <1>4 DEF ClaimPolicy, Scheduled, SetSync
<1>5. ASSUME NEW u \in Syncer, RenewLease(u) PROVE policy' = policy
  <2>1. CASE Owns(u)
    BY <1>5, <2>1 DEF RenewLease
  <2>2. CASE ~Owns(u)
    BY <1>5, <2>2 DEF RenewLease
  <2> QED
    BY <2>1, <2>2
<1>6. ASSUME NEW u \in Syncer, CompletePolicy(u) PROVE policy' = policy
  <2>1. u = w
    BY <1>1, <1>6 DEF CompletePolicy, SetSync
  <2> QED
    BY <1>1, <1>6, <2>1 DEF CompletePolicy, Owns
<1>7. ASSUME NEW u \in Syncer, Crash(u) PROVE policy' = policy
  <2>1. u = w
    BY <1>1, <1>7 DEF Crash, SetSync
  <2>2. policy' = [policy EXCEPT !.holder = policy.holder]
    BY <1>1, <1>7, <2>1 DEF Crash
  <2> QED
    BY <1>1, <2>2 DEF PolicyRecord
<1>8. ASSUME NEW u \in Syncer, Work(u) \/ Trouble(u) PROVE policy' = policy
  BY <1>4, <1>6, <1>7, <1>8 DEF Work, Trouble, ClaimRequest, ReadCursor, ListPage,
     LookAtInvoice, StoreInvoice, FailInvoice, EndPage, Raise, CompleteRequest
<1> QED
  BY <1>2, <1>3, <1>5, <1>8 DEF SyncNext

\* A run claimed before an administrator's save leaves the schedule alone, whatever it
\* does afterwards and however many saves and claims follow (postgres_workflow_store.py
\* 1288-1409, qnb_scheduler.py 108-173).
THEOREM ScheduleIsSaved == SyncSpec => SaveStands
<1>1. SInv /\ [SyncNext]_syncVars
        => [\A w \in Syncer :
              Scheduled(w) /\ sync[w].saves # policy.saves /\ sync'[w] # sync[w] => policy' = policy]_syncVars
  BY SaveStep
<1> QED
  BY SyncInvariant, <1>1, PTL DEF SyncSpec, SaveStands
=============================================================================
