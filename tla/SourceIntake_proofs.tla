------------------------- MODULE SourceIntake_proofs --------------------------
(***************************************************************************)
(* Proofs about SourceIntake for any contents, identities, summaries,      *)
(* uploads and deliveries.                                                 *)
(***************************************************************************)
EXTENDS SourceIntake, TLAPS

\* Every identity of an accepted delivery names the document it ended in.
ClaimedInv == \A p \in delivered : \A i \in Ids(p[1]) : owner[i] = p[2]

SInv == IntakeTypeOK /\ ClaimedInv

-----------------------------------------------------------------------------
LEMMA IdsTyped ==
  ASSUME NEW s \in Summary
  PROVE  Ids(s) \subseteq Identity /\ s.content \in Content
BY IntakeAssumption DEF Ids, Identity

LEMMA InitSafe == IntakeInit => SInv
BY DEF IntakeInit, SInv, IntakeTypeOK, ClaimedInv

\* A call that accepts nothing, and drops no document.
LEMMA Unclaiming ==
  ASSUME SInv, IntakeTypeOK', UNCHANGED <<owner, delivered>>
  PROVE  SInv'
BY DEF SInv, ClaimedInv

LEMMA UploadSafe ==
  ASSUME SInv, NEW u \in Uploader,
         (\E c \in Content : StoreUpload(u, c)) \/ CreateUploadJob(u) \/ LoseUpload(u)
  PROVE  SInv'
<1>1. CASE \E c \in Content : StoreUpload(u, c)
  <2>1. PICK c \in Content : StoreUpload(u, c)
    BY <1>1
  <2>2. /\ sources' = sources \cup {c} /\ documents' = documents \cup {c}
        /\ joined' = joined \cup {<<c, c>>} /\ uploading' = [uploading EXCEPT ![u] = c]
        /\ UNCHANGED <<ettn, owner, jobs, delivering, found, delivered>>
    BY <2>1 DEF StoreUpload
  <2>3. IntakeTypeOK'
    BY <2>2 DEF SInv, IntakeTypeOK
  <2> QED
    BY <2>2, <2>3, Unclaiming
<1>2. CASE CreateUploadJob(u) \/ LoseUpload(u)
  <2>1. IntakeTypeOK'
    BY <1>2 DEF CreateUploadJob, LoseUpload, SInv, IntakeTypeOK
  <2> QED
    BY <1>2, <2>1, Unclaiming DEF CreateUploadJob, LoseUpload
<1> QED
  BY <1>1, <1>2

LEMMA LookUpSafe ==
  ASSUME SInv, NEW d \in Deliverer, NEW s \in Summary, LookUpDelivery(d, s)
  PROVE  SInv'
<1> DEFINE named == {owner[i] : i \in Ids(s)} \ {Nothing}
<1>1. PICK f \in named \cup {Nothing} : found' = [found EXCEPT ![d] = f]
  BY DEF LookUpDelivery
<1>2. f \in documents \cup {Nothing}
  BY <1>1, IdsTyped DEF SInv, IntakeTypeOK
<1>3. /\ delivering' = [delivering EXCEPT ![d] = s]
      /\ UNCHANGED <<sources, documents, ettn, owner, joined, jobs, uploading, delivered>>
  BY DEF LookUpDelivery
<1>4. IntakeTypeOK'
  BY <1>1, <1>2, <1>3 DEF SInv, IntakeTypeOK
<1> QED
  BY <1>3, <1>4, Unclaiming

LEMMA RefuseSafe ==
  ASSUME SInv, NEW d \in Deliverer, RefuseDelivery(d)
  PROVE  SInv'
<1>1. IntakeTypeOK'
  BY DEF RefuseDelivery, EndDelivery, SInv, IntakeTypeOK
<1> QED
  BY <1>1, Unclaiming DEF RefuseDelivery

\* A commit takes no identity from another document.
LEMMA CommitSafe ==
  ASSUME SInv, NEW d \in Deliverer, delivering[d] \in Summary, NEW doc \in documents',
         CommitDelivery(d, doc), documents \subseteq documents',
         documents' \subseteq documents \cup {delivering[d].content},
         ettn' \in [Content -> Ettn \cup {Nothing}],
         Nothing \notin documents'
  PROVE  SInv'
<1> DEFINE s == delivering[d]
<1>1. Ids(s) \subseteq Identity /\ s.content \in Content
  BY IdsTyped
<1>2. /\ \A i \in Ids(s) : owner[i] \in {Nothing, doc}
      /\ owner' = [i \in Identity |-> IF i \in Ids(s) THEN doc ELSE owner[i]]
      /\ sources' = sources \cup {s.content}
      /\ joined' = joined \cup {<<doc, s.content>>}
      /\ jobs' = jobs \cup {doc}
      /\ delivered' = delivered \cup {<<s, doc>>}
      /\ UNCHANGED uploading
  BY DEF CommitDelivery
<1>3. /\ delivering' = [delivering EXCEPT ![d] = Nothing]
      /\ found' = [found EXCEPT ![d] = Nothing]
  BY DEF CommitDelivery, EndDelivery
<1>4. s \in Summary
  OBVIOUS
<1> HIDE DEF s
<1>5. IntakeTypeOK'
  <2>1. owner' \in [Identity -> documents' \cup {Nothing}]
    BY <1>2 DEF SInv, IntakeTypeOK
  <2>2. joined' \subseteq documents' \X sources' /\ jobs' \subseteq documents'
    BY <1>2 DEF SInv, IntakeTypeOK
  <2>3. delivered' \subseteq Summary \X documents'
    BY <1>2, <1>4 DEF SInv, IntakeTypeOK
  <2>4. sources' \subseteq Content /\ documents' \subseteq sources'
    BY <1>1, <1>2 DEF SInv, IntakeTypeOK, s
  <2>5. /\ uploading' \in [Uploader -> documents' \cup {Nothing}]
        /\ delivering' \in [Deliverer -> Summary \cup {Nothing}]
        /\ found' \in [Deliverer -> documents' \cup {Nothing}]
    BY <1>2, <1>3 DEF SInv, IntakeTypeOK
  <2> QED
    BY <2>1, <2>2, <2>3, <2>4, <2>5 DEF IntakeTypeOK
<1>6. ASSUME NEW p \in delivered', NEW i \in Ids(p[1])
      PROVE  owner'[i] = p[2]
  <2>1. CASE p = <<s, doc>>
    BY <1>1, <1>2, <1>6, <2>1
  <2>2. CASE p \in delivered
    <3>1. owner[i] = p[2] /\ p[2] \in documents /\ i \in Identity
      BY <1>6, <2>2, IdsTyped DEF SInv, ClaimedInv, IntakeTypeOK
    <3>2. owner[i] # Nothing
      BY <3>1
    <3> QED
      BY <1>2, <3>1, <3>2
  <2> QED
    BY <1>2, <1>6, <2>1, <2>2
<1> QED
  BY <1>5, <1>6 DEF SInv, ClaimedInv

LEMMA AttachSafe ==
  ASSUME SInv, NEW d \in Deliverer, AttachDelivery(d)
  PROVE  SInv'
<1>1. delivering[d] \in Summary /\ found[d] \in documents
  BY DEF AttachDelivery, SInv, IntakeTypeOK
<1>2. CommitDelivery(d, found[d]) /\ UNCHANGED <<documents, ettn>>
  BY DEF AttachDelivery
<1>3. Nothing \notin documents /\ ettn \in [Content -> Ettn \cup {Nothing}]
  BY IntakeAssumption DEF SInv, IntakeTypeOK
<1> QED
  BY <1>1, <1>2, <1>3, CommitSafe

LEMMA AcceptSafe ==
  ASSUME SInv, NEW d \in Deliverer, AcceptDelivery(d)
  PROVE  SInv'
<1> DEFINE s == delivering[d]
<1>1. s \in Summary
  BY DEF AcceptDelivery, SInv, IntakeTypeOK
<1>2. /\ documents' = documents \cup {s.content}
      /\ ettn' = [ettn EXCEPT ![s.content] = s.ettn]
      /\ CommitDelivery(d, s.content)
  BY DEF AcceptDelivery
<1>3. s.content \in Content /\ s.ettn \in Ettn \cup {Nothing} /\ Nothing \notin Content
  BY <1>1, IntakeAssumption
<1>4. Nothing \notin documents' /\ ettn' \in [Content -> Ettn \cup {Nothing}]
  BY <1>2, <1>3 DEF SInv, IntakeTypeOK
<1> QED
  BY <1>1, <1>2, <1>4, CommitSafe

LEMMA WriteHeaderSafe ==
  ASSUME SInv, NEW c \in Content, WriteHeader(c)
  PROVE  SInv'
<1>1. PICK e \in Ettn \cup {Nothing} : ettn' = [ettn EXCEPT ![c] = e]
  BY IntakeAssumption DEF WriteHeader
<1>2. UNCHANGED <<sources, documents, owner, joined, jobs, uploading, delivering, found, delivered>>
  BY DEF WriteHeader
<1>3. IntakeTypeOK'
  BY <1>1, <1>2 DEF SInv, IntakeTypeOK
<1> QED
  BY <1>2, <1>3, Unclaiming

-----------------------------------------------------------------------------
LEMMA NextSafe ==
  ASSUME SInv, [IntakeNext]_intakeVars
  PROVE  SInv'
<1>1. CASE UNCHANGED intakeVars
  BY <1>1 DEF SInv, intakeVars, IntakeTypeOK, ClaimedInv
<1>2. CASE IntakeNext
  BY <1>2, UploadSafe, LookUpSafe, RefuseSafe, AttachSafe, AcceptSafe, WriteHeaderSafe
     DEF IntakeNext
<1> QED
  BY <1>1, <1>2

\* The invariant that the theorems below rest on.
THEOREM IntakeInvariant == IntakeSpec => []SInv
<1>1. SInv /\ [IntakeNext]_intakeVars => SInv'
  BY NextSafe
<1> QED
  BY InitSafe, <1>1, PTL DEF IntakeSpec

\* The tables of SourceIntake keep their types for any contents, identities, summaries,
\* uploads and deliveries (normalized_accounting_repository.py 310-717).
THEOREM IntakeTypeCorrect == IntakeSpec => []IntakeTypeOK
<1>1. SInv => IntakeTypeOK
  BY DEF SInv
<1> QED
  BY IntakeInvariant, <1>1, PTL

\* Deliveries that share an identity end in one document, for any number of concurrent
\* acceptances of any summaries, with either identity or both, and whatever is uploaded
\* and processed in between (normalized_accounting_repository.py 447-625).
THEOREM SharedIdentityIsOneDocument == IntakeSpec => []OneDocumentPerIdentity
<1>1. ASSUME SInv, NEW p \in delivered, NEW q \in delivered, Ids(p[1]) \cap Ids(q[1]) # {}
      PROVE  p[2] = q[2]
  BY <1>1 DEF SInv, ClaimedInv
<1>2. SInv => OneDocumentPerIdentity
  BY <1>1 DEF OneDocumentPerIdentity
<1> QED
  BY IntakeInvariant, <1>2, PTL
=============================================================================
