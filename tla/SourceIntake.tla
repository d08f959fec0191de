---------------------------- MODULE SourceIntake ----------------------------
(***************************************************************************)
(* Acceptance of source files and the identity of the documents they make  *)
(* (store_document_upload of backend/app/services/document_service.py,     *)
(* _store_downloaded_document of backend/app/domain/qnb_efatura.py, and    *)
(* store_source_document, accept_source_document and the header that       *)
(* persist_canonical_journal writes, all of                                *)
(* backend/app/persistence/normalized_accounting_repository.py).           *)
(*                                                                         *)
(* An upload is known by the hash of its bytes alone: it writes no         *)
(* identity, and its processing job is created in a later transaction.     *)
(* save_uploaded_document_with_job of backend/app/api/phase0_uploads.py,   *)
(* which reads identities in XML, is called by no route.  A                *)
(* delivery of QNB comes with up to two identities, the ETTN and the key   *)
(* of issuer and invoice, either of which the listing may leave out; one   *)
(* transaction looks them up, joins or makes the document and claims them. *)
(* Processing writes the ETTN it reads in the document, and no identity.   *)
(*                                                                         *)
(* A source row keeps the reference it was first stored with and a         *)
(* document is found by the reference of a source, so a document is named  *)
(* here by the content of the source that gave it its reference.           *)
(***************************************************************************)
EXTENDS Naturals

CONSTANTS
  Content,     \* distinct byte contents
  Xml,         \* those that are UBL, whose ETTN is always read
  Ettn,        \* identity values of kind ettn
  InvoiceKey,  \* those of kind issuer_invoice
  ettnOf,      \* the ETTN printed in each content, which tells invoices apart
  Summary,     \* what QNB lists: the content it will deliver and the identities it gives
  Uploader,    \* upload calls
  Deliverer,   \* synchronisations that deliver
  Nothing      \* no content, no identity, no summary

ASSUME IntakeAssumption ==
  /\ Xml \subseteq Content
  /\ Ettn \cap InvoiceKey = {}
  /\ ettnOf \in [Content -> Ettn]
  /\ Summary \subseteq [content : Xml, ettn : Ettn \cup {Nothing},
                       key : InvoiceKey \cup {Nothing}]
  /\ \A s \in Summary : s.ettn \in {ettnOf[s.content], Nothing}
  /\ \A A \in {Content, Ettn, InvoiceKey} : Nothing \notin A
  /\ Nothing \notin Summary

VARIABLES
  sources,     \* source_files
  documents,   \* documents
  ettn,        \* documents.ettn
  owner,       \* document_identities: the document of an identity
  joined,      \* document_sources: <<document, source>>
  jobs,        \* documents with a processing job
  uploading,   \* the content an upload call has stored and not yet made a job for
  delivering,  \* the summary whose acceptance is under way
  found,       \* the document its identities were found to name
  delivered    \* ghost: <<summary, document>> of every acceptance that was committed

intakeVars ==
  <<sources, documents, ettn, owner, joined, jobs, uploading, delivering, found, delivered>>

Identity == Ettn \cup InvoiceKey

IntakeTypeOK ==
  /\ sources \subseteq Content
  /\ documents \subseteq sources
  /\ ettn \in [Content -> Ettn \cup {Nothing}]
  /\ owner \in [Identity -> documents \cup {Nothing}]
  /\ joined \subseteq documents \X sources
  /\ jobs \subseteq documents
  /\ uploading \in [Uploader -> documents \cup {Nothing}]
  /\ delivering \in [Deliverer -> Summary \cup {Nothing}]
  /\ found \in [Deliverer -> documents \cup {Nothing}]
  /\ delivered \subseteq Summary \X documents

IntakeInit ==
  /\ sources = {}
  /\ documents = {}
  /\ ettn = [c \in Content |-> Nothing]
  /\ owner = [i \in Identity |-> Nothing]
  /\ joined = {}
  /\ jobs = {}
  /\ uploading = [u \in Uploader |-> Nothing]
  /\ delivering = [d \in Deliverer |-> Nothing]
  /\ found = [d \in Deliverer |-> Nothing]
  /\ delivered = {}

\* The unique index on documents.ettn lets document d carry ETTN e
EttnFree(d, e) == \A other \in documents \ {d} : ettn[other] # e

\* The identities of a summary, in the order in which they are looked up
Ids(s) == {s.ettn, s.key} \ {Nothing}

FirstId(s) == IF s.ettn # Nothing THEN s.ettn ELSE s.key

\* Two acceptances that wait for one another: the advisory lock is on the first identity
\* alone (without one, on the bytes), and the row of a source is locked by its upsert
Contend(s, t) ==
  \/ s.content = t.content
  \/ FirstId(s) = FirstId(t) /\ FirstId(s) # Nothing

BeingAccepted == {delivering[d] : d \in Deliverer} \ {Nothing}

-----------------------------------------------------------------------------
(* Uploads.                                                                *)

\* store_source_document: the same bytes find their source, and the reference of the
\* source its document; the reference of a source that only supports another document
\* has none, and makes one
StoreUpload(u, c) ==
  /\ uploading[u] = Nothing
  /\ \A s \in BeingAccepted : s.content # c
  /\ sources' = sources \cup {c}
  /\ documents' = documents \cup {c}
  /\ joined' = joined \cup {<<c, c>>}
  /\ uploading' = [uploading EXCEPT ![u] = c]
  /\ UNCHANGED <<ettn, owner, jobs, delivering, found, delivered>>

\* create_processing_job, which leaves an existing job alone
CreateUploadJob(u) ==
  /\ uploading[u] # Nothing
  /\ jobs' = jobs \cup {uploading[u]}
  /\ uploading' = [uploading EXCEPT ![u] = Nothing]
  /\ UNCHANGED <<sources, documents, ettn, owner, joined, delivering, found, delivered>>

\* The process dies in between, and the uploader has no answer
LoseUpload(u) ==
  /\ uploading[u] # Nothing
  /\ uploading' = [uploading EXCEPT ![u] = Nothing]
  /\ UNCHANGED <<sources, documents, ettn, owner, joined, jobs, delivering, found, delivered>>

-----------------------------------------------------------------------------
(* Deliveries: one transaction of two steps, between which others commit.  *)

\* The locks, and the search of the identities; when they name different documents it
\* raises document_identity_conflict.  The synchronisation has looked for a duplicate
\* before the download, in a workspace that is stale by now
LookUpDelivery(d, s) ==
  /\ delivering[d] = Nothing
  /\ \A t \in BeingAccepted : ~Contend(s, t)
  /\ LET named == {owner[i] : i \in Ids(s)} \ {Nothing}
     IN \E f \in named \cup {Nothing} :
          /\ named \subseteq {f}
          /\ found' = [found EXCEPT ![d] = f]
  /\ delivering' = [delivering EXCEPT ![d] = s]
  /\ UNCHANGED <<sources, documents, ettn, owner, joined, jobs, uploading, delivered>>

\* The transaction raises, or is lost, and leaves nothing; the synchronisation counts the
\* invoice as failed
EndDelivery(d) ==
  /\ delivering' = [delivering EXCEPT ![d] = Nothing]
  /\ found' = [found EXCEPT ![d] = Nothing]

RefuseDelivery(d) ==
  /\ delivering[d] # Nothing
  /\ EndDelivery(d)
  /\ UNCHANGED <<sources, documents, ettn, owner, joined, jobs, uploading, delivered>>

CommitAnyOwner(d, doc) ==                     \* mutant: the owner the insert returns is not compared
  LET s == delivering[d]
  IN /\ owner' = [i \in Identity |-> IF i \in Ids(s) /\ owner[i] = Nothing THEN doc ELSE owner[i]]
     /\ sources' = sources \cup {s.content}
     /\ joined' = joined \cup {<<doc, s.content>>}
     /\ jobs' = jobs \cup {doc}
     /\ delivered' = delivered \cup {<<s, doc>>}
     /\ EndDelivery(d)
     /\ UNCHANGED uploading

\* The source joins the document, which claims all the identities; one that another
\* document has taken since the search raises document_identity_conflict.  The job is
\* made, or found
CommitDelivery(d, doc) ==
  LET s == delivering[d]
  IN /\ \A i \in Ids(s) : owner[i] \in {Nothing, doc}
     /\ owner' = [i \in Identity |-> IF i \in Ids(s) THEN doc ELSE owner[i]]
     /\ sources' = sources \cup {s.content}
     /\ joined' = joined \cup {<<doc, s.content>>}
     /\ jobs' = jobs \cup {doc}
     /\ delivered' = delivered \cup {<<s, doc>>}
     /\ EndDelivery(d)
     /\ UNCHANGED uploading

\* An identity was found: its document is joined, and keeps its own ETTN
AttachDelivery(d) ==
  /\ delivering[d] # Nothing
  /\ found[d] # Nothing
  /\ CommitDelivery(d, found[d])
  /\ UNCHANGED <<documents, ettn>>

\* None was: the document is inserted without a conflict clause.  When an upload has
\* already made a document of these bytes, or one that processing found to carry this
\* ETTN, a unique key raises (the invoice is then poison to QnbSync)
AcceptDelivery(d) ==
  /\ delivering[d] # Nothing
  /\ found[d] = Nothing
  /\ LET s == delivering[d]
     IN /\ s.content \notin documents
        /\ s.ettn # Nothing => EttnFree(s.content, s.ettn)
        /\ documents' = documents \cup {s.content}
        /\ ettn' = [ettn EXCEPT ![s.content] = s.ettn]
        /\ CommitDelivery(d, s.content)

-----------------------------------------------------------------------------
\* persist_canonical_journal writes the ETTN that was read, an empty one for a rendering
\* in which none was found; when another document has it the run fails
WriteHeader(c) ==
  /\ c \in jobs
  /\ \E e \in {ettnOf[c]} \cup (IF c \in Xml THEN {} ELSE {Nothing}) :
       /\ e # Nothing => EttnFree(c, e)
       /\ ettn' = [ettn EXCEPT ![c] = e]
  /\ UNCHANGED <<sources, documents, owner, joined, jobs, uploading, delivering, found, delivered>>

IntakeNext ==
  \/ \E u \in Uploader : \E c \in Content : StoreUpload(u, c)
  \/ \E u \in Uploader : CreateUploadJob(u) \/ LoseUpload(u)
  \/ \E d \in Deliverer : \E s \in Summary : LookUpDelivery(d, s)
  \/ \E d \in Deliverer : RefuseDelivery(d) \/ AttachDelivery(d) \/ AcceptDelivery(d)
  \/ \E c \in Content : WriteHeader(c)

IntakeSpec == IntakeInit /\ [][IntakeNext]_intakeVars

-----------------------------------------------------------------------------
(* Properties.                                                             *)

\* Deliveries that share an identity end in one document, though each may lack the other
\* identity, the lock covers the first one only, and another delivery may claim the
\* second between the search and the claim (normalized_accounting_repository.py 447-625)
OneDocumentPerIdentity ==
  \A p, q \in delivered : Ids(p[1]) \cap Ids(q[1]) # {} => p[2] = q[2]

\* The claim of docs/superpowers/specs/2026-07-08-qnb-incoming-efatura-design.md:134: a
\* listed invoice that is already present makes no new document
ListedIsNotDoubled ==
  [][\A s \in Summary, c \in documents :
       s.content \in documents' \ documents /\ delivered' # delivered
         => ettnOf[c] # ettnOf[s.content]]_intakeVars
=============================================================================
