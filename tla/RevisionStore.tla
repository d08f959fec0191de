----------------------------- MODULE RevisionStore -----------------------------
(***************************************************************************)
(* What the store promises for the journal of a document: every save of a  *)
(* run and every decision of a reviewer takes effect at one instant, on    *)
(* the journal as it is at that instant.  A run saves only while it holds  *)
(* the job, once for each time that it took it, and keeps its result aside *)
(* where a reviewer has approved; a review is made from the revision that  *)
(* it replaces or from a result that is kept beside it.                    *)
(***************************************************************************)
EXTENDS Naturals

CONSTANTS Run, None

VARIABLES
  journal,    \* the current revision
  status,     \* what the document is shown as
  aside,      \* a result is kept beside the journal
  holder,     \* the run that may save, or None
  working     \* the runs that have neither saved nor given up

vars == <<journal, status, aside, holder, working>>

Init ==
  /\ journal = [no |-> 0, status |-> "none", by |-> "nobody", basis |-> 0, approved |-> FALSE]
  /\ status = "new"
  /\ aside = FALSE
  /\ holder = None
  /\ working = {}

Approved == journal.approved /\ journal.status = "approved"

Take(w) ==
  /\ w \notin working
  /\ holder' = w
  /\ working' = working \cup {w}
  /\ UNCHANGED <<journal, status, aside>>

End(w) == w \in working /\ working' = working \ {w}

GiveUp(w) == End(w) /\ UNCHANGED <<journal, status, aside, holder>>

\* Only the run that took the job last saves
Saves(w) == holder = w /\ End(w)

\* The next revision is also what the document is shown as
Revise(to, maker, basis, approved) ==
  /\ journal' = [no |-> journal.no + 1, status |-> to, by |-> maker, basis |-> basis,
                 approved |-> approved]
  /\ status' = to
  /\ aside' = FALSE
  /\ UNCHANGED holder

KeepAside(to) == status' = to /\ aside' = (journal.no # 0) /\ UNCHANGED <<journal, holder>>

SaveDraft(w) ==
  /\ Saves(w)
  /\ IF Approved THEN KeepAside("reprocess_review_required")
     ELSE Revise("review_required", "worker", journal.no + 1, journal.approved)

SaveEvidence(w) ==
  /\ Saves(w)
  /\ KeepAside(IF Approved THEN "reprocess_review_required" ELSE "review_required")

SaveNoPosting(w) ==
  /\ Saves(w)
  /\ KeepAside(IF journal.no = 0 THEN "no_posting_required" ELSE "reprocess_review_required")

\* Content that a review may be made from; 0 is a result kept aside
Content == {journal.no} \cup {n \in {0} : aside}

Review(verdict) ==
  /\ journal.no # 0
  /\ \E content \in Content :
       Revise(verdict, "review", content, journal.approved \/ verdict = "approved")
  /\ UNCHANGED working

Reopen ==
  /\ journal.status = "approved"
  /\ Revise("working_draft", "reopen", journal.no, journal.approved)
  /\ UNCHANGED working

Next ==
  \/ \E w \in Run :
       Take(w) \/ GiveUp(w) \/ SaveDraft(w) \/ SaveEvidence(w) \/ SaveNoPosting(w)
  \/ \E verdict \in {"approved", "rejected", "review_required"} : Review(verdict)
  \/ Reopen

Spec == Init /\ [][Next]_vars
=============================================================================
