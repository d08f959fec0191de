------------------------------ MODULE EditLeases ------------------------------
(***************************************************************************)
(* The edit lease and the working draft of one journal                     *)
(* (backend/app/services/review_collaboration_service.py and the routes    *)
(* above it), with the review that takes the lease first                   *)
(* (phase0_routes_review_export.py).                                       *)
(*                                                                         *)
(* Every read, write and delete of the repository is a transaction of its  *)
(* own, so other calls come in between.  A call observes the time once,    *)
(* when it starts.  Roles other than accountant and admin are refused by   *)
(* the routes; what a review does beyond the revision it makes is the      *)
(* subject of JournalRevisions.                                            *)
(***************************************************************************)
EXTENDS Naturals

CONSTANTS
  Editor,            \* accountants and administrators
  Edit,              \* HTTP calls, each of any editor
  Nobody,            \* no editor
  Unleased, Unread,  \* no row in journal_edit_leases; a call that has not read it
  Duration,          \* LEASE_DURATION
  LastMinute,        \* bound: the clock
  LastRevision       \* bound: revisions of the journal

LeaseRecord == [owner : Editor, activity : Nat, expires : Nat]

ASSUME EditAssumption ==
  /\ Duration \in Nat
  /\ {LastMinute, LastRevision} \subseteq Nat
  /\ {Unleased, Unread} \cap LeaseRecord = {}
  /\ Unleased # Unread
  /\ Nobody \notin Editor

VARIABLES
  minute,     \* the clock
  revision,   \* journal_entries.current_revision_no
  editLease,  \* the row of journal_edit_leases
  draft,      \* the row of journal_working_drafts: none or one
  edit        \* the local state of every call

editVars == <<minute, revision, editLease, draft, edit>>

Operation == {"acquire", "review", "renew", "release", "takeover", "draft"}

EditRecord ==
  [pc       : {"idle", "revision", "lease", "expired", "write", "delete", "commit"},
   editor   : Editor \cup {Nobody},
   op       : Operation,
   at       : Nat,                                      \* observed_at
   activity : Nat,                                      \* user_activity_at
   expected : Nat,                                      \* expected_revision
   seen     : LeaseRecord \cup {Unleased, Unread}]      \* what it read as the lease

NoEdit ==
  [pc |-> "idle", editor |-> Nobody, op |-> "acquire",
   at |-> 0, activity |-> 0, expected |-> 0, seen |-> Unread]

EditTypeOK ==
  /\ minute \in 0 .. LastMinute
  /\ revision \in Nat
  /\ editLease \in LeaseRecord \cup {Unleased}
  /\ draft \in SUBSET [by : Editor, base : Nat]
  /\ edit \in [Edit -> EditRecord]

EditInit ==
  /\ minute = 0
  /\ revision = 1
  /\ editLease = Unleased
  /\ draft = {}
  /\ edit = [c \in Edit |-> NoEdit]

SetEdit(c, to) == edit' = [edit EXCEPT ![c] = to]
Answer(c)      == SetEdit(c, NoEdit)
GoTo(c, pc)    == SetEdit(c, [edit[c] EXCEPT !.pc = pc])

-----------------------------------------------------------------------------
(* A call.                                                                 *)

\* Activity in the future is refused: acquire takes the time of the server, renew and
\* takeover what the client says.  The client has seen the revision it expects; renew and
\* release expect none
Submit(c, a, op, activity, expected) ==
  /\ edit[c].pc = "idle"
  /\ activity <= minute /\ (op \in {"renew", "takeover"} \/ activity = minute)
  /\ expected <= revision /\ (expected = 0 <=> op \in {"renew", "release"})
  /\ op = "review" => expected < LastRevision
  /\ SetEdit(c, [NoEdit EXCEPT
                   !.pc = IF op \in {"acquire", "review", "takeover"} THEN "revision" ELSE "lease",
                   !.editor = a, !.op = op, !.at = minute,
                   !.activity = activity, !.expected = expected])
  /\ UNCHANGED <<minute, revision, editLease, draft>>

\* read_current_journal_state, and NormalizedRevisionConflict
ReadRevision(c) ==
  /\ edit[c].pc = "revision"
  /\ IF edit[c].expected # revision THEN Answer(c)
     ELSE GoTo(c, CASE edit[c].op = "takeover" -> "write"
                    [] edit[c].op = "draft"    -> "commit"
                    [] OTHER                   -> "lease")
  /\ UNCHANGED <<minute, revision, editLease, draft>>

Unheld(c) == editLease = Unleased
Mine(c) == editLease # Unleased /\ editLease.owner = edit[c].editor

\* Only release does not look at the expiry
Expired(c) == editLease # Unleased /\ edit[c].op # "release" /\ editLease.expires <= edit[c].at

LeaseAllowsAnyRelease(c) ==                            \* mutant: owner not looked at
  CASE edit[c].op = "acquire" -> Unheld(c)
    [] edit[c].op = "review"  -> Unheld(c) \/ Mine(c)
    [] edit[c].op = "release" -> TRUE
    [] edit[c].op = "renew"   -> Mine(c) /\ edit[c].activity > editLease.activity
    [] OTHER                  -> Mine(c)

\* EditLeaseConflict and EditLeaseActivityError, or the lease that acquire has already
LeaseAllows(c) ==
  CASE edit[c].op = "acquire"           -> Unheld(c)
    [] edit[c].op \in {"review", "release"} -> Unheld(c) \/ Mine(c)
    [] edit[c].op = "renew"             -> Mine(c) /\ edit[c].activity > editLease.activity
    [] OTHER                            -> Mine(c)

AfterLease(c) ==
  CASE edit[c].op = "release" -> "delete"
    [] edit[c].op = "draft"   -> "revision"
    [] edit[c].op = "review" /\ Mine(c) -> "commit"
    [] OTHER -> "write"

ReadLease(c) ==
  /\ edit[c].pc = "lease"
  /\ \/ /\ Expired(c)
        /\ SetEdit(c, [edit[c] EXCEPT !.pc = "expired", !.seen = editLease])
     \/ /\ ~Expired(c) /\ LeaseAllows(c)
        /\ SetEdit(c, [edit[c] EXCEPT !.pc = AfterLease(c), !.seen = editLease])
     \/ /\ ~Expired(c) /\ ~LeaseAllows(c)
        /\ Answer(c)
  /\ UNCHANGED <<minute, revision, editLease, draft>>

\* Whatever the row is by now; then the call goes on as if there were none
DeleteExpired(c) ==
  /\ edit[c].pc = "expired"
  /\ editLease' = Unleased
  /\ IF edit[c].op \in {"acquire", "review"} THEN GoTo(c, "write") ELSE Answer(c)
  /\ UNCHANGED <<minute, revision, draft>>

DeleteLease(c) ==
  /\ edit[c].pc = "delete"
  /\ editLease' = Unleased
  /\ Answer(c)
  /\ UNCHANGED <<minute, revision, draft>>

WriteLease(c) ==
  /\ edit[c].pc = "write"
  /\ editLease' = [owner    |-> edit[c].editor,
                   activity |-> edit[c].activity,
                   expires  |-> edit[c].activity + Duration]
  /\ IF edit[c].op = "review" THEN GoTo(c, "commit") ELSE Answer(c)
  /\ UNCHANGED <<minute, revision, draft>>

SaveDraft(c) ==
  /\ edit[c].pc = "commit" /\ edit[c].op = "draft"
  /\ draft' = {[by |-> edit[c].editor, base |-> edit[c].expected]}
  /\ Answer(c)
  /\ UNCHANGED <<minute, revision, editLease>>

\* The review checks the revision again and keeps the lease
Review(c) ==
  /\ edit[c].pc = "commit" /\ edit[c].op = "review"
  /\ revision' = IF edit[c].expected = revision THEN revision + 1 ELSE revision
  /\ Answer(c)
  /\ UNCHANGED <<minute, editLease, draft>>

\* The process goes down, or the repository raises
Lose(c) ==
  /\ edit[c].pc # "idle"
  /\ Answer(c)
  /\ UNCHANGED <<minute, revision, editLease, draft>>

-----------------------------------------------------------------------------
\* A worker run or a reopening, which do not ask for the lease
Revise ==
  /\ revision < LastRevision
  /\ revision' = revision + 1
  /\ UNCHANGED <<minute, editLease, draft, edit>>

MinutePasses ==
  /\ minute < LastMinute
  /\ minute' = minute + 1
  /\ UNCHANGED <<revision, editLease, draft, edit>>

EditStep(c) ==
  \/ \E a \in Editor, op \in Operation, activity \in 0 .. LastMinute, expected \in 0 .. LastRevision :
       Submit(c, a, op, activity, expected)
  \/ ReadRevision(c) \/ ReadLease(c) \/ DeleteExpired(c) \/ DeleteLease(c)
  \/ WriteLease(c) \/ SaveDraft(c) \/ Review(c) \/ Lose(c)

EditNext == Revise \/ MinutePasses \/ \E c \in Edit : EditStep(c)

EditSpec == EditInit /\ [][EditNext]_editVars

-----------------------------------------------------------------------------
(* Properties.                                                             *)

\* While an editor's lease runs, nobody else's call replaces or removes it, overwrites the
\* working draft or reviews the journal, but a takeover, or a call that read the lease
\* before it was this one: all the exclusion that reads and writes in separate
\* transactions can give (review_collaboration_service.py 222-363)
OnlyStaleCallsIntrude ==
  [][\A c \in Edit :
       (/\ editLease # Unleased
        /\ minute < editLease.expires
        /\ edit'[c] # edit[c]
        /\ <<revision, editLease, draft>>' # <<revision, editLease, draft>>)
       => \/ edit[c].editor = editLease.owner
          \/ edit[c].op = "takeover"
          \/ edit[c].seen \notin {editLease, Unread}]_editVars
=============================================================================
