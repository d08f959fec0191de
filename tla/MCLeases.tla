------------------------------- MODULE MCLeases -------------------------------
(***************************************************************************)
(* The components that lend something for a time or lock it - a schedule   *)
(* and a request, the identities of an invoice, a slot of the pool, a      *)
(* journal - and share no state: focus chooses the one that a behaviour    *)
(* explores.                                                               *)
(***************************************************************************)
EXTENDS QnbSync, SourceIntake, GeminiPool, EditLeases, TLC

VARIABLE focus

leasesVars == <<syncVars, intakeVars, poolVars, editVars, focus>>

\* The UBL of two invoices, the first in two renditions, and a PDF of the first
Contents == {"ubl 1", "ubl 1 again", "pdf 1", "ubl 2"}
EttnOfContent == "ubl 1" :> "e1" @@ "ubl 1 again" :> "e1" @@ "pdf 1" :> "e1" @@ "ubl 2" :> "e2"

\* The first invoice listed in full, or by its key; the second by its ETTN, or with a key
\* that is that of the first
Summaries ==
  {[content |-> "ubl 1",       ettn |-> "e1",    key |-> "k1"],
   [content |-> "ubl 1 again", ettn |-> Nothing, key |-> "k1"],
   [content |-> "ubl 2",       ettn |-> "e2",    key |-> Nothing],
   [content |-> "ubl 2",       ettn |-> "e2",    key |-> "k1"]}

-----------------------------------------------------------------------------
\* A synchronisation nobody looks at is switched off
LeasesInit ==
  /\ focus \in {"synchronisation", "intake", "pool", "editing"}
  /\ SyncInit /\ IntakeInit /\ PoolInit /\ EditInit
  /\ focus # "synchronisation" => ~policy.enabled

LeasesNext ==
  /\ UNCHANGED focus
  /\ \/ focus = "synchronisation" /\ SyncNext /\ UNCHANGED <<intakeVars, poolVars, editVars>>
     \/ focus = "intake" /\ IntakeNext /\ UNCHANGED <<syncVars, poolVars, editVars>>
     \/ focus = "pool" /\ PoolNext /\ UNCHANGED <<syncVars, intakeVars, editVars>>
     \/ focus = "editing" /\ EditNext /\ UNCHANGED <<syncVars, intakeVars, poolVars>>

LeasesSpec == LeasesInit /\ [][LeasesNext]_leasesVars

\* Synchronisations, deliveries and calls of editors have the same names, so that they are
\* permuted at once; editors are interchangeable as well
Symmetry == Permutations(Syncer) \cup Permutations(Editor)
=============================================================================
