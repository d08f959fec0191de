-------------------------- MODULE MCJournalRevisions --------------------------
(* Instances of JournalRevisions for TLC. *)
EXTENDS JournalRevisions, TLC

Symmetry == Permutations(Run) \cup Permutations(Call)
=============================================================================
