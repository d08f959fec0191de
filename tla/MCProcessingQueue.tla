-------------------------- MODULE MCProcessingQueue --------------------------
EXTENDS ProcessingQueue, TLC

\* Documents, worker slots and reprocess calls are interchangeable
Symmetry == Permutations(Doc) \cup Permutations(Worker) \cup Permutations(Requester)
=============================================================================
