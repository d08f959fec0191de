SPECIFICATION ProcessingSpec

CONSTANTS
  Doc = {d1}
  Worker = {w1, w2}
  Requester = {q1}
  None = None
  Directed = {TRUE}
  Faults = {"permanent", "transient", "store", "crash", "slow"}
  MaxAttempts = 3
  Rate = {0, 20}
  Evidence <- Invoices
  Draftable <- Drafts
  Proposals <- OneDiffers
  Output <- Answers
  NoDraft = NoDraft

SYMMETRY Symmetry

INVARIANTS
  OneRunPerAttempt
  CompletedHasResult
  ShownDoneHasResult
  ExactSplitIsWhole
  ExactDraftBalances
  ReportIsTrue

PROPERTIES
  JournalInOrder
  OwnRunCloses
  ImplementsTurns

CHECK_DEADLOCK FALSE
