SPECIFICATION FairSpec

CONSTANTS
  Invoice = {i1}
  Key = {k1, k2}
  Approver = {p1}
  Sender = {s1, s2}
  Reconciler = {r1, r2}
  Number = {n1}
  numberOf <- OwnNumber
  None = None
  StoreFaults = TRUE

ACTION_CONSTRAINT StartsInOrder

INVARIANTS
  RequestOnRecord
  SentIsAccepted
  OneSubmission
  OpenAttemptIsReachable
  SourceIsConfirmedSale

PROPERTIES
  VerdictIsFinal
  OnlyOwnerEndsReconciliation
  ImplementsDispatch
  CallsEnd
  RequestCanBeReconciled

CHECK_DEADLOCK FALSE
