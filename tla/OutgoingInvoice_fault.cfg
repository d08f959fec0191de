SPECIFICATION Spec
CONSTANTS
  Invoice = {i1}
  Key = {k1, k2}
  Approver = {p1}
  Sender = {s1}
  Reconciler = {r1}
  Number = {n1}
  numberOf <- OwnNumber
  None = None
  StoreFaults = TRUE
CHECK_DEADLOCK FALSE
INVARIANT FailedIsNotAccepted
