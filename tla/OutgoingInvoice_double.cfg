SPECIFICATION Spec
CONSTANTS
  Invoice = {i1}
  Key = {k1, k2}
  Approver = {p1, p2}
  Sender = {s1, s2}
  Reconciler = {r1}
  Number = {n1}
  numberOf <- OwnNumber
  None = None
  StoreFaults = FALSE
CHECK_DEADLOCK FALSE
INVARIANT OneSubmission
