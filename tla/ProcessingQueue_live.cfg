SPECIFICATION FairSpec

CONSTANTS
  Doc = {d1}
  Worker = {w1, w2}
  Requester = {q1}
  None = None
  Directed = {TRUE}
  Faults = {"transient", "store", "crash"}
  MaxAttempts = 3


PROPERTIES
  JobSettles

CHECK_DEADLOCK FALSE
