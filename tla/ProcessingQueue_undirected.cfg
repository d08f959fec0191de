SPECIFICATION Spec

CONSTANTS
  Doc = {d1}
  Worker = {w1, w2}
  Requester = {}
  None = None
  Directed = {TRUE, FALSE}
  Faults = {"slow"}
  MaxAttempts = 2


PROPERTIES
  DocumentInOrder

CHECK_DEADLOCK FALSE
