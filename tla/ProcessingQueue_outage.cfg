SPECIFICATION Spec

CONSTANTS
  Doc = {d1, d2}
  Worker = {w1, w2}
  Requester = {}
  None = None
  Directed = {TRUE}
  Faults = {"transient"}
  MaxAttempts = 2

SYMMETRY Symmetry

INVARIANTS
  OnlyErrorsFail

CHECK_DEADLOCK FALSE
