SPECIFICATION Spec

CONSTANTS
  Run = {w1, w2}
  Call = {c1, c2}
  None = None
  MaxRevision = 4

PROPERTIES
  ManualWorkStands

CHECK_DEADLOCK FALSE
