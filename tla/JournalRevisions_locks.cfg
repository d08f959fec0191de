SPECIFICATION FairSpec

CONSTANTS
  Run = {w1, w2}
  Call = {c1, c2}
  None = None
  MaxRevision = 3

INVARIANTS
  RevisionsAgree
  ExportIsShown
PROPERTIES
  ApprovedStands
  ImplementsStore
  AllEnd

CHECK_DEADLOCK FALSE
