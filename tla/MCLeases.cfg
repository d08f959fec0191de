SPECIFICATION LeasesSpec

CONSTANTS
  Syncer = {w1, w2}
  NoOne = NoOne
  Gone = Gone
  LastInvoice = 2
  Poisons = {{2}}
  PageSize = 2
  MaxPages = 2
  MaxDocuments = 1
  MaxRequests = 1
  MaxSaves = 1
  MaxFaults = 1
  Thread = {p1, p2}
  SlotCount = 2
  Cooldown = 1
  LastTime = 1
  MaxDispatches = 3
  Editor = {a1, a2}
  Edit = {w1, w2}
  Nobody = Nobody
  Unleased = Unleased
  Unread = Unread
  Duration = 2
  LastMinute = 2
  LastRevision = 2
  Content <- Contents
  Xml = {"ubl 1", "ubl 1 again", "ubl 2"}
  Ettn = {"e1", "e2"}
  InvoiceKey = {"k1"}
  ettnOf <- EttnOfContent
  Summary <- Summaries
  Uploader = {u1}
  Deliverer = {w1, w2}
  Nothing = Nothing

SYMMETRY Symmetry

INVARIANTS
  NothingSkipped
  CallsAreCounted
  OneDocumentPerIdentity

PROPERTIES
  FinalAnswerStands
  SaveStands
  FailsOverToUntried
  OnlyStaleCallsIntrude

CHECK_DEADLOCK FALSE
