SPECIFICATION DeskSpec

CONSTANTS
  Syncer = {w1}
  NoOne = NoOne
  Gone = Gone
  LastInvoice = 3
  Poisons = {{}, {2}}
  PageSize = 2
  MaxPages = 2
  MaxDocuments = 1
  MaxRequests = 1
  MaxSaves = 1
  MaxFaults = 1
  Ticker = {t1, t2}
  s1 = s1
  s2 = s2
  Source = {s1, s2}
  periodOf <- PeriodOfSource
  LastPeriod = 2
  MaxCrashes = 1
  Actor = {a1, a2}
  Nobody = Nobody
  LastVersion = 2

INVARIANTS
  FilesGoOnSchedule
  OnlyRivalsBothActive

PROPERTIES
  DeletionCompletes
  NeverSilencedByActivation
  EveryInvoiceStored
  RequestsEnd

CHECK_DEADLOCK FALSE
