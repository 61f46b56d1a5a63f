CONSTANTS
  Editors = {r1, r2}
  Lines = {a, b}
  Prices = {1, 2}
  Snapshot = 5
  ByHand = 7
  Requests = {r1, r2}
  MaxOrders = 2
  MaxBatches = 2
  MaxRecords = 3
  MaxValue = 2
  MaxOthers = 1
  ScanJobs = {s1, s2}
  ScanAttempts = 2
  MaxFaults = 3
  Hands = {h1}
  MaxTasks = 3
  Until = 3
  MaxEdits = 1
  MaxDeletes = 1
  MaxMishaps = 1
  Reviewers = {r1, r2}
  Headers = {q1, q2, q3}
  Outside = {q3}
  Items = {i1, i2, i3, i4}
  Enrolled = {e1}
  Of <- MCOf
  KeysOf <- MCKeysOf
  MailOf <- MCMailOf
  Desks = {r1, r2}
  MaxPapers = 3
  MaxNumber = 2
  Admins = {r1, r2}
  Rates = {0, 1}
  LastDay = 3
  MaxChanges = 3
  q1 = q1
  q2 = q2
  q3 = q3
  i1 = i1
  i2 = i2
  i3 = i3
  i4 = i4
  e1 = e1
SPECIFICATION OfficeSpec
CONSTRAINTS NoSlip FewEvents Tidy OutsideApart Uncrossed
SYMMETRY MCSymmetry
INVARIANTS
  OfficeTypeOK
  TotalAgrees
  SnapshotKept
  AcceptedHasOrder
  OneOrderPerDeal
  NeverDiesAlone
  OnlyCleanLeaves
  GivenOnce
  WaitingIsCarried
  OneSeries
  HeaderAgrees
  OneCardEach
  OneActingPaper
  BasisAsPrinted
  RateAsAgreed
PROPERTIES
  DealKept
  RollbackUndoes
  TakesNothingAlong
CHECK_DEADLOCK FALSE
