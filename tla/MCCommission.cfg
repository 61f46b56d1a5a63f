CONSTANTS
  Procs = {a, b}
  p1 = p1
  r1 = r1
  p2 = p2
  Payments <- MCPayments
  Synced <- MCSynced
  PaidAt <- MCPaidAt
  Share <- MCShare
  Periods <- OneMonth
  Months <- OneMonth
  MaxStatements = 2
  MaxCarry = 1
  MaxMoney = 6
SPECIFICATION Spec
SYMMETRY ProcSymmetry
INVARIANTS
  TypeOK
  OneLiveStatement
  SupersedeChain
  WinnerIsThere
  TotalIsTheLines
PROPERTIES
  KeepsLedger
