CONSTANTS
  Procs = {a}
  p1 = p1
  r1 = r1
  p2 = p2
  Payments <- MCPayments
  Synced <- MCSynced
  PaidAt <- MCPaidAt
  Share <- MCShare
  Periods <- ThreeMonths
  Months <- ThreeMonths
  MaxStatements = 3
  MaxCarry = 2
  MaxMoney = 6
SPECIFICATION Spec
INVARIANT CarriedOnce
