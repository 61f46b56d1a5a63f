CONSTANTS
  Procs = {a}
  p1 = p1
  r1 = r1
  p2 = p2
  Payments <- MCPayments
  Synced <- MCSynced
  PaidAt <- MCPaidAt
  Share <- MCShare
  Periods <- MCMonths
  Months <- MCMonths
  MaxStatements = 2
  MaxCarry = 1
  MaxMoney = 6
SPECIFICATION Spec
INVARIANT RefundDeductedOnce
