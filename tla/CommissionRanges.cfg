CONSTANTS
  Procs = {a, b}
  p1 = p1
  r1 = r1
  p2 = p2
  Payments <- Incomes
  Synced <- NoneSynced
  PaidAt <- IncomePaidAt
  Share <- IncomeShare
  Periods <- TwoRanges
  Months <- OneMonth
  MaxStatements = 3
  MaxCarry = 1
  MaxMoney = 6
SPECIFICATION Spec
SYMMETRY ProcSymmetry
INVARIANTS
  LivePeriodsDisjoint
  
