CONSTANTS
  Leads = {l1}
  Jobs = {j1, j2}
  MaxAttempts = 2
  Day = 2
  Delay = 1
  MaxAsks = 2
  MaxTrouble = 2
SPECIFICATION Spec
PROPERTY ResentOnce
