CONSTANTS
  Leads = {l1}
  Jobs = {j1, j2}
  MaxAttempts = 2
  Day = 2
  Delay = 1
  MaxAsks = 2
  MaxTrouble = 3
SPECIFICATION Spec
INVARIANTS
  TypeOK
  OneSender
  CarriedOn
PROPERTIES
  AcceptedNotResent
  Delivers
