CONSTANTS
  Clerks = {c1, c2}
  Jobs = {j1, j2}
  MaxAttempts = 2
  MaxVersion = 2
  MaxAsks = 1
  MaxTrouble = 2
SPECIFICATION Spec
INVARIANTS
  TypeOK
  PushedIsThere
  PendingIsCarried
PROPERTIES
  NewestStays
  PendingSettles
