CONSTANTS
  o1 = o1
  y1 = y1
  y2 = y2
  NoRecord = NoRecord
  Records <- MCRecords
  Entities <- MCEntities
  EntityOf <- MCEntityOf
  Needs <- MCNeeds
  Refused = {}
  Overlap = 1
  Lag = 1
  MaxAttempts = 2
  MaxStamp = 4
  StampsOf <- LaterStampsOf
  MaxBreaks = 0
SPECIFICATION Spec
INVARIANT NewestNotLost
