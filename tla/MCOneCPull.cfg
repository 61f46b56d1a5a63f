CONSTANTS
  o1 = o1
  y1 = y1
  y2 = y2
  NoRecord = NoRecord
  Records <- MCRecords
  Entities <- MCEntities
  EntityOf <- MCEntityOf
  Needs <- MCNeeds
  Refused = {}
  Overlap = 1
  Lag = 1
  MaxAttempts = 2
  MaxStamp = 3
  StampsOf <- MCStampsOf
  MaxBreaks = 1
SPECIFICATION Spec
INVARIANTS
  TypeOK
  AccountedFor
PROPERTIES
  NeverForgotten
  BacklogDrains
