CONSTANTS
  Hands = {h1}
  MaxTasks = 5
  Until = 3
  MaxEdits = 0
  MaxDeletes = 1
  MaxMishaps = 0
INIT RecurrenceInit
NEXT RecurrenceNext
PROPERTY NeverTwice
CHECK_DEADLOCK FALSE
