SPECIFICATION LiveSpec
CONSTANTS
  Requests = {r1, r2}
  BatchSize = 2
PROPERTY AnsweredIsOnDisk
CHECK_DEADLOCK FALSE
