SPECIFICATION FairSpec
CONSTANTS
  Users = {ann, nobody}
  Nobody = Nobody
  MaxPending = 2
  MaxWrites = 3
  MaxEvents = 2
INVARIANTS TypeOK OwnCredentials ResultsCorrelate ServerEndsWithLast
PROPERTIES QueueSpec WritesSettle
CHECK_DEADLOCK FALSE
