SPECIFICATION EnrolmentSpec
CONSTANTS
  Names = {ann, bob}
  Train = Train
  MaxRecordings = 1
  MaxRequests = 3
  Residents = {my_vid}
  Splits = {"train"}
  Sightings = {"person"}
  Length = 1
  MaxTrainings = 1
PROPERTY EveryPlayerTrained
CHECK_DEADLOCK FALSE
