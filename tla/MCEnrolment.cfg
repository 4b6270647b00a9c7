SPECIFICATION EnrolmentSpec
CONSTANTS
  Names = {ann}
  Train = Train
  MaxRecordings = 1
  MaxRequests = 4
  Residents = {my_vid}
  Splits = {"train"}
  Sightings = {"person"}
  Length = 1
  MaxTrainings = 1
PROPERTY TrainsOnLastUpload
CHECK_DEADLOCK FALSE
