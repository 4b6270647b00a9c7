SPECIFICATION Spec
CONSTANTS
  Names = {ann, bob}
  Train = Train
  MaxPlayers = 2
  MaxRecordings = 2
  MaxRequests = 2
PROPERTY UploadIsOfCurrentPlayer
