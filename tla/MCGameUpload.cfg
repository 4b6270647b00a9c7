SPECIFICATION FairSpec
CONSTANTS
  short = short
  long = long
  Videos <- MCVideos
  NoVideo = NoVideo
  Length <- MCLength
  MaxSubmits = 2
INVARIANTS TypeOK SuccessIsStored PlaysFetched
PROPERTIES UploadEnds
CHECK_DEADLOCK FALSE
