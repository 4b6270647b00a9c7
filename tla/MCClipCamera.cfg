SPECIFICATION FairSpec
CONSTANTS
  BatchSize = 3
  MaxFrames = 6
  MaxSessions = 3
  NoFrame = NoFrame
  Clear = Clear
INVARIANTS TypeOK FramesInOrder AtMostOneStale
PROPERTIES OnlyEndedSessionsCleared FeedSpec StopDrains
