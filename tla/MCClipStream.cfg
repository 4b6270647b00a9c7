SPECIFICATION StreamSpec
CONSTANTS
  BatchSize = 3
  MaxFrames = 6
  MaxSessions = 2
  NoFrame = NoFrame
  Clear = Clear
INVARIANTS WholeClip ClipOnDisk
PROPERTY EveryBatchSettles
