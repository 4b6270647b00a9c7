SPECIFICATION Spec
CONSTANTS
  Players = {p1, p2}
  NoPlayer = NoPlayer
  Detections <- MCDetections
  WindowSize = 2
  MaxFrames = 7
INVARIANTS TypeOK ShotsAreApproaches PossessionChain DribbleIsExpiredShot StatsMatchEvents
SYMMETRY MCSymmetry
CHECK_DEADLOCK FALSE
