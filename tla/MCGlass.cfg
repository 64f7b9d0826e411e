SPECIFICATION FairSpec
CONSTANTS
  OneG = 1000
  RestTolerance = 250
  InPlaneMinimum = 400
  QuadrantMargin = 200
  SettleMs = 2
  Anchors = {focus, rest}
  Values = {1, 2}
  Moving = {focus}
  Frames = 2
  Readings <- Poses
  MaxFaults = 1
INVARIANTS
  MemoryIsThePicture
PROPERTIES
  TurnsAreSettled
  GlassCatchesUp
