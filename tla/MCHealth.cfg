SPECIFICATION FairSpec
CONSTANTS
  Registered = 2
  Board = Board
  Healthy = Healthy
  AckCapacity = 2
  Cadence = 1
  Deadline <- MCDeadline
  Readings = {0, 1}
  HeapFloor = 1
INVARIANTS
  NamesTheWorst
PROPERTIES
  SilencedStaysSilent
  UnsilencedIsHeard
