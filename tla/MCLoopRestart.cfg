SPECIFICATION LoopSpec
CONSTANTS
  h1 = h1
  h2 = h2
  s1 = s1
  s2 = s2
  None = None
  Hooks = {h1, h2}
  Sessions = {s1, s2}
  SessionOf <- MCTwoSessions
  CountMax = 2
  TokenMax = 1
  Faults = {"drop", "refuse", "crash"}
  MaxFaults = 2
  MaxQueue = 1
CHECK_DEADLOCK FALSE
INVARIANTS
  NoHookIsStranded
  EveryVerdictWasPressed
