SPECIFICATION Spec
CONSTANTS
  h1 = h1
  h2 = h2
  h3 = h3
  s1 = s1
  s2 = s2
  None = None
  Hooks = {h1, h2, h3}
  Sessions = {s1, s2}
  SessionOf <- MCSessionOf
  CountMax = 1
  TokenMax = 3
INVARIANTS
  ShownPromptIsAnswerable
  EveryWaiterHasOnePrompt
  NothingPendsUnbonded
  CountAgreesWithPrompt
PROPERTIES
  CompletionIsEmitted
  SerialApprovalsStayUp
  SerialGlassShowsTheNewest
