SPECIFICATION Spec
CONSTANTS
  None = None
  Sessions = {s1, s2}
  CountMax = 1
  TokenMax = 2
  MaxRaises = 1
  MaxSpent = 3
  MaxLeapt = 1
INVARIANTS
  NeverOverCredits
