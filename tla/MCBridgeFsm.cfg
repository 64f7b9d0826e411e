SPECIFICATION FairSpec
CONSTANTS
  AttemptMax = 8
  CacheAnswers = TRUE
  MaxMishaps = 5
CHECK_DEADLOCK FALSE
INVARIANTS
  TypeOK
  EachStateAwaitsItsOperation
  OperationsAreReady
PROPERTIES
  BondTakesEvidence
  FirstRetryIsPrompt
  LinkComesBack
