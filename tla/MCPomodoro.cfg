SPECIFICATION FairSpec
CONSTANTS
  None = None
  DebounceMs = 2
  HoldMs = 4
  DoubleClickMs = 2
  FocusMs = 3
  ShortBreakMs = 2
  LongBreakMs = 2
  LongBreakEvery = 2
  SpanCap = 11
  JingleMs = 2
  ChimeMs = 2
  PowerDebounceMs = 1
INVARIANTS
  EveryPressIsReportedOnce
PROPERTIES
  HoldsAreHeldUnlessDeaf
  CountdownOnlyFalls
  InputIsNeverShutOut
