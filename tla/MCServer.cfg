SPECIFICATION FairSpec
CONSTANTS
  DryRaw = 1
  WetRaw = 3
  MaxReading = 4
  MaxAge = 1
  Conns = {c1, c2}
  NoGuest = NoGuest
  MaxConnections = 1
  IdleLimit = 2
  MaxParts = 1
  Raws = {0, 3}
INVARIANTS
  SlotsAreCounted
  NothingIsAssumedSent
  DrainedIsDrained
PROPERTIES
  KnockEndsTheServer
  WedgedClientsAreReaped
  SubscribersCatchUp
