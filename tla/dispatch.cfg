SPECIFICATION DispatchSpec
CHECK_DEADLOCK FALSE
SYMMETRY Symmetry
CONSTANTS
  Workers = {w1, w2}
  Peers = {p1, p2, p3}
  Traffic <- MCTraffic
  Configs <- MCConfigs
  Sites <- MCSites
  SiteSpec <- MCSiteSpec
  Clients <- MCClients
  MaxClock = 8
  MaxChecks = 4
  TicksPerSecond = 2
  MaxEntries = 2
  CleanupPeriod = 4
  Unparsable = "unparsable"
  MaximumChain = 64
  FutureSkew = 1
INVARIANTS
  TableSound
PROPERTIES
  ExactBucket
  RefusalHonest
  HandedOverSoundly
