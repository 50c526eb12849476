SPECIFICATION FairReloadSpec
CONSTANTS
  s1 = s1
  s2 = s2
  r1 = r1
  r2 = r2
  r3 = r3
  Sites = {s1, s2}
  Requests = {r1, r2, r3}
  SiteOf <- MCSiteOf
  Limits <- MCLimits
  MaxAllocFailures = 1
  Configs <- MCConfigs
  MaxReloads = 2
INVARIANTS CommitTakesHold
PROPERTIES EventuallyAnswered
CHECK_DEADLOCK FALSE
