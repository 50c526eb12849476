SPECIFICATION FairSpec
CONSTANTS
  p1 = p1
  p2 = p2
  c1 = c1
  c2 = c2
  Ports = {p1, p2}
  TlsPorts = {p2}
  Plans <- GrowPlans
  Sessions = {c1, c2}
  MaximumConnections = 1
  Modulus = 8
  MaxReloads = 1
  MaxAllocFailures = 1
INVARIANTS AdmissionExact OpenSessionReachable ListenerNeverDeaf ListenersMatchSnapshot
PROPERTIES GateHoldsUntilPublished StopEnds DrainedListenerReclaimed
CHECK_DEADLOCK FALSE
