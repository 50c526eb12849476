SPECIFICATION Spec
CONSTANTS
  s1 = s1
  r1 = r1
  r2 = r2
  r3 = r3
  r4 = r4
  Sites = {s1}
  Requests = {r1, r2, r3, r4}
  SiteOf <- OneSite4
  Limits <- MCLimits
  MaxAllocFailures = 1
SYMMETRY RequestSymmetry4
INVARIANTS WorkConserving SlotsExact ExactlyOneOutcome
PROPERTIES NoOvertaking LimitRespected
CHECK_DEADLOCK FALSE
