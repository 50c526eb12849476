SPECIFICATION Spec
CONSTANTS
  c1 = c1
  c2 = c2
  c3 = c3
  k1 = k1
  k2 = k2
  Conns = {c1, c2, c3}
  Keys = {k1, k2}
  KeyOf <- TwoKeys
  Ttls = {0, 2}
  MaximumIdle = {2}
  MaxTime = 3
  MaxNotifies = 2
INVARIANTS ClosedAtItsDeadline
