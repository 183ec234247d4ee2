SPECIFICATION Spec
CONSTANTS
  s1 = s1
  s2 = s2
  t1 = t1
  t2 = t2
  Starters = {s1}
  Tabs = {t1}
  MaxFaults = 1
  MaxStops = 0
INVARIANTS PaidRowKept
CHECK_DEADLOCK FALSE
