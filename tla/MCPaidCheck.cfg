SPECIFICATION FairSpec
CONSTANTS
  s1 = s1
  s2 = s2
  t1 = t1
  t2 = t2
  Starters = {s1, s2}
  Tabs = {t1, t2}
  MaxFaults = 1
  MaxStops = 1
INVARIANTS TypeOK OneRunPerPayment RunSignsIn AckedIsServed RetryPerThrow
PROPERTIES PaidIsServed PasswordsLeave
CHECK_DEADLOCK FALSE
