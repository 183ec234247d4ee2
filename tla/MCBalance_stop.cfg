SPECIFICATION Spec
CONSTANTS
  r1 = r1
  r2 = r2
  s1 = s1
  s2 = s2
  w1 = w1
  w2 = w2
  w3 = w3
  None = None
  Runs = {r1}
  Sessions = {s1}
  Workers = {w1, w2}
  Credit = 2
  Lifetime = FALSE
  Estimate = 1
  Price <- MCPrice
  Amount <- MCAmount
  LastMonth = 0
  MaxStops = 1
SYMMETRY Symmetry
INVARIANTS AckedIsCredited
CHECK_DEADLOCK FALSE
