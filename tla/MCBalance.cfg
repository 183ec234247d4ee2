SPECIFICATION Spec
CONSTANTS
  r1 = r1
  r2 = r2
  s1 = s1
  s2 = s2
  w1 = w1
  w2 = w2
  w3 = w3
  None = None
  Runs = {r1, r2}
  Sessions = {s1, s2}
  Workers = {w1, w2, w3}
  Credit = 2
  Lifetime = FALSE
  Estimate = 1
  Price <- MCPrice
  Amount <- MCAmount
  LastMonth = 1
  MaxStops = 1
SYMMETRY Symmetry
INVARIANTS TypeOK TakenOnce OverspendBounded BalanceMatchesRows
PROPERTIES LedgerSpec
CHECK_DEADLOCK FALSE
