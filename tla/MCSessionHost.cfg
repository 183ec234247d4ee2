SPECIFICATION FairSpec
CONSTANTS
  r1 = r1
  r2 = r2
  c1 = c1
  c2 = c2
  c3 = c3
  i1 = i1
  i2 = i2
  i3 = i3
  i4 = i4
  None = None
  Runs = {r1, r2}
  Sockets = {c1, c2}
  Ids = {i1, i2, i3, i4}
INVARIANTS TypeOK OneVisitor TurnIsKept
PROPERTIES PersonUndisturbed LapsedIsEnded UpgradeAnswered
CHECK_DEADLOCK FALSE
