SPECIFICATION Spec
CONSTANTS
  p1 = p1
  p2 = p2
  p3 = p3
  r1 = r1
  r2 = r2
  i1 = i1
  Persons = {p1, p2, p3}
  Founder = p1
  Requests = {r1, r2}
  Invites = {i1}
  Included = 1
  MaxSubs = 0
  MaxStops = 0
SYMMETRY Symmetry
INVARIANT TeamHasAdmin
CHECK_DEADLOCK FALSE
