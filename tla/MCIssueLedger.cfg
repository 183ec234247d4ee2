SPECIFICATION Spec
CONSTANTS
  a1 = a1
  a2 = a2
  Actors = {a1, a2}
  EscalateAfter = 2
  MaxTickets = 2
  MaxChecks = 4
  MaxUpsets = 1
SYMMETRY Symmetry
INVARIANTS TypeOK TicketsRemembered RejectedIsFinal ResolvedIsVerified
CHECK_DEADLOCK FALSE
