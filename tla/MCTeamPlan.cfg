SPECIFICATION Spec
CONSTANTS
  MaxSubs = 3
  MaxGiven = 3
  MaxChanges = 1
  MaxRepeats = 1
CONSTRAINT Waiting
INVARIANTS TypeOK PlanInStep
CHECK_DEADLOCK FALSE
