SPECIFICATION Spec
CONSTANTS
  MaxSubs = 2
  MaxGiven = 0
  MaxChanges = 0
  MaxRepeats = 0
INVARIANT PayingIsServed
CHECK_DEADLOCK FALSE
