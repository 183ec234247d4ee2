SPECIFICATION FairSpec
CONSTANTS
  MaxReruns = 2
  MaxThrows = 2
  MaxOutages = 1
  MaxMissed = 1
INVARIANTS TypeOK ToldVerdictStands FailedIsFree FinishedIsPriced UncutIsAnswered
PROPERTIES TerminalIsFinal InFlightEnds
CHECK_DEADLOCK FALSE
