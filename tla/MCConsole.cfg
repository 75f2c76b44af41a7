\* Two turns, two sessions, timeouts of 0 and 1, two broken connections or restarts.
SPECIFICATION ConsoleSpec
CONSTANTS
  t1 = t1
  t2 = t2
  None = None
  Turns <- MCTurns
  MaxSteps = 1
  Tools <- MCTools
  toolName <- MCToolName
  Timeouts = {0, 1}
  MaxProposals = 1
  MaxSessions = 2
  MaxLosses = 2
SYMMETRY MCSymmetry
CHECK_DEADLOCK FALSE
INVARIANTS
  RowsAreAccurate
  PendingIsAnswerable
  RowsOfThisSession
  RunningIsExplained
