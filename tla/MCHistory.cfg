\* Three turns of one conversation, one restart.
SPECIFICATION Spec
CONSTANTS
  Turns = {t1, t2, t3}
  MaxSteps = 1
  MaxRestarts = 1
SYMMETRY Symmetry
INVARIANTS
  HistoryThreads
  UndisturbedIsAccepted
  TallyMatchesHistory
CHECK_DEADLOCK FALSE
