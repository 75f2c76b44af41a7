\* Three entries, four alterations of any kind.
SPECIFICATION AlterationSpec
CONSTANTS
  e1 = e1
  e2 = e2
  GENESIS_HASH = GENESIS_HASH
  Null = Null
  Events <- MCEvents
  MaxLength = 3
  MaxAlterations = 4
SYMMETRY MCSymmetry
CHECK_DEADLOCK FALSE
INVARIANTS
  HashCommitsToHistory
  BreakIsLocated
