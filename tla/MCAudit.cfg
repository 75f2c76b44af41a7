\* Four record() calls, three faults.
SPECIFICATION FairSpec
CONSTANTS
  e1 = e1
  e2 = e2
  e3 = e3
  e4 = e4
  GENESIS_HASH = GENESIS_HASH
  Null = Null
  Events <- MCEvents
  MaxFaults = 3
CHECK_DEADLOCK FALSE
INVARIANTS
  ChainVerifies
  FailsOnlyOnFault
PROPERTY ImplementsLog
PROPERTY EveryRecordSettles
