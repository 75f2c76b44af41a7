\* Two parked calls, two operators, timeouts of 1, 61 (more than setTimeout counts)
\* and the default 60, restarts.
SPECIFICATION FairSpec
CONSTANTS
  i1 = i1
  i2 = i2
  o1 = o1
  o2 = o2
  Null = Null
  Operators <- MCOperators
  Ids <- MCIds
  Rules <- MCRules
  MaxDelay = 60
  MaxWait = 1
INVARIANTS
  AcceptedIsTheVerdict
  AllowIsJustified
  PendingIsAwaited
PROPERTY EveryParkSettles
