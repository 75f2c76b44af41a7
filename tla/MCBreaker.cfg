\* Two servers, three turns, a threshold and a cooldown of two.
SPECIFICATION FairSpec
CONSTANTS
  s1 = s1
  s2 = s2
  c1 = c1
  c2 = c2
  c3 = c3
  Servers <- MCServers
  Callers <- MCThreeCallers
  Threshold = 2
  Cooldown = 2
  NotOpen = NotOpen
INVARIANTS
  OpenNeedsStreak
  LateFailuresBounded
PROPERTIES
  ClosesOnlyOnRecovery
  NeverCutOffForGood
