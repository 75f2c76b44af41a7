\* Two turns of one conversation under a budget of one call, one of the tools held.
SPECIFICATION Spec
CONSTANTS
  Null = Null
  Wildcard = Wildcard
  NotOpen = NotOpen
  RuleIds <- MCIds
  t1 = t1
  t2 = t2
  c1 = c1
  Turns <- MCTurns
  Convs <- MCConv
  conversation <- MCShared
  Calls <- MCTwoCalls
  MaxSteps = 2
  SemanticGuard = FALSE
  InitialRules <- MCBudgetHeld
  Toggleable = {}
  Threshold = 2
  Cooldown = 1
  MaxRestarts = 1
INVARIANTS
  EffectsWereAllowed
  OvershootBounded
  TallyIsOnRecord
