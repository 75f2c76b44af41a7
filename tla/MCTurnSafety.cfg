\* Two turns of one conversation, every kind of call, an operator toggling a block.
SPECIFICATION FairSpec
CONSTANTS
  Null = Null
  Wildcard = Wildcard
  NotOpen = NotOpen
  RuleIds <- MCIds
  t1 = t1
  t2 = t2
  c1 = c1
  Turns <- MCTurns
  Convs <- MCConv
  conversation <- MCShared
  Calls <- MCAllCalls
  MaxSteps = 1
  SemanticGuard = TRUE
  InitialRules <- MCRules
  Toggleable = {"block"}
  Threshold = 1
  Cooldown = 1
  MaxRestarts = 0
INVARIANTS
  TrailTellsAStory
  EmittedIsAudited
  RunningCallsRespectRules
PROPERTY EveryTurnEnds
