\* Two seeders and a crash; every kind of rule, three at a time, in all orders.
SPECIFICATION Spec
CONSTANTS
  Null = Null
  Wildcard = Wildcard
  RuleIds <- MCIds
  DEMO_RULES <- MCDemo
  NewRules <- MCNewRules
  Proposals <- MCProposals
  Usages <- MCUsages
  Seeders = {"server", "script"}
  MaxRows = 3
  MaxCrashes = 1
INVARIANTS
  VerdictIsHonest
  SeedingIsAllOrNothing
