\* Two badges, two key pairs, one alteration.
SPECIFICATION Spec
CONSTANTS
  Badges = {a1, a2}
  Contents = {"ALLOW", "DENY"}
  Null = Null
  Undefined = Undefined
  Torn = Torn
  MaxKeys = 2
  MaxAlterations = 1
SYMMETRY Symmetry
INVARIANTS
  ValidMeansSigned
  InvalidIsExplained
CHECK_DEADLOCK FALSE
