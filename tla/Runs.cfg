SPECIFICATION Spec
CONSTANTS
  s1 = s1
  s2 = s2
  direct = direct
  inherited = inherited
  policy = policy
  NoCall = NoCall
  Configs <- CollectorOnly
  OpenTries = 1
  MaxStarts = 1
  MaxOutages = 0
  Fresh = {}
  Old = {}
  MaxAttempts = 2
  MaxLate = 0
  CSubs = {s1, s2}
  EntraLists = {"policies"}
  Items = {direct, inherited, policy}
  Places <- PlacesOfItems
  AtStart = {direct, inherited}
  MaxChanges = 1
INVARIANTS
  RunIsTruthful
  PageReportsChanges
CHECK_DEADLOCK FALSE
