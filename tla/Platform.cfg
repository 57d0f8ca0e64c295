SPECIFICATION Spec
CONSTANTS
  n1 = n1
  s1 = s1
  s2 = s2
  direct = direct
  NoCall = NoCall
  Configs <- SomeConfigs
  OpenTries = 2
  MaxStarts = 2
  MaxOutages = 1
  Fresh = {n1}
  Old = {}
  MaxAttempts = 2
  MaxLate = 0
  CSubs = {s1, s2}
  EntraLists = {}
  Items = {direct}
  Places <- PlacesOfItems
  AtStart = {direct}
  MaxChanges = 1
INVARIANTS
  PlatformTypeOK
PROPERTIES
  CallIsOneShot
  StoredIsKept
  StartingEnds
  ProcessesComeBack
  ShutdownCompletes
  CallsEnd
CHECK_DEADLOCK FALSE
