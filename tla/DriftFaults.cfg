SPECIFICATION Spec
CONSTANTS
  old = old
  out = out
  policy = policy
  reader = reader
  ids = ids
  none = none
  NoTarget = NoTarget
  NoLabel = none
  Targets <- Assignments
  Labels <- Texts
  Label <- TextOf
  RawLabel <- Unresolved
  Spelling <- AsAsked
  Asked = {}
  Forms = {}
  Existing <- Initially
  Guids = {}
  Outside <- InPortal
  GlobalAdmins = {}
  AdminText = {}
  CaPolicies <- Initially
  Guardable = {}
  MinGlobalAdmins = 0
  BreakGlass = {}
  FaultKinds = {"crash", "source", "db", "names"}
  MaxFaults = 1
  MaxRequests = 2
  MaxIntake = 2
  Inputs = {"collect", "mark"}
  PolicyChanges = {}
INVARIANTS
  NoPhantomDrift
  OneOpenRowPerTarget
PROPERTIES
  RemovalAuthorised
