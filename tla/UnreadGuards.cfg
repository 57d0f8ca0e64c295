SPECIFICATION Spec
CONSTANTS
  g1 = g1
  out = out
  reader = reader
  owner = owner
  none = none
  NoTarget = NoTarget
  NoLabel = none
  Targets <- Assignments
  Labels <- Texts
  Label <- TextOf
  RawLabel <- TextOf
  Spelling <- AsAsked
  Asked <- Requested
  Forms = {}
  Existing = {}
  Guids <- Provisioned
  Outside <- InPortal
  GlobalAdmins = {}
  AdminText = {}
  CaPolicies = {}
  Guardable <- Watched
  MinGlobalAdmins = 0
  BreakGlass = {}
  FaultKinds = {"db"}
  MaxFaults = 1
  MaxRequests = 2
  MaxIntake = 0
  Inputs = {"collect"}
  PolicyChanges = {}
PROPERTIES
  GuardedNeverRevoked
