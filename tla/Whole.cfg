SPECIFICATION Spec
CONSTANTS
  g1 = g1
  out = out
  reader = reader
  owner = owner
  none = none
  NoTarget = NoTarget
  NoLabel = none
  Targets <- Assignments
  Labels <- Texts
  Label <- TextOf
  RawLabel <- TextOf
  Spelling <- AsAsked
  Asked <- Requested
  Forms = {}
  Existing = {}
  Guids <- Provisioned
  Outside <- InPortal
  GlobalAdmins = {}
  AdminText = {}
  CaPolicies = {}
  Guardable <- Watched
  MinGlobalAdmins = 0
  BreakGlass = {}
  FaultKinds = {"sub"}
  MaxFaults = 1
  MaxRequests = 3
  MaxIntake = 1
  Inputs = {"grant", "collect"}
  PolicyChanges = {}
INVARIANTS
  OutOfBandReviewed
  OwnGrantsAreNotDrift
  ExpiredHasRevoke
PROPERTIES
  GuardedNeverRevoked
