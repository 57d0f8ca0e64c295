SPECIFICATION FairSpec
CONSTANTS
  g1 = g1
  g2 = g2
  reader = reader
  none = none
  NoTarget = NoTarget
  NoLabel = none
  Targets <- TwoGuids
  Labels <- Texts
  Label <- TextOf
  RawLabel <- TextOf
  Spelling <- AsAsked
  Asked <- Requested
  Forms = {}
  Existing = {}
  Guids <- TwoGuids
  Outside = {}
  GlobalAdmins = {}
  AdminText = {}
  CaPolicies = {}
  Guardable = {}
  MinGlobalAdmins = 0
  BreakGlass = {}
  FaultKinds = {"crash", "lost", "db"}
  MaxFaults = 1
  MaxRequests = 5
  MaxIntake = 2
  Inputs = {"grant"}
  PolicyChanges = {}
INVARIANTS
  AccessNeedsApproval
  ExpiredHasRevoke
PROPERTIES
  RemovalAuthorised
  ApprovedIsTakenUp
  ExpiryIsSwept
