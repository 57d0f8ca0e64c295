SPECIFICATION FairSpec
CONSTANTS
  g1 = g1
  g2 = g2
  reader = reader
  none = none
  NoTarget = NoTarget
  NoLabel = none
  Targets <- TwoGuids
  Labels <- Texts
  Label <- TextOf
  RawLabel <- TextOf
  Spelling <- AsAsked
  Asked <- Requested
  Forms = {}
  Existing = {}
  Guids <- TwoGuids
  Outside = {}
  GlobalAdmins = {}
  AdminText = {}
  CaPolicies = {}
  Guardable = {}
  MinGlobalAdmins = 0
  BreakGlass = {}
  FaultKinds = {"crash"}
  MaxFaults = 1
  MaxRequests = 3
  MaxIntake = 1
  Inputs = {"grant"}
  PolicyChanges = {}
PROPERTIES
  TimeBoundAccessIsSwept
