SPECIFICATION Spec
CONSTANTS
  g1 = g1
  g2 = g2
  reader = reader
  none = none
  NoTarget = NoTarget
  NoLabel = none
  Targets <- Assignments
  Labels <- Texts
  Label <- TextOf
  RawLabel <- TextOf
  Spelling <- AsAsked
  Asked <- Requested
  Forms = {}
  Existing = {}
  Guids <- Assignments
  Outside = {}
  GlobalAdmins = {}
  AdminText = {}
  CaPolicies = {}
  Guardable = {}
  MinGlobalAdmins = 0
  BreakGlass = {}
  FaultKinds = {}
  MaxFaults = 0
  MaxRequests = 3
  MaxIntake = 2
  Inputs = {"grant", "mark", "collect"}
  PolicyChanges = {}
INVARIANTS
  ExpiredMeansQueued
