SPECIFICATION Spec
CONSTANTS
  g1 = g1
  g2 = g2
  ga1 = ga1
  ga2 = ga2
  reader = reader
  admin = admin
  account = account
  none = none
  NoTarget = NoTarget
  NoLabel = none
  Targets <- Assignments
  Labels <- Texts
  Label <- TextOf
  RawLabel <- TextOf
  Spelling <- AsAsked
  Asked <- Requested
  Forms <- OldForms
  Existing <- Admins
  Guids <- Provisioned
  Outside = {}
  GlobalAdmins <- Admins
  AdminText <- AdminTexts
  CaPolicies = {}
  Guardable <- Watched
  MinGlobalAdmins = 1
  BreakGlass <- Accounts
  FaultKinds = {"crash", "lost"}
  MaxFaults = 2
  MaxRequests = 2
  MaxIntake = 2
  Inputs = {"grant", "mark"}
  PolicyChanges = {"tier", "guard"}
SYMMETRY Symmetry
INVARIANTS
  TypeOK
  OneAssignmentPerGrant
  GlobalAdminFloor
PROPERTIES
  FollowsLifecycle
