SPECIFICATION Spec
CONSTANTS
  ada = ada
  sam = sam
  s1 = s1
  reader = reader
  Global = Global
  NoRole = NoRole
  Users <- TwoUsers
  Subs = {s1}
  Bootstrap = {ada}
  RoleRows <- SamsRows
  MaxEdits = 2
  Roles = {reader}
  Deprecated = {}
  Allowed = {}
  Denied = {}
  Definitions <- SomeDefinitions
  FirstSeen <- AllWorkers
  PolicyInputs <- SomePolicies
  MaxAsks = 1
  DayInputs = {0, 150000}
INVARIANTS
  TypeOK
PROPERTIES
  DecidedWithAuthority
  RolesAreDelegated
  GrantedWithinTier
