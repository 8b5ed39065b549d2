SPECIFICATION Spec
CONSTANTS
  root = root
  ann = ann
  bob = bob
  Requests = {r1, r2, r3, r4}
  Users = {root, ann, bob}
  FirstRoles <- AdminAndUser
  RoleIds = {1, 2, 3}
  Names = {"user", "admin", "guest"}
  FirstNames <- TwoRoles
  MaxRoleChanges = 1
  NoUser = NoUser
  NoRequest = NoRequest
  NoRole = NoRole
  NoName = NoName
SYMMETRY Symmetry
INVARIANTS
  OneRolePerAccount
  LinkIsSpent
  SpentWithChange
CHECK_DEADLOCK FALSE
