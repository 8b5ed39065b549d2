SPECIFICATION FairSpec
CONSTANTS
  r1 = r1
  r2 = r2
  r3 = r3
  p1 = p1
  NoName = NoName
  Deleted = Deleted
  NoUser = NoUser
  Health = Health
  Requests = {k1, k2}
  Users = {u1}
  RoleIds = {r1, r2, r3}
  PermissionIds = {p1, p2}
  SeedRoles <- RolesOfMigration
  Seeded = {p1}
  SeedGrants <- AdminGrants
  SeedUsers <- UserIsUser
  Names = {"guest", "user"}
  MaxChanges = 2
  Services = {"hotel", "notification"}
  AdminOnly = {"notification"}
INVARIANTS
  NoOrphans
  OnlyWithRole
  HealthyWasUp
PROPERTIES
  AllAnswered
CHECK_DEADLOCK FALSE
