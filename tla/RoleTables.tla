----------------------------- MODULE RoleTables -----------------------------
(***************************************************************************)
(* roles, permissions, role_permissions and user_roles of the AuthService, *)
(* changed by one statement (or one transaction) a request.  An answer     *)
(* without a change (a name that is taken, a row that is not there, an     *)
(* error) and the reads are no steps.                                      *)
(*                                                                         *)
(* Ids come from AUTO_INCREMENT: the id of a deleted row is not used again.*)
(***************************************************************************)
EXTENDS Integers

CONSTANTS
  Users, RoleIds, PermissionIds,
  SeedRoles,        \* the rows of the migration: ids to names
  Seeded,           \* its permissions
  SeedGrants,       \* its role_permissions, pairs of a role and a permission
  SeedUsers,        \* user_roles at the start
  Names,            \* names roles may be given later
  MaxChanges,       \* bound: changes of the tables
  NoName, Deleted   \* a row that was not inserted yet; one that was deleted

ASSUME TablesAssumption ==
  /\ DOMAIN SeedRoles \subseteq RoleIds
  /\ \A r \in DOMAIN SeedRoles : SeedRoles[r] \notin {NoName, Deleted}
  /\ Names \cap {NoName, Deleted} = {}
  /\ Seeded \subseteq PermissionIds
  /\ SeedGrants \subseteq (DOMAIN SeedRoles) \X Seeded
  /\ SeedUsers \subseteq Users \X (DOMAIN SeedRoles)
  /\ MaxChanges \in Nat

VARIABLES
  roleName,         \* roles.name
  permissions,      \* ids of the rows of permissions
  spent,            \* ids of permissions that are no longer free
  rolePermissions,  \* how many rows a role and a permission have
  userRoles,        \* pairs of a user and a role
  changes

tables == <<roleName, permissions, spent, rolePermissions, userRoles, changes>>

RoleIdsNow == {r \in RoleIds : roleName[r] \notin {NoName, Deleted}}
Taken == {roleName[r] : r \in RoleIdsNow}

RolesInit ==
  /\ roleName = [r \in RoleIds |-> IF r \in DOMAIN SeedRoles THEN SeedRoles[r]
                                   ELSE NoName]
  /\ permissions = Seeded /\ spent = Seeded
  /\ rolePermissions = [r \in RoleIds |-> [p \in PermissionIds |->
       IF <<r, p>> \in SeedGrants THEN 1 ELSE 0]]
  /\ userRoles = SeedUsers
  /\ changes = 0

Change == changes < MaxChanges /\ changes' = changes + 1

----------------------------------------------------------------------------
\* The name is UNIQUE
CreateRole(r, n) ==
  /\ Change
  /\ roleName[r] = NoName /\ n \notin Taken
  /\ roleName' = [roleName EXCEPT ![r] = n]
  /\ UNCHANGED <<permissions, spent, rolePermissions, userRoles>>

\* Fault: role_permissions has no foreign key to roles
DeleteRoleOnly(r) ==
  /\ Change
  /\ r \in RoleIdsNow
  /\ roleName' = [roleName EXCEPT ![r] = Deleted]
  /\ userRoles' = {ur \in userRoles : ur[2] # r}
  /\ UNCHANGED <<permissions, spent, rolePermissions>>

\* ON DELETE CASCADE takes the rows that refer to it
DeleteRoleById(r) ==
  /\ Change
  /\ r \in RoleIdsNow
  /\ roleName' = [roleName EXCEPT ![r] = Deleted]
  /\ userRoles' = {ur \in userRoles : ur[2] # r}
  /\ rolePermissions' = [rolePermissions EXCEPT ![r] = [p \in PermissionIds |-> 0]]
  /\ UNCHANGED <<permissions, spent>>

UpdateRole(r, n) ==
  /\ Change
  /\ r \in RoleIdsNow /\ n \notin Taken
  /\ roleName' = [roleName EXCEPT ![r] = n]
  /\ UNCHANGED <<permissions, spent, rolePermissions, userRoles>>

\* One transaction: the user's rows go, the new one comes
AssignRoleToUser(u, r) ==
  /\ Change
  /\ r \in RoleIdsNow
  /\ userRoles' = {ur \in userRoles : ur[1] # u} \cup {<<u, r>>}
  /\ UNCHANGED <<roleName, permissions, spent, rolePermissions>>

CreatePermission(p) ==
  /\ Change
  /\ p \notin spent
  /\ permissions' = permissions \cup {p} /\ spent' = spent \cup {p}
  /\ UNCHANGED <<roleName, rolePermissions, userRoles>>

DeletePermissionById(p) ==
  /\ Change
  /\ p \in permissions
  /\ permissions' = permissions \ {p}
  /\ rolePermissions' = [r \in RoleIds |-> [rolePermissions[r] EXCEPT ![p] = 0]]
  /\ UNCHANGED <<roleName, spent, userRoles>>

\* No unique key: the same pair again is another row
AddPermissionToRole(r, p) ==
  /\ Change
  /\ r \in RoleIdsNow /\ p \in permissions
  /\ rolePermissions' = [rolePermissions EXCEPT ![r][p] = @ + 1]
  /\ UNCHANGED <<roleName, permissions, spent, userRoles>>

\* All rows of the pair
RemovePermissionFromRole(r, p) ==
  /\ Change
  /\ rolePermissions[r][p] > 0
  /\ rolePermissions' = [rolePermissions EXCEPT ![r][p] = 0]
  /\ UNCHANGED <<roleName, permissions, spent, userRoles>>

RoleController ==
  \/ \E r \in RoleIds, n \in Names : CreateRole(r, n) \/ UpdateRole(r, n)
  \/ \E r \in RoleIds : DeleteRoleById(r)
  \/ \E u \in Users, r \in RoleIds : AssignRoleToUser(u, r)
  \/ \E r \in RoleIds, p \in PermissionIds :
       AddPermissionToRole(r, p) \/ RemovePermissionFromRole(r, p)

\* An update of a permission changes its texts only
PermissionController ==
  \E p \in PermissionIds : CreatePermission(p) \/ DeletePermissionById(p)

TablesNext == RoleController \/ PermissionController

----------------------------------------------------------------------------
RolesOf(u) == {roleName[r] : r \in {s \in RoleIds : <<u, s>> \in userRoles}}
HasAnyRole(u, names) == names = {} \/ RolesOf(u) \cap names # {}
HasAllRoles(u, names) == names \subseteq RolesOf(u)

AllNames == Names \cup {SeedRoles[r] : r \in DOMAIN SeedRoles}

TablesTypeOK ==
  /\ roleName \in [RoleIds -> AllNames \cup {NoName, Deleted}]
  /\ permissions \subseteq spent /\ spent \subseteq PermissionIds
  /\ rolePermissions \in [RoleIds -> [PermissionIds -> Nat]]
  /\ userRoles \subseteq Users \X RoleIds
  /\ changes \in 0 .. MaxChanges

\* No row speaks of a role or a permission that is gone, so a role made anew
\* under an old name starts without permissions and without users.
NoOrphans ==
  /\ \A r \in RoleIds, p \in PermissionIds :
       rolePermissions[r][p] > 0 => r \in RoleIdsNow /\ p \in permissions
  /\ \A ur \in userRoles : ur[2] \in RoleIdsNow

=============================================================================
