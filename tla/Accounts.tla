------------------------------ MODULE Accounts ------------------------------
(***************************************************************************)
(* The AuthService: accounts and their roles, refresh tokens, password     *)
(* reset tokens, as tables that concurrent requests read and write one     *)
(* statement at a time.  Any statement may fail and ends its request.      *)
(*                                                                         *)
(* A refresh or reset token is a fresh random string, so it is identified  *)
(* with the login or forgot-password request that made it.  A password is  *)
(* identified with the request that set it.  E-mail addresses are left out *)
(* (nothing keeps them unique): a login or forgot-password is for the row  *)
(* that GetByEmail returns.  A request begins with its first statement.    *)
(***************************************************************************)
EXTENDS Integers, FiniteSets

CONSTANTS
  Requests,
  Users,           \* ids of the users table
  FirstRoles,      \* the roles of the accounts that exist at first
  RoleIds, Names,  \* rows and names of the roles table
  FirstNames,      \* its rows at first
  MaxRoleChanges,  \* bound: changes of the roles table
  NoUser, NoRequest, NoRole, NoName

ASSUME AccountsAssumption ==
  /\ DOMAIN FirstRoles \subseteq Users
  /\ FirstRoles \in [DOMAIN FirstRoles -> RoleIds]
  /\ FirstNames \in [RoleIds -> Names \cup {NoName}]
  /\ \A u \in DOMAIN FirstRoles : FirstNames[FirstRoles[u]] # NoName
  /\ {"user", "admin"} \subseteq Names
  /\ MaxRoleChanges \in Nat
  /\ NoUser \notin Users /\ NoRequest \notin Requests
  /\ NoRole \notin RoleIds /\ NoName \notin Names

VARIABLES
  accounts,   \* rows of users
  password,   \* the request that set an account's password last
  roleName,   \* the name of a row of roles, NoName without a row
  userRoles,  \* how many rows of user_roles a user has for a role
  token,      \* none, live, or gone: deleted by logout, or used by a reset
  expired,    \* reset tokens past their expires_at
  mailed,     \* reset tokens that were sent
  access,     \* the users an access token was answered for
  op, pc,     \* what a request does, and where it is
  user,       \* the account it is for
  uses,       \* the token it brings, as the request that made it
  role,       \* the id of the role it has read or was given
  changes,    \* changes of the roles table so far
  assigned,   \* history: the role of a user's last assignment, if not deleted
  wrote,      \* history: requests that have written a password
  late        \* history: resets begun after one with the same link succeeded

tables == <<accounts, password, roleName, userRoles, token>>
request == <<op, user, uses, role>>
history == <<assigned, wrote, late>>
vars == <<tables, expired, mailed, access, pc, request, changes, history>>

----------------------------------------------------------------------------
Rows == {id \in RoleIds : roleName[id] # NoName}
RoleIdsOf(u) == {id \in RoleIds : userRoles[u][id] > 0}

\* user_roles joined with roles
RoleNames(u) == {roleName[id] : id \in RoleIdsOf(u)}
HasAllRoles(u, names) == names \subseteq RoleNames(u)
HasAnyRole(u, names) == names \cap RoleNames(u) # {}

\* JWTAuthMiddleware finds both claims, id and email: only a login answers
\* access tokens, and its tokens have both
LoggedIn(u) == u \in access

Goto(r, p) == pc' = [pc EXCEPT ![r] = p]

Begin(r, kind, p) ==
  /\ pc[r] = "idle"
  /\ op' = [op EXCEPT ![r] = kind]
  /\ Goto(r, p)

Init ==
  /\ accounts = DOMAIN FirstRoles
  /\ password = [u \in Users |-> NoRequest]
  /\ roleName = FirstNames
  /\ userRoles = [u \in Users |-> [id \in RoleIds |->
       IF u \in DOMAIN FirstRoles /\ FirstRoles[u] = id THEN 1 ELSE 0]]
  /\ token = [r \in Requests |-> "none"]
  /\ expired = {} /\ mailed = {} /\ access = {}
  /\ op = [r \in Requests |-> "none"]
  /\ pc = [r \in Requests |-> "idle"]
  /\ user = [r \in Requests |-> NoUser]
  /\ uses = [r \in Requests |-> NoRequest]
  /\ role = [r \in Requests |-> NoRole]
  /\ changes = 0
  /\ assigned = [u \in Users |-> IF u \in DOMAIN FirstRoles
                                 THEN FirstRoles[u] ELSE NoRole]
  /\ wrote = {} /\ late = {}

----------------------------------------------------------------------------
(* CreateUser: three inserts without a common transaction *)

InsertUser(r, u) ==
  /\ u \notin accounts
  /\ Begin(r, "signup", "inserted")
  /\ accounts' = accounts \cup {u}
  /\ password' = [password EXCEPT ![u] = r]
  /\ user' = [user EXCEPT ![r] = u]
  /\ UNCHANGED <<roleName, userRoles, token, expired, mailed, access, uses,
                 role, changes, history>>

\* The id of the role named user, read by Create and again by CreateUser
GetRoleByName(r) ==
  /\ pc[r] \in {"inserted", "rowed"}
  /\ \E id \in Rows : /\ roleName[id] = "user"
                      /\ role' = [role EXCEPT ![r] = id]
  /\ Goto(r, IF pc[r] = "inserted" THEN "known" ELSE "assigning")
  /\ UNCHANGED <<tables, expired, mailed, access, op, user, uses, changes,
                 history>>

NoDefaultRole(r) ==
  /\ pc[r] \in {"inserted", "rowed"}
  /\ \A id \in Rows : roleName[id] # "user"
  /\ Goto(r, "failed")
  /\ UNCHANGED <<tables, expired, mailed, access, request, changes, history>>

\* The foreign key wants the role to be still there
InsertUserRole(r) ==
  /\ pc[r] = "known" /\ role[r] \in Rows
  /\ userRoles' = [userRoles EXCEPT ![user[r]][role[r]] = @ + 1]
  /\ Goto(r, "rowed")
  /\ UNCHANGED <<accounts, password, roleName, token, expired, mailed, access,
                 request, changes, history>>

\* Fault: the rows the user has are not deleted first
InsertOnly(r) ==
  /\ pc[r] = "assigning" /\ role[r] \in Rows
  /\ userRoles' = [userRoles EXCEPT ![user[r]][role[r]] = @ + 1]
  /\ assigned' = [assigned EXCEPT ![user[r]] = role[r]]
  /\ Goto(r, "done")
  /\ UNCHANGED <<accounts, password, roleName, token, expired, mailed, access,
                 request, changes, wrote, late>>

\* One transaction: DELETE of the user's rows, INSERT, COMMIT
AssignRoleToUser(r) ==
  /\ pc[r] = "assigning" /\ role[r] \in Rows
  /\ userRoles' = [userRoles EXCEPT ![user[r]] =
       [id \in RoleIds |-> IF id = role[r] THEN 1 ELSE 0]]
  /\ assigned' = [assigned EXCEPT ![user[r]] = role[r]]
  /\ Goto(r, "done")
  /\ UNCHANGED <<accounts, password, roleName, token, expired, mailed, access,
                 request, changes, wrote, late>>

\* The role was deleted: the INSERT violates the foreign key, and a
\* transaction is rolled back
RoleGone(r) ==
  /\ pc[r] \in {"known", "assigning"} /\ role[r] \notin Rows
  /\ Goto(r, "failed")
  /\ UNCHANGED <<tables, expired, mailed, access, request, changes, history>>

\* POST /roles/{userId}/assign/{roleId}, of somebody who is admin when asked
BeginAssign(r, admin, u, id) ==
  /\ LoggedIn(admin) /\ HasAllRoles(admin, {"admin"})
  /\ u \in accounts
  /\ Begin(r, "assign", "assigning")
  /\ user' = [user EXCEPT ![r] = u]
  /\ role' = [role EXCEPT ![r] = id]
  /\ UNCHANGED <<tables, expired, mailed, access, uses, changes, history>>

----------------------------------------------------------------------------
(* The roles table: POST, PUT and DELETE /roles *)

ChangeRoles ==
  /\ changes < MaxRoleChanges
  /\ changes' = changes + 1
  /\ UNCHANGED <<accounts, password, token, expired, mailed, access, pc,
                 request, wrote, late>>

\* Names are unique
CreateRole(id, name) ==
  /\ id \notin Rows /\ name \notin {roleName[i] : i \in Rows}
  /\ roleName' = [roleName EXCEPT ![id] = name]
  /\ ChangeRoles
  /\ UNCHANGED <<userRoles, assigned>>

UpdateRole(id, name) ==
  /\ id \in Rows /\ name \notin {roleName[i] : i \in Rows}
  /\ roleName' = [roleName EXCEPT ![id] = name]
  /\ ChangeRoles
  /\ UNCHANGED <<userRoles, assigned>>

\* Rows of user_roles go with it
DeleteRoleById(id) ==
  /\ id \in Rows
  /\ roleName' = [roleName EXCEPT ![id] = NoName]
  /\ userRoles' = [u \in Users |-> [userRoles[u] EXCEPT ![id] = 0]]
  /\ assigned' = [u \in Users |-> IF assigned[u] = id THEN NoRole
                                  ELSE assigned[u]]
  /\ ChangeRoles

----------------------------------------------------------------------------
(* LoginUser, RefreshAccessToken, Logout *)

\* The row is read and its password found right; a wrong one changes nothing
GetByEmail(r, u) ==
  /\ u \in accounts
  /\ Begin(r, "login", "issuing")
  /\ user' = [user EXCEPT ![r] = u]
  /\ UNCHANGED <<tables, expired, mailed, access, uses, role, changes, history>>

CreateRefreshToken(r) ==
  /\ pc[r] = "issuing"
  /\ token' = [token EXCEPT ![r] = "live"]
  /\ access' = access \cup {user[r]}
  /\ Goto(r, "done")
  /\ UNCHANGED <<accounts, password, roleName, userRoles, expired, mailed,
                 request, changes, history>>

\* Only the answer of the login hands the token out
Holds(t) == op[t] = "login" /\ pc[t] = "done"

Bring(r, t) == uses' = [uses EXCEPT ![r] = t]

GetByToken(r, t) ==
  /\ Holds(t)
  /\ Begin(r, "refresh", IF token[t] = "gone" THEN "failed" ELSE "parsing")
  /\ Bring(r, t)
  /\ UNCHANGED <<tables, expired, mailed, access, user, role, changes,
                 history>>

\* The expiry is read as a string, so a DATETIME the driver has parsed comes
\* as RFC 3339, which the layout of the handler does not parse.  Every
\* refresh ends here: the token that has expired is not deleted, and no
\* access token is ever answered.
RefreshAccessToken(r) ==
  /\ pc[r] = "parsing"
  /\ Goto(r, "failed")
  /\ UNCHANGED <<tables, expired, mailed, access, request, changes, history>>

Logout(r, t) ==
  /\ Holds(t)
  /\ Begin(r, "logout", "done")
  /\ Bring(r, t)
  /\ token' = [token EXCEPT ![t] = "gone"]
  /\ UNCHANGED <<accounts, password, roleName, userRoles, expired, mailed,
                 access, user, role, changes, history>>

----------------------------------------------------------------------------
(* ChangePassword *)

\* HasAnyRole of the middleware
BeginChange(r, u) ==
  /\ LoggedIn(u) /\ HasAnyRole(u, {"user", "admin"})
  /\ Begin(r, "change", "checking")
  /\ user' = [user EXCEPT ![r] = u]
  /\ UNCHANGED <<tables, expired, mailed, access, uses, role, changes, history>>

\* The current password was given, or not
GetPasswordByID(r) ==
  /\ pc[r] = "checking"
  /\ \E p \in {"writing", "failed"} : Goto(r, p)
  /\ UNCHANGED <<tables, expired, mailed, access, request, changes, history>>

----------------------------------------------------------------------------
(* ForgotPassword and ResetPassword *)

CreateResetToken(r, u) ==
  /\ u \in accounts
  /\ Begin(r, "forgot", "mailing")
  /\ user' = [user EXCEPT ![r] = u]
  /\ token' = [token EXCEPT ![r] = "live"]
  /\ UNCHANGED <<accounts, password, roleName, userRoles, expired, mailed,
                 access, uses, role, changes, history>>

\* The link goes to the NotificationService, whatever it answers
SendResetEmail(r) ==
  /\ pc[r] = "mailing"
  /\ mailed' = mailed \cup {r}
  /\ Goto(r, "done")
  /\ UNCHANGED <<tables, expired, access, request, changes, history>>

\* A reset with the link of t was answered with success
ResetAnswered(t) ==
  \E r \in Requests : op[r] = "reset" /\ uses[r] = t /\ pc[r] = "done"

FindValidToken(r, t) ==
  /\ t \in mailed
  /\ Begin(r, "reset", IF token[t] = "live" /\ t \notin expired
                       THEN "writing" ELSE "failed")
  /\ user' = [user EXCEPT ![r] = user[t]]
  /\ Bring(r, t)
  /\ late' = IF ResetAnswered(t) THEN late \cup {r} ELSE late
  /\ UNCHANGED <<tables, expired, mailed, access, role, changes, assigned,
                 wrote>>

\* Fault: the token is marked before the password is written
SpendFirst(r) ==
  /\ pc[r] = "writing" /\ op[r] = "reset"
  /\ token' = [token EXCEPT ![uses[r]] = "gone"]
  /\ Goto(r, "done")
  /\ UNCHANGED <<accounts, password, roleName, userRoles, expired, mailed,
                 access, request, changes, history>>

\* The last statement of a change, the second one of a reset
UpdatePasswordByID(r) ==
  /\ pc[r] = "writing"
  /\ password' = [password EXCEPT ![user[r]] = r]
  /\ wrote' = wrote \cup {r}
  /\ Goto(r, IF op[r] = "reset" THEN "spending" ELSE "done")
  /\ UNCHANGED <<accounts, roleName, userRoles, token, expired, mailed, access,
                 request, changes, assigned, late>>

\* Fault: the token is not marked
MarkNothing(r) ==
  /\ pc[r] = "spending"
  /\ Goto(r, "done")
  /\ UNCHANGED <<tables, expired, mailed, access, request, changes, history>>

MarkUsed(r) ==
  /\ pc[r] = "spending"
  /\ token' = [token EXCEPT ![uses[r]] = "gone"]
  /\ Goto(r, "done")
  /\ UNCHANGED <<accounts, password, roleName, userRoles, expired, mailed,
                 access, request, changes, history>>

----------------------------------------------------------------------------
\* Half an hour after it was made; the expiry of a refresh token is never compared
TokenExpires(t) ==
  /\ op[t] = "forgot" /\ token[t] = "live" /\ t \notin expired
  /\ expired' = expired \cup {t}
  /\ UNCHANGED <<tables, mailed, access, pc, request, changes, history>>

\* A statement, the mail or the process fails
Fail(r) ==
  /\ pc[r] \notin {"idle", "done", "failed"}
  /\ Goto(r, "failed")
  /\ UNCHANGED <<tables, expired, mailed, access, request, changes, history>>

CreateUser(r) ==
  \/ \E u \in Users : InsertUser(r, u)
  \/ GetRoleByName(r) \/ NoDefaultRole(r)
  \/ InsertUserRole(r) \/ AssignRoleToUser(r) \/ RoleGone(r)

AdminOf(r) ==
  \E admin, u \in Users, id \in RoleIds : BeginAssign(r, admin, u, id)

Roles ==
  \/ \E id \in RoleIds, name \in Names : CreateRole(id, name)
  \/ \E id \in RoleIds, name \in Names : UpdateRole(id, name)
  \/ \E id \in RoleIds : DeleteRoleById(id)

Session(r) ==
  \/ \E u \in Users : GetByEmail(r, u)
  \/ CreateRefreshToken(r)
  \/ \E t \in Requests : GetByToken(r, t)
  \/ RefreshAccessToken(r)
  \/ \E t \in Requests : Logout(r, t)

Passwords(r) ==
  \/ \E u \in Users : BeginChange(r, u)
  \/ GetPasswordByID(r)
  \/ \E u \in Users : CreateResetToken(r, u)
  \/ SendResetEmail(r)
  \/ \E t \in Requests : FindValidToken(r, t)
  \/ UpdatePasswordByID(r) \/ MarkUsed(r)

Next ==
  \/ \E r \in Requests : CreateUser(r) \/ AdminOf(r)
  \/ \E r \in Requests : Session(r) \/ Passwords(r) \/ Fail(r)
  \/ \E t \in Requests : TokenExpires(t)
  \/ Roles

Spec == Init /\ [][Next]_vars

----------------------------------------------------------------------------
TypeOK ==
  /\ accounts \subseteq Users
  /\ password \in [Users -> Requests \cup {NoRequest}]
  /\ roleName \in [RoleIds -> Names \cup {NoName}]
  /\ userRoles \in [Users -> [RoleIds -> Nat]]
  /\ token \in [Requests -> {"none", "live", "gone"}]
  /\ expired \subseteq Requests /\ mailed \subseteq Requests
  /\ access \subseteq Users
  /\ op \in [Requests -> {"none", "signup", "assign", "login", "refresh",
                          "logout", "change", "forgot", "reset"}]
  /\ pc \in [Requests -> {"idle", "done", "failed", "inserted", "known",
                          "rowed", "assigning", "issuing", "parsing",
                          "checking", "mailing", "writing", "spending"}]
  /\ user \in [Requests -> Users \cup {NoUser}]
  /\ uses \in [Requests -> Requests \cup {NoRequest}]
  /\ role \in [Requests -> RoleIds \cup {NoRole}]
  /\ changes \in 0 .. MaxRoleChanges
  /\ assigned \in [Users -> RoleIds \cup {NoRole}]
  /\ wrote \subseteq Requests /\ late \subseteq Requests

Established(u) ==
  \/ u \in DOMAIN FirstRoles
  \/ \E r \in Requests : op[r] = "signup" /\ pc[r] = "done" /\ user[r] = u

\* The role a user was assigned last is in the table until the role is deleted,
\* and once the signup is answered it is the only row the user has: neither the
\* row Create inserts nor a concurrent assignment leaves a second one.
OneRolePerAccount ==
  \A u \in accounts :
    /\ assigned[u] # NoRole => userRoles[u][assigned[u]] > 0
    /\ Established(u) =>
         userRoles[u] = [id \in RoleIds |-> IF id = assigned[u] THEN 1 ELSE 0]

\* A reset begun after another one with the same link was answered with
\* success changes no password.  A link can change the password twice only by
\* resets that overlap, or when the first one wrote it and failed to mark the
\* link as used: then the link stays live and may be followed again.
LinkIsSpent ==
  \A r \in late : op[r] = "reset" /\ pc[r] = "failed"

\* A link is spent only by a reset that has written the password: if that
\* fails, the user can try the link again.
SpentWithChange ==
  \A t \in mailed : token[t] = "gone" =>
    \E r \in wrote : op[r] = "reset" /\ uses[r] = t

=============================================================================
