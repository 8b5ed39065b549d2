--------------------------- MODULE AccountsProofs ---------------------------
(***************************************************************************)
(* What the AuthService promises of reset links and roles holds for every  *)
(* number of requests, users and roles.                                    *)
(*                                                                         *)
(* The properties speak of answered requests.  Fits says what a request on *)
(* its way can be, Tokens who may bring a token and when it is gone, and   *)
(* Signups that an account has one signup: with these they are inductive.  *)
(***************************************************************************)
EXTENDS Accounts, TLAPS

Fits ==
  \A r \in Requests :
    /\ pc[r] \in {"inserted", "known", "rowed"} => op[r] = "signup"
    /\ pc[r] = "assigning" => op[r] \in {"signup", "assign"}
    /\ pc[r] = "issuing" => op[r] = "login"
    /\ pc[r] = "parsing" => op[r] = "refresh"
    /\ pc[r] = "checking" => op[r] = "change"
    /\ pc[r] = "mailing" => op[r] = "forgot"
    /\ pc[r] = "writing" => op[r] \in {"change", "reset"}
    /\ pc[r] = "spending" => op[r] = "reset" /\ r \in wrote
    /\ pc[r] = "idle" => op[r] = "none" /\ r \notin wrote
    /\ pc[r] \in {"inserted", "known", "rowed", "assigning", "issuing",
                  "checking", "mailing", "writing", "spending"} =>
         user[r] \in Users
    /\ pc[r] \in {"known", "assigning"} => role[r] \in RoleIds

\* Who is late has failed; a token that is gone stays so
Tokens ==
  /\ \A r \in Requests :
       /\ pc[r] \in {"idle", "issuing"} => token[r] = "none"
       /\ pc[r] = "mailing" => token[r] = "live"
       /\ op[r] \in {"refresh", "logout"} =>
            uses[r] \in Requests /\ Holds(uses[r])
       /\ op[r] = "reset" => uses[r] \in mailed
       /\ op[r] \in {"logout", "reset"} /\ pc[r] = "done" =>
            token[uses[r]] = "gone"
       /\ op[r] = "login" /\ pc[r] = "done" => user[r] \in Users
  /\ \A t \in mailed : op[t] = "forgot" /\ pc[t] \in {"done", "failed"}
                       /\ user[t] \in Users
  /\ \A r \in late : op[r] = "reset" /\ pc[r] = "failed"

\* An account that exists is of the start or of one signup
Signups ==
  /\ DOMAIN FirstRoles \subseteq accounts
  /\ \A r \in Requests : op[r] = "signup" =>
       /\ user[r] \in accounts \ DOMAIN FirstRoles
       /\ \A q \in Requests : op[q] = "signup" /\ user[q] = user[r] => q = r

\* What OneRolePerAccount says, of a user who has no account yet too
RolesAgree ==
  \A u \in Users :
    /\ assigned[u] # NoRole => userRoles[u][assigned[u]] > 0
    /\ Established(u) =>
         userRoles[u] = [id \in RoleIds |-> IF id = assigned[u] THEN 1 ELSE 0]

AccInv ==
  /\ TypeOK /\ Fits /\ Tokens /\ SpentWithChange
  /\ Signups /\ RolesAgree

----------------------------------------------------------------------------
\* The invariant holds before the first request.
LEMMA AccInitially == Init => AccInv
  <1> SUFFICES ASSUME Init PROVE AccInv
    OBVIOUS
  <1> USE AccountsAssumption DEF Init
  <1>1. TypeOK
    BY DEF TypeOK
  <1>2. Fits /\ Tokens /\ SpentWithChange /\ Signups
    BY DEF Fits, Tokens, SpentWithChange, Signups
  <1>3. RolesAgree
    BY DEF RolesAgree, Established
  <1> QED
    BY <1>1, <1>2, <1>3 DEF AccInv

\* Steps that leave the roles and finish no signup.
LEMMA RolesStay ==
  ASSUME AccInv, UNCHANGED <<userRoles, assigned>>,
         \A r \in Requests : op'[r] = "signup" /\ pc'[r] = "done" =>
           op[r] = "signup" /\ pc[r] = "done" /\ user'[r] = user[r]
  PROVE  RolesAgree'
  <1>1. \A u \in Users : Established(u)' => Established(u)
    BY DEF Established
  <1> QED
    BY <1>1 DEF AccInv, RolesAgree

\* Steps that begin no signup.
LEMMA SignupsStay ==
  ASSUME AccInv, UNCHANGED accounts,
         \A r \in Requests : op'[r] = "signup" =>
           op[r] = "signup" /\ user'[r] = user[r]
  PROVE  Signups'
  BY DEF AccInv, Signups

\* Steps that spend no reset token.
LEMMA LinksStay ==
  ASSUME AccInv, UNCHANGED mailed, wrote \subseteq wrote',
         \A t \in mailed : token'[t] = "gone" => token[t] = "gone",
         \A r \in wrote : op'[r] = op[r] /\ uses'[r] = uses[r]
  PROVE  SpentWithChange'
  BY DEF AccInv, SpentWithChange

\* A request that begins has none of the marks of one under way.
LEMMA IdleIsFresh ==
  ASSUME AccInv, NEW r \in Requests, pc[r] = "idle"
  PROVE  /\ op[r] = "none" /\ token[r] = "none"
         /\ r \notin wrote /\ r \notin mailed /\ r \notin late
         /\ \A q \in Requests :
              op[q] \in {"refresh", "logout", "reset"} => uses[q] # r
  BY DEF AccInv, Fits, Tokens, Holds

\* A request fails, or its current password is found right.
Moves(r) ==
  /\ pc[r] \notin {"idle", "done", "failed"}
  /\ Goto(r, "failed") \/ (pc[r] = "checking" /\ Goto(r, "writing"))
  /\ UNCHANGED <<tables, expired, mailed, access, request, changes, history>>

\* Such a move keeps the invariant.
LEMMA MoveKeeps ==
  ASSUME AccInv, NEW r \in Requests, Moves(r)
  PROVE  AccInv'
  <1> USE AccountsAssumption
      DEF Moves, AccInv, TypeOK, Begin, Goto, tables, request, history
  <1>1. TypeOK'
    <2>1. CASE Goto(r, "failed")
      BY <2>1
    <2>2. CASE pc[r] = "checking" /\ Goto(r, "writing")
      BY <2>2
    <2> QED
      BY <2>1, <2>2
  <1>2. Fits'
    <2>1. CASE Goto(r, "failed")
      BY <2>1 DEF Fits
    <2>2. CASE pc[r] = "checking" /\ Goto(r, "writing")
      BY <2>2 DEF Fits
    <2> QED
      BY <2>1, <2>2
  <1>3. Tokens'
    BY IdleIsFresh DEF Fits, Tokens, Holds
  <1>4. SpentWithChange'
    BY IdleIsFresh, LinksStay DEF Fits, Tokens, Holds
  <1>5. Signups'
    BY IdleIsFresh, SignupsStay DEF Fits
  <1>6. RolesAgree'
    BY IdleIsFresh, RolesStay DEF Fits
  <1> QED
    BY <1>1, <1>2, <1>3, <1>4, <1>5, <1>6

\* The id of the role user is read.
LEMMA RoleReadKeeps ==
  ASSUME AccInv, NEW r \in Requests, GetRoleByName(r)
  PROVE  AccInv'
  <1> USE AccountsAssumption
      DEF AccInv, TypeOK, Begin, Goto, tables, request, history, GetRoleByName,
          Rows
  <1>1. TypeOK'
    BY DEF Fits, Tokens, Rows, Holds
  <1>2. Fits'
    BY IdleIsFresh DEF Fits, Rows, Tokens
  <1>3. Tokens'
    BY IdleIsFresh DEF Fits, Tokens, Holds
  <1>4. SpentWithChange'
    BY IdleIsFresh, LinksStay DEF Fits, Tokens, Holds
  <1>5. Signups'
    BY IdleIsFresh, SignupsStay DEF Fits
  <1>6. RolesAgree'
    BY IdleIsFresh, RolesStay DEF Fits
  <1> QED
    BY <1>1, <1>2, <1>3, <1>4, <1>5, <1>6

\* An assignment begins.
LEMMA BeginAssignKeeps ==
  ASSUME AccInv, NEW r \in Requests,
         NEW admin \in Users, NEW u \in Users, NEW id \in RoleIds,
         BeginAssign(r, admin, u, id)
  PROVE  AccInv'
  <1> USE AccountsAssumption
      DEF AccInv, TypeOK, Begin, Goto, tables, request, history, BeginAssign
  <1>1. TypeOK'
    BY DEF Fits, Tokens, Rows, Holds
  <1>2. Fits'
    BY IdleIsFresh DEF Fits, Rows, Tokens
  <1>3. Tokens'
    BY IdleIsFresh DEF Fits, Tokens, Holds
  <1>4. SpentWithChange'
    BY IdleIsFresh, LinksStay DEF Fits, Tokens, Holds
  <1>5. Signups'
    BY IdleIsFresh, SignupsStay DEF Fits
  <1>6. RolesAgree'
    BY IdleIsFresh, RolesStay DEF Fits
  <1> QED
    BY <1>1, <1>2, <1>3, <1>4, <1>5, <1>6

\* A login begins.
LEMMA LoginKeeps ==
  ASSUME AccInv, NEW r \in Requests, NEW u \in Users, GetByEmail(r, u)
  PROVE  AccInv'
  <1> USE AccountsAssumption
      DEF AccInv, TypeOK, Begin, Goto, tables, request, history, GetByEmail
  <1>1. TypeOK'
    BY DEF Fits, Tokens, Rows, Holds
  <1>2. Fits'
    BY IdleIsFresh DEF Fits, Rows, Tokens
  <1>3. Tokens'
    BY IdleIsFresh DEF Fits, Tokens, Holds
  <1>4. SpentWithChange'
    BY IdleIsFresh, LinksStay DEF Fits, Tokens, Holds
  <1>5. Signups'
    BY IdleIsFresh, SignupsStay DEF Fits
  <1>6. RolesAgree'
    BY IdleIsFresh, RolesStay DEF Fits
  <1> QED
    BY <1>1, <1>2, <1>3, <1>4, <1>5, <1>6

\* A login is answered.
LEMMA RefreshTokenKeeps ==
  ASSUME AccInv, NEW r \in Requests, CreateRefreshToken(r)
  PROVE  AccInv'
  <1> USE AccountsAssumption
      DEF AccInv, TypeOK, Begin, Goto, tables, request, history,
          CreateRefreshToken
  <1>1. TypeOK'
    BY DEF Fits, Tokens, Rows, Holds
  <1>2. Fits'
    BY IdleIsFresh DEF Fits, Rows, Tokens
  <1>3. Tokens'
    BY IdleIsFresh DEF Fits, Tokens, Holds
  <1>4. SpentWithChange'
    BY IdleIsFresh, LinksStay DEF Fits, Tokens, Holds
  <1>5. Signups'
    BY IdleIsFresh, SignupsStay DEF Fits
  <1>6. RolesAgree'
    BY IdleIsFresh, RolesStay DEF Fits
  <1> QED
    BY <1>1, <1>2, <1>3, <1>4, <1>5, <1>6

\* A refresh begins.
LEMMA BringKeeps ==
  ASSUME AccInv, NEW r \in Requests, NEW t \in Requests, GetByToken(r, t)
  PROVE  AccInv'
  <1> USE AccountsAssumption
      DEF AccInv, TypeOK, Begin, Goto, tables, request, history, GetByToken,
          Bring
  <1>1. TypeOK'
    BY DEF Fits, Tokens, Rows, Holds
  <1>2. Fits'
    BY IdleIsFresh DEF Fits, Rows, Tokens
  <1>3. Tokens'
    BY IdleIsFresh DEF Fits, Tokens, Holds
  <1>4. SpentWithChange'
    BY IdleIsFresh, LinksStay DEF Fits, Tokens, Holds
  <1>5. Signups'
    BY IdleIsFresh, SignupsStay DEF Fits
  <1>6. RolesAgree'
    BY IdleIsFresh, RolesStay DEF Fits
  <1> QED
    BY <1>1, <1>2, <1>3, <1>4, <1>5, <1>6

\* A logout.
LEMMA LogoutKeeps ==
  ASSUME AccInv, NEW r \in Requests, NEW t \in Requests, Logout(r, t)
  PROVE  AccInv'
  <1> USE AccountsAssumption
      DEF AccInv, TypeOK, Begin, Goto, tables, request, history, Logout, Bring
  <1>1. TypeOK'
    BY DEF Fits, Tokens, Rows, Holds
  <1>2. Fits'
    BY IdleIsFresh DEF Fits, Rows, Tokens
  <1>3. Tokens'
    BY IdleIsFresh DEF Fits, Tokens, Holds
  <1>4. SpentWithChange'
    BY IdleIsFresh, LinksStay DEF Fits, Tokens, Holds
  <1>5. Signups'
    BY IdleIsFresh, SignupsStay DEF Fits
  <1>6. RolesAgree'
    BY IdleIsFresh, RolesStay DEF Fits
  <1> QED
    BY <1>1, <1>2, <1>3, <1>4, <1>5, <1>6

\* A change of a password begins.
LEMMA BeginChangeKeeps ==
  ASSUME AccInv, NEW r \in Requests, NEW u \in Users, BeginChange(r, u)
  PROVE  AccInv'
  <1> USE AccountsAssumption
      DEF AccInv, TypeOK, Begin, Goto, tables, request, history, BeginChange
  <1>1. TypeOK'
    BY DEF Fits, Tokens, Rows, Holds
  <1>2. Fits'
    BY IdleIsFresh DEF Fits, Rows, Tokens
  <1>3. Tokens'
    BY IdleIsFresh DEF Fits, Tokens, Holds
  <1>4. SpentWithChange'
    BY IdleIsFresh, LinksStay DEF Fits, Tokens, Holds
  <1>5. Signups'
    BY IdleIsFresh, SignupsStay DEF Fits
  <1>6. RolesAgree'
    BY IdleIsFresh, RolesStay DEF Fits
  <1> QED
    BY <1>1, <1>2, <1>3, <1>4, <1>5, <1>6

\* A reset token is made.
LEMMA ResetTokenKeeps ==
  ASSUME AccInv, NEW r \in Requests, NEW u \in Users, CreateResetToken(r, u)
  PROVE  AccInv'
  <1> USE AccountsAssumption
      DEF AccInv, TypeOK, Begin, Goto, tables, request, history,
          CreateResetToken
  <1>1. TypeOK'
    BY DEF Fits, Tokens, Rows, Holds
  <1>2. Fits'
    BY IdleIsFresh DEF Fits, Rows, Tokens
  <1>3. Tokens'
    BY IdleIsFresh DEF Fits, Tokens, Holds
  <1>4. SpentWithChange'
    BY IdleIsFresh, LinksStay DEF Fits, Tokens, Holds
  <1>5. Signups'
    BY IdleIsFresh, SignupsStay DEF Fits
  <1>6. RolesAgree'
    BY IdleIsFresh, RolesStay DEF Fits
  <1> QED
    BY <1>1, <1>2, <1>3, <1>4, <1>5, <1>6

\* Its link is sent.
LEMMA LinkSentKeeps ==
  ASSUME AccInv, NEW r \in Requests, SendResetEmail(r)
  PROVE  AccInv'
  <1> USE AccountsAssumption
      DEF AccInv, TypeOK, Begin, Goto, tables, request, history, SendResetEmail
  <1>1. TypeOK'
    BY DEF Fits, Tokens, Rows, Holds
  <1>2. Fits'
    BY IdleIsFresh DEF Fits, Rows, Tokens
  <1>3. Tokens'
    BY IdleIsFresh DEF Fits, Tokens, Holds
  <1>4. SpentWithChange'
    BY IdleIsFresh DEF Fits, Tokens, SpentWithChange
  <1>5. Signups'
    BY IdleIsFresh, SignupsStay DEF Fits
  <1>6. RolesAgree'
    BY IdleIsFresh, RolesStay DEF Fits
  <1> QED
    BY <1>1, <1>2, <1>3, <1>4, <1>5, <1>6

\* A reset begins.
LEMMA LinkFollowedKeeps ==
  ASSUME AccInv, NEW r \in Requests, NEW t \in Requests, FindValidToken(r, t)
  PROVE  AccInv'
  <1> USE AccountsAssumption
      DEF AccInv, TypeOK, Begin, Goto, tables, request, history,
          FindValidToken, Bring, ResetAnswered
  <1>1. TypeOK'
    BY DEF Fits, Tokens, Rows, Holds
  <1>2. Fits'
    BY IdleIsFresh DEF Fits, Rows, Tokens
  <1>3. Tokens'
    BY IdleIsFresh DEF Fits, Tokens, Holds
  <1>4. SpentWithChange'
    BY IdleIsFresh, LinksStay DEF Fits, Tokens, Holds
  <1>5. Signups'
    BY IdleIsFresh, SignupsStay DEF Fits
  <1>6. RolesAgree'
    BY IdleIsFresh, RolesStay DEF Fits
  <1> QED
    BY <1>1, <1>2, <1>3, <1>4, <1>5, <1>6

\* A password is written.
LEMMA PasswordKeeps ==
  ASSUME AccInv, NEW r \in Requests, UpdatePasswordByID(r)
  PROVE  AccInv'
  <1> USE AccountsAssumption
      DEF AccInv, TypeOK, Begin, Goto, tables, request, history,
          UpdatePasswordByID
  <1>1. TypeOK'
    BY DEF Fits, Tokens, Rows, Holds
  <1>2. Fits'
    BY IdleIsFresh DEF Fits, Rows, Tokens
  <1>3. Tokens'
    BY IdleIsFresh DEF Fits, Tokens, Holds
  <1>4. SpentWithChange'
    BY IdleIsFresh, LinksStay DEF Fits, Tokens, Holds
  <1>5. Signups'
    BY IdleIsFresh, SignupsStay DEF Fits
  <1>6. RolesAgree'
    BY IdleIsFresh, RolesStay DEF Fits
  <1> QED
    BY <1>1, <1>2, <1>3, <1>4, <1>5, <1>6

\* A link is spent.
LEMMA SpentKeeps ==
  ASSUME AccInv, NEW r \in Requests, MarkUsed(r)
  PROVE  AccInv'
  <1> USE AccountsAssumption
      DEF AccInv, TypeOK, Begin, Goto, tables, request, history, MarkUsed
  <1>1. TypeOK'
    BY DEF Fits, Tokens, Rows, Holds
  <1>2. Fits'
    BY IdleIsFresh DEF Fits, Rows, Tokens
  <1>3. Tokens'
    BY IdleIsFresh DEF Fits, Tokens, Holds
  <1>4. SpentWithChange'
    BY IdleIsFresh DEF Fits, Tokens, SpentWithChange
  <1>5. Signups'
    BY IdleIsFresh, SignupsStay DEF Fits
  <1>6. RolesAgree'
    BY IdleIsFresh, RolesStay DEF Fits
  <1> QED
    BY <1>1, <1>2, <1>3, <1>4, <1>5, <1>6

\* A token expires.
LEMMA ExpiryKeeps ==
  ASSUME AccInv, NEW r \in Requests, TokenExpires(r)
  PROVE  AccInv'
  <1> USE AccountsAssumption
      DEF AccInv, TypeOK, Begin, Goto, tables, request, history, TokenExpires
  <1>1. TypeOK'
    BY DEF Fits, Tokens, Rows, Holds
  <1>2. Fits'
    BY IdleIsFresh DEF Fits, Rows, Tokens
  <1>3. Tokens'
    BY IdleIsFresh DEF Fits, Tokens, Holds
  <1>4. SpentWithChange'
    BY IdleIsFresh, LinksStay DEF Fits, Tokens, Holds
  <1>5. Signups'
    BY IdleIsFresh, SignupsStay DEF Fits
  <1>6. RolesAgree'
    BY IdleIsFresh, RolesStay DEF Fits
  <1> QED
    BY <1>1, <1>2, <1>3, <1>4, <1>5, <1>6

\* A signup begins.
LEMMA SignupKeeps ==
  ASSUME AccInv, NEW r \in Requests, NEW u \in Users, InsertUser(r, u)
  PROVE  AccInv'
  <1> USE AccountsAssumption
      DEF AccInv, TypeOK, Begin, Goto, tables, request, history, InsertUser
  <1>1. TypeOK'
    BY DEF Fits, Tokens, Rows, Holds
  <1>2. Fits'
    BY IdleIsFresh DEF Fits, Rows, Tokens
  <1>3. Tokens'
    BY IdleIsFresh DEF Fits, Tokens, Holds
  <1>4. SpentWithChange'
    BY IdleIsFresh, LinksStay DEF Fits, Tokens, Holds
  <1>5. Signups'
    <2>1. \A q \in Requests :
            op[q] = "signup" => user[q] # u /\ user[q] # NoUser
      BY AccountsAssumption DEF Signups
    <2>2. \A q \in Requests \ {r} : op'[q] = op[q] /\ user'[q] = user[q]
      OBVIOUS
    <2>3. user'[r] = u
      OBVIOUS
    <2>4. accounts' = accounts \cup {u} /\ u \notin DOMAIN FirstRoles
      BY DEF Signups
    <2> HIDE DEF InsertUser, TypeOK, Begin
    <2> QED
      BY <2>1, <2>2, <2>3, <2>4 DEF Signups
  <1>6. RolesAgree'
    BY IdleIsFresh, RolesStay DEF Fits
  <1> QED
    BY <1>1, <1>2, <1>3, <1>4, <1>5, <1>6

\* The first row of the signup.
LEMMA FirstRowKeeps ==
  ASSUME AccInv, NEW r \in Requests, InsertUserRole(r)
  PROVE  AccInv'
  <1> USE AccountsAssumption
      DEF AccInv, TypeOK, Begin, Goto, tables, request, history, InsertUserRole
  <1>1. TypeOK'
    BY DEF Fits, Tokens, Rows, Holds
  <1>2. Fits'
    BY IdleIsFresh DEF Fits, Rows, Tokens
  <1>3. Tokens'
    BY IdleIsFresh DEF Fits, Tokens, Holds
  <1>4. SpentWithChange'
    BY IdleIsFresh, LinksStay DEF Fits, Tokens, Holds
  <1>5. Signups'
    BY IdleIsFresh, SignupsStay DEF Fits
  <1>6. RolesAgree'
    <2>1. user[r] \in Users /\ role[r] \in RoleIds /\ op[r] = "signup"
      BY DEF Fits
    <2>2. ~ Established(user[r])
      BY <2>1 DEF Signups, Established
    <2>3. \A u \in Users : Established(u)' => Established(u)
      BY <2>1 DEF Established
    <2>4. \A u \in Users \ {user[r]} : userRoles'[u] = userRoles[u]
      OBVIOUS
    <2>5. \A id \in RoleIds : userRoles[user[r]][id] > 0 =>
                               userRoles'[user[r]][id] > 0
      BY <2>1
    <2>6. /\ \A u \in Users : assigned[u] \in RoleIds \cup {NoRole}
          /\ assigned' = assigned
      OBVIOUS
    <2> HIDE DEF InsertUserRole, TypeOK
    <2>7. \A u \in Users :
            assigned[u] # NoRole => userRoles'[u][assigned[u]] > 0
      BY <2>1, <2>4, <2>5, <2>6 DEF RolesAgree
    <2>8. \A u \in Users : Established(u)' => userRoles'[u] = userRoles[u]
      BY <2>2, <2>3, <2>4
    <2> QED
      BY <2>3, <2>6, <2>7, <2>8 DEF RolesAgree
  <1> QED
    BY <1>1, <1>2, <1>3, <1>4, <1>5, <1>6

\* The transaction of a role, which ends a signup.
LEMMA AssignedKeeps ==
  ASSUME AccInv, NEW r \in Requests, AssignRoleToUser(r)
  PROVE  AccInv'
  <1> USE AccountsAssumption
      DEF AccInv, TypeOK, Begin, Goto, tables, request, history,
          AssignRoleToUser
  <1>1. TypeOK'
    BY DEF Fits, Tokens, Rows, Holds
  <1>2. Fits'
    BY IdleIsFresh DEF Fits, Rows, Tokens
  <1>3. Tokens'
    BY IdleIsFresh DEF Fits, Tokens, Holds
  <1>4. SpentWithChange'
    BY IdleIsFresh, LinksStay DEF Fits, Tokens, Holds
  <1>5. Signups'
    BY IdleIsFresh, SignupsStay DEF Fits
  <1>6. RolesAgree'
    <2>1. user[r] \in Users /\ role[r] \in RoleIds /\ user' = user
      BY DEF Fits
    <2>2. \A u \in Users : Established(u)' => Established(u) \/ u = user[r]
      BY DEF Established
    <2>3. \A u \in Users \ {user[r]} : /\ userRoles'[u] = userRoles[u]
                                      /\ assigned'[u] = assigned[u]
      OBVIOUS
    <2>4. /\ assigned'[user[r]] = role[r]
          /\ userRoles'[user[r]] =
               [id \in RoleIds |-> IF id = role[r] THEN 1 ELSE 0]
      BY <2>1
    <2> HIDE DEF AssignRoleToUser, TypeOK
    <2> QED
      BY <2>1, <2>2, <2>3, <2>4 DEF RolesAgree
  <1> QED
    BY <1>1, <1>2, <1>3, <1>4, <1>5, <1>6

\* A change of the roles table: the rows of a deleted role go with it.
LEMMA RoleChangeKeeps ==
  ASSUME AccInv, Roles
  PROVE  AccInv'
  <1> USE DEF ChangeRoles
  <1>1. UNCHANGED <<accounts, password, token, expired, mailed, access, pc,
                    request, wrote, late>>
    BY DEF Roles, CreateRole, UpdateRole, DeleteRoleById
  <1>2. /\ roleName' \in [RoleIds -> Names \cup {NoName}]
        /\ changes' \in 0 .. MaxRoleChanges
    <2>1. ChangeRoles
      BY DEF Roles, CreateRole, UpdateRole, DeleteRoleById
    <2>2. changes' \in 0 .. MaxRoleChanges
      BY <2>1, AccountsAssumption DEF AccInv, TypeOK
    <2>3. \E id \in RoleIds, name \in Names \cup {NoName} :
            roleName' = [roleName EXCEPT ![id] = name]
      BY DEF Roles, CreateRole, UpdateRole, DeleteRoleById
    <2>4. roleName' \in [RoleIds -> Names \cup {NoName}]
      BY <2>3 DEF AccInv, TypeOK
    <2> QED
      BY <2>2, <2>4
  <1>3. /\ userRoles' \in [Users -> [RoleIds -> Nat]]
        /\ assigned' \in [Users -> RoleIds \cup {NoRole}]
        /\ RolesAgree'
    <2>1. CASE UNCHANGED <<userRoles, assigned>>
      BY <1>1, <2>1 DEF AccInv, TypeOK, RolesAgree, Established, request
    <2>2. CASE \E id \in RoleIds : DeleteRoleById(id)
      <3>1. PICK id \in RoleIds : DeleteRoleById(id)
        BY <2>2
      <3>2. \A u \in Users : userRoles[u] \in [RoleIds -> Nat]
        BY DEF AccInv, TypeOK
      <3>3. /\ userRoles' \in [Users -> [RoleIds -> Nat]]
            /\ assigned' \in [Users -> RoleIds \cup {NoRole}]
        BY <3>1, <3>2 DEF AccInv, TypeOK, DeleteRoleById
      <3>4. \A u \in Users : Established(u)' => Established(u)
        BY <1>1 DEF Established, request
      <3>5. \A u \in Users :
              /\ userRoles'[u] = [userRoles[u] EXCEPT ![id] = 0]
              /\ assigned'[u] = IF assigned[u] = id THEN NoRole ELSE assigned[u]
        BY <3>1 DEF DeleteRoleById
      <3>6. \A u \in Users :
              assigned'[u] # NoRole => userRoles'[u][assigned'[u]] > 0
        <4> SUFFICES ASSUME NEW u \in Users, assigned'[u] # NoRole
                     PROVE  userRoles'[u][assigned'[u]] > 0
          OBVIOUS
        <4>1. assigned[u] # id /\ assigned'[u] = assigned[u]
          BY <3>5
        <4>2. assigned[u] \in RoleIds /\ userRoles[u][assigned[u]] > 0
          BY <4>1 DEF AccInv, TypeOK, RolesAgree
        <4>3. userRoles'[u][assigned[u]] = userRoles[u][assigned[u]]
          BY <3>2, <3>5, <4>1, <4>2
        <4> QED
          BY <4>1, <4>2, <4>3
      <3>7. ASSUME NEW u \in Users, Established(u)
            PROVE  userRoles'[u] =
                     [i \in RoleIds |-> IF i = assigned'[u] THEN 1 ELSE 0]
        <4>1. userRoles[u] =
                [i \in RoleIds |-> IF i = assigned[u] THEN 1 ELSE 0]
          BY <3>7 DEF AccInv, RolesAgree
        <4>2. userRoles'[u] = [i \in RoleIds |->
                IF i = id THEN 0 ELSE IF i = assigned[u] THEN 1 ELSE 0]
          BY <3>5, <4>1
        <4>3. assigned'[u] = IF assigned[u] = id THEN NoRole ELSE assigned[u]
          BY <3>5
        <4> QED
          BY <4>2, <4>3, AccountsAssumption
      <3>8. RolesAgree'
        BY <3>4, <3>6, <3>7 DEF RolesAgree
      <3> QED
        BY <3>3, <3>8
    <2> QED
      BY <2>1, <2>2 DEF Roles, CreateRole, UpdateRole
  <1>4. TypeOK'
    BY <1>1, <1>2, <1>3 DEF AccInv, TypeOK, request
  <1>5. Fits' /\ Tokens' /\ SpentWithChange' /\ Signups'
    BY <1>1 DEF AccInv, Fits, Tokens, Holds, SpentWithChange, Signups, request
  <1> QED
    BY <1>3, <1>4, <1>5 DEF AccInv

\* Every step keeps the invariant.
LEMMA AccInductive ==
  ASSUME AccInv, [Next]_vars
  PROVE  AccInv'
  <1>1. CASE UNCHANGED vars
    BY <1>1 DEF AccInv, TypeOK, Fits, Tokens, Holds, SpentWithChange, Signups,
                RolesAgree, Established, vars, tables, request, history
  <1>2. ASSUME NEW r \in Requests, CreateUser(r) \/ AdminOf(r)
        PROVE  AccInv'
    <2>1. ASSUME NoDefaultRole(r) \/ RoleGone(r) PROVE AccInv'
      <3>1. Moves(r)
        BY <2>1 DEF NoDefaultRole, RoleGone, Moves
      <3> QED
        BY <3>1, MoveKeeps
    <2> QED
      BY <1>2, <2>1, SignupKeeps, RoleReadKeeps, FirstRowKeeps, AssignedKeeps,
         BeginAssignKeeps DEF CreateUser, AdminOf
  <1>3. ASSUME NEW r \in Requests, Session(r)
        PROVE  AccInv'
    <2>1. ASSUME RefreshAccessToken(r) PROVE AccInv'
      <3>1. Moves(r)
        BY <2>1 DEF RefreshAccessToken, Moves
      <3> QED
        BY <3>1, MoveKeeps
    <2> QED
      BY <1>3, <2>1, LoginKeeps, RefreshTokenKeeps, BringKeeps, LogoutKeeps
         DEF Session
  <1>4. ASSUME NEW r \in Requests, Passwords(r)
        PROVE  AccInv'
    <2>1. ASSUME GetPasswordByID(r) PROVE AccInv'
      <3>1. Moves(r)
        BY <2>1 DEF GetPasswordByID, Moves
      <3> QED
        BY <3>1, MoveKeeps
    <2> QED
      BY <1>4, <2>1, BeginChangeKeeps, ResetTokenKeeps, LinkSentKeeps,
         LinkFollowedKeeps, PasswordKeeps, SpentKeeps DEF Passwords
  <1>5. ASSUME NEW r \in Requests, Fail(r)
        PROVE  AccInv'
    <2>1. Moves(r)
      BY <1>5 DEF Fail, Moves
    <2> QED
      BY <2>1, MoveKeeps
  <1> QED
    BY <1>1, <1>2, <1>3, <1>4, <1>5, ExpiryKeeps, RoleChangeKeeps DEF Next

\* The invariant holds in every behaviour.
THEOREM AccountsStaySound == Spec => []AccInv
  BY AccInitially, AccInductive, PTL DEF Spec

\* The tables, the requests and the histories keep their types.
THEOREM AccountTypes == Spec => []TypeOK
  <1>1. AccInv => TypeOK
    BY DEF AccInv
  <1> QED
    BY <1>1, AccountsStaySound, PTL

\* A reset begun after one with the same link was answered with success fails.
THEOREM LinkSpent == Spec => []LinkIsSpent
  <1>1. AccInv => LinkIsSpent
    BY DEF AccInv, Tokens, LinkIsSpent
  <1> QED
    BY <1>1, AccountsStaySound, PTL

\* A link is not spent unless the password was written.
THEOREM SpendsWithChange == Spec => []SpentWithChange
  <1>1. AccInv => SpentWithChange
    BY DEF AccInv
  <1> QED
    BY <1>1, AccountsStaySound, PTL

\* An account whose signup is answered has the one role assigned to it last,
\* and no role once that one is deleted.
THEOREM OneRole == Spec => []OneRolePerAccount
  <1>1. AccInv => OneRolePerAccount
    BY DEF AccInv, TypeOK, RolesAgree, OneRolePerAccount
  <1> QED
    BY <1>1, AccountsStaySound, PTL

=============================================================================
