--------------------------- MODULE GatewayProofs ---------------------------
(***************************************************************************)
(* What the gateway promises holds for every number of requests, services, *)
(* users, roles and permissions.                                           *)
(*                                                                         *)
(* OnlyWithRole is not inductive: it says nothing of a request that is     *)
(* still on its way.  Vetted does, from the moment its user is known.      *)
(* Probed says the same of a probe whose pings are not all in.             *)
(***************************************************************************)
EXTENDS Gateway, TLAPS

\* Where a service may work on a request
AtService == {"forwarding", "awaiting", "502"}

Vetted ==
  /\ \A k \in Requests :
       /\ pc[k] \in {"connecting", "checking"} /\ MayAsk(by[k], ask[k])
            => k \in held
       /\ pc[k] \in AtService => k \in held
  /\ handled \subseteq held

Probed ==
  \A k \in Requests :
    /\ pc[k] # "probing" => ping[k] = NoPings
    /\ pc[k] = "probing" =>
         \A s \in Services : ping[k][s] = "up" => s \in seenUp[k]
    /\ pc[k] = "healthy" => seenUp[k] = Services

Places == Answers \cup {"idle", "routed", "connecting", "checking",
                        "forwarding", "awaiting", "copying", "probing"}

----------------------------------------------------------------------------
(* The tables *)

\* Every row of the migration has its role and its permission.
LEMMA TablesInitially == RolesInit => TablesTypeOK /\ NoOrphans
  <1> SUFFICES ASSUME RolesInit PROVE TablesTypeOK /\ NoOrphans
    OBVIOUS
  <1>1. \A r \in DOMAIN SeedRoles : r \in RoleIdsNow
    BY TablesAssumption DEF RolesInit, RoleIdsNow
  <1>2. TablesTypeOK
    BY TablesAssumption DEF RolesInit, TablesTypeOK, AllNames
  <1>3. NoOrphans
    BY <1>1, TablesAssumption DEF RolesInit, NoOrphans
  <1> QED
    BY <1>2, <1>3

\* The handlers of roles and permissions keep the types and leave no row
\* behind.
LEMMA TablesKept ==
  ASSUME TablesTypeOK, NoOrphans, TablesNext
  PROVE  TablesTypeOK' /\ NoOrphans'
  <1> USE TablesAssumption
      DEF TablesTypeOK, NoOrphans, RoleIdsNow, Change, AllNames
  <1>1. ASSUME NEW r \in RoleIds, NEW n \in Names, CreateRole(r, n)
        PROVE  TablesTypeOK' /\ NoOrphans'
    BY <1>1 DEF CreateRole
  <1>2. ASSUME NEW r \in RoleIds, NEW n \in Names, UpdateRole(r, n)
        PROVE  TablesTypeOK' /\ NoOrphans'
    BY <1>2 DEF UpdateRole
  <1>3. ASSUME NEW r \in RoleIds, DeleteRoleById(r)
        PROVE  TablesTypeOK' /\ NoOrphans'
    BY <1>3 DEF DeleteRoleById
  <1>4. ASSUME NEW u \in Users, NEW r \in RoleIds, AssignRoleToUser(u, r)
        PROVE  TablesTypeOK' /\ NoOrphans'
    BY <1>4 DEF AssignRoleToUser
  <1>5. ASSUME NEW r \in RoleIds, NEW p \in PermissionIds,
               AddPermissionToRole(r, p)
        PROVE  TablesTypeOK' /\ NoOrphans'
    BY <1>5 DEF AddPermissionToRole
  <1>6. ASSUME NEW r \in RoleIds, NEW p \in PermissionIds,
               RemovePermissionFromRole(r, p)
        PROVE  TablesTypeOK' /\ NoOrphans'
    BY <1>6 DEF RemovePermissionFromRole
  <1>7. ASSUME NEW p \in PermissionIds, CreatePermission(p)
        PROVE  TablesTypeOK' /\ NoOrphans'
    BY <1>7 DEF CreatePermission
  <1>8. ASSUME NEW p \in PermissionIds, DeletePermissionById(p)
        PROVE  TablesTypeOK' /\ NoOrphans'
    BY <1>8 DEF DeletePermissionById
  <1> QED
    BY <1>1, <1>2, <1>3, <1>4, <1>5, <1>6, <1>7, <1>8
    DEF TablesNext, RoleController, PermissionController

----------------------------------------------------------------------------
(* Types *)

\* Types hold at the start, whatever the migration brings.
LEMMA TypesInitially == Init => TypeOK
  BY TablesInitially, GatewayAssumption DEF Init, TypeOK, NoPings, Answers

\* A step of a request keeps the types of the gateway.
LEMMA GateTypes ==
  ASSUME TypeOK, GateNext
  PROVE  /\ pc' \in [Requests -> Places]
         /\ ask' \in [Requests -> Services \cup {Health}]
         /\ by' \in [Requests -> Users \cup {NoUser}]
         /\ up' \subseteq Services /\ handled' \subseteq Requests
         /\ ping' \in [Requests -> [Services -> {"none", "up", "down"}]]
  <1> USE DEF TypeOK, Answers, Goto, AnswerHere
  <1>1. ASSUME NEW k \in Requests, NEW s \in Services, PingService(k, s)
        PROVE  ping' \in [Requests -> [Services -> {"none", "up", "down"}]]
    BY <1>1 DEF PingService
  <1>2. ASSUME NEW k \in Requests, Handle(k)
        PROVE  ping' \in [Requests -> [Services -> {"none", "up", "down"}]]
    <2>2. CASE \E s \in Services : PingService(k, s)
      BY <1>1, <2>2
    <2>3. CASE ping' = ping
      BY <2>3
    <2>1. CASE GatewayHealthHandler(k)
      <3>1. NoPings \in [Services -> {"none", "up", "down"}]
        BY DEF NoPings
      <3>2. ping' = [ping EXCEPT ![k] = NoPings]
        BY <2>1 DEF GatewayHealthHandler
      <3> QED
        BY <3>1, <3>2
    <2> QED
      BY <1>2, <2>1, <2>2, <2>3
      DEF Handle, Route, TooManyRequests, CorsMiddleware, JWTAuthMiddleware,
          SetupDB, CheckRoles, ProxyRefused, ProxyWrites, ProxyFails,
          ProxyAnswers, ProxyCopies, ProxyMoves, StartPings
  <1>3. ASSUME NEW k \in Requests, Handle(k)
        PROVE  /\ pc' = pc \/ \E p \in Places : Goto(k, p)
               /\ ask' = ask \/ \E s \in Services \cup {Health} :
                                 ask' = [ask EXCEPT ![k] = s]
               /\ by' = by \/ \E u \in Users \cup {NoUser} :
                               by' = [by EXCEPT ![k] = u]
               /\ up' = up /\ handled' = handled
    <2> DEFINE Here == /\ \E p \in Places : Goto(k, p)
                       /\ ask' = [ask EXCEPT ![k] = Health]
                       /\ by' = [by EXCEPT ![k] = NoUser]
    <2>1. AnswerHere(k) => Here
      BY DEF AnswerHere, Places, Answers
    <2>2. CASE \/ TooManyRequests(k) \/ CorsMiddleware(k)
               \/ JWTAuthMiddleware(k) \/ SetupDB(k) \/ CheckRoles(k)
      BY <2>1, <2>2
      DEF TooManyRequests, CorsMiddleware, JWTAuthMiddleware, SetupDB,
          CheckRoles, Places, Answers
    <2>3. CASE \E s \in Services \cup {Health} : Route(k, s)
      BY <2>3 DEF Route, Places
    <2>5. CASE ProxyRefused(k)
      BY <2>1, <2>5 DEF ProxyRefused
    <2>4. CASE \/ ProxyWrites(k) \/ ProxyFails(k) \/ ProxyAnswers(k)
               \/ ProxyCopies(k) \/ StartPings(k)
               \/ GatewayHealthHandler(k) \/ \E s \in Services : PingService(k, s)
      BY <2>4
      DEF ProxyRefused, ProxyWrites, ProxyFails,
          ProxyAnswers, ProxyCopies, ProxyMoves, StartPings, GatewayHealthHandler,
          PingService, Places, Answers
    <2> QED
      BY <1>3, <2>2, <2>3, <2>4, <2>5 DEF Handle
  <1>4. ASSUME NEW k \in Requests, Handle(k)
        PROVE  /\ pc' \in [Requests -> Places]
               /\ ask' \in [Requests -> Services \cup {Health}]
               /\ by' \in [Requests -> Users \cup {NoUser}]
               /\ up' \subseteq Services /\ handled' \subseteq Requests
    <2>1. pc' \in [Requests -> Places]
      BY <1>3, <1>4 DEF Places
    <2>2. ask' \in [Requests -> Services \cup {Health}]
      BY <1>3, <1>4
    <2>3. by' \in [Requests -> Users \cup {NoUser}]
      BY <1>3, <1>4
    <2> QED
      BY <2>1, <2>2, <2>3, <1>3, <1>4
  <1> QED
    BY <1>2, <1>4 DEF GateNext, Places, Serve, ServiceMoves

\* Every step keeps the types, and the tables keep their references.
LEMMA TypesKept ==
  ASSUME TypeOK, NoOrphans, [Next]_vars
  PROVE  TypeOK' /\ NoOrphans'
  <1>1. CASE UNCHANGED vars
    BY <1>1 DEF vars, tables, gate, TypeOK, TablesTypeOK, NoOrphans, RoleIdsNow
  <1>2. CASE TablesNext /\ UNCHANGED gate /\ Watch
    BY <1>2, TablesKept DEF TypeOK, gate, Watch
  <1>3. CASE GateNext /\ UNCHANGED tables /\ Watch
    <2>1. TablesTypeOK' /\ NoOrphans'
      BY <1>3 DEF tables, TypeOK, TablesTypeOK, NoOrphans, RoleIdsNow
    <2>2. held' \subseteq Requests /\ seenUp' \in [Requests -> SUBSET Services]
      BY <1>3, GateTypes DEF Watch, TypeOK
    <2> QED
      BY <2>1, <2>2, <1>3, GateTypes DEF TypeOK, Places
  <1> QED
    BY <1>1, <1>2, <1>3 DEF Next

\* Every variable keeps its type, and no row outlives what it speaks of.
THEOREM GatewayTypes == Spec => [](TypeOK /\ NoOrphans)
  <1>1. Init => TypeOK /\ NoOrphans
    BY TypesInitially, TablesInitially DEF Init
  <1> QED
    BY <1>1, TypesKept, PTL DEF Spec

\* Who the route asks for, once known, is watched until the answer.
LEMMA VettedKept ==
  ASSUME TypeOK, Vetted, [Next]_vars
  PROVE  Vetted'
  <1> USE DEF AtService
  <1>1. CASE UNCHANGED vars
    BY <1>1 DEF vars, tables, gate, Vetted, MayAsk, HasAnyRole, HasAllRoles,
                RolesOf
  <1>2. CASE Next
    <2>1. held \subseteq held'
      BY <1>2 DEF Next, Watch
    <2>2. ASSUME NEW k \in Requests, pc'[k] \in {"connecting", "checking"},
                 MayAsk(by[k], ask[k])'
          PROVE  k \in held'
      BY <1>2, <2>2 DEF Next, Watch
    <2>3. ASSUME NEW k \in Requests, pc'[k] \in AtService
          PROVE  \/ pc[k] \in AtService
                 \/ pc[k] = "checking" /\ MayAsk(by[k], ask[k])
      <3>1. CASE UNCHANGED gate
        BY <3>1, <2>3 DEF gate
      <3>2. ASSUME NEW j \in Requests, Handle(j)
            PROVE  \/ pc[k] \in AtService
                   \/ pc[k] = "checking" /\ MayAsk(by[k], ask[k])
        BY <3>2, <2>3
        DEF TypeOK, Handle, Route, TooManyRequests, CorsMiddleware,
            JWTAuthMiddleware, SetupDB, CheckRoles, ProxyRefused, ProxyWrites,
            ProxyFails, ProxyAnswers, ProxyCopies, ProxyMoves, StartPings, GatewayHealthHandler, PingService, Goto, AnswerHere
      <3> QED
        BY <1>2, <2>3, <3>1, <3>2 DEF Next, GateNext, Serve, ServiceMoves
    <2>4. handled' \subseteq
            handled \cup {k \in Requests : pc[k] \in AtService}
      BY <1>2
      DEF Next, gate, GateNext, Serve, ServiceMoves, Handle, Route,
          TooManyRequests, CorsMiddleware, JWTAuthMiddleware, SetupDB,
          CheckRoles, ProxyRefused, ProxyWrites, ProxyFails,
          ProxyAnswers, ProxyCopies, ProxyMoves, StartPings,
          GatewayHealthHandler, PingService
    <2> QED
      BY <2>1, <2>2, <2>3, <2>4 DEF Vetted
  <1> QED
    BY <1>1, <1>2

\* A probe counts a service as up only after it was.
LEMMA ProbedKept ==
  ASSUME TypeOK, Probed, [Next]_vars
  PROVE  Probed'
  <1>1. CASE UNCHANGED vars
    BY <1>1 DEF vars, gate, Probed, NoPings
  <1>2. ASSUME NEW j \in Requests, Handle(j), Watch
        PROVE  Probed'
    <2>1. CASE \E s \in Services : PingService(j, s)
      <3>1. PICK s \in Services : PingService(j, s)
        BY <2>1
      <3> QED
        BY <1>2, <3>1 DEF TypeOK, Probed, PingService, Watch, NoPings
    <2>2. CASE StartPings(j)
      BY <1>2, <2>2 DEF TypeOK, Probed, StartPings, Goto, Watch, NoPings
    <2>3. CASE GatewayHealthHandler(j)
      <3>1. pc[j] = "probing" /\ ping' = [ping EXCEPT ![j] = NoPings]
        BY <2>3 DEF GatewayHealthHandler
      <3>2. ASSUME pc'[j] = "healthy"
            PROVE  seenUp[j] = Services
        <4>1. \A s \in Services : ping[j][s] = "up"
          BY <3>2, <2>3 DEF TypeOK, GatewayHealthHandler, Goto
        <4>2. pc[j] = "probing"
          BY <2>3 DEF GatewayHealthHandler
        <4>3. seenUp[j] \subseteq Services
          BY DEF TypeOK
        <4> QED
          BY <4>1, <4>2, <4>3 DEF Probed
      <3>3. pc'[j] \in {"healthy", "degraded"} /\ \A k \in Requests \ {j} : pc'[k] = pc[k]
        BY <2>3 DEF TypeOK, GatewayHealthHandler, Goto
      <3>4. up' = up
        BY <2>3 DEF GatewayHealthHandler
      <3> QED
        BY <1>2, <3>1, <3>2, <3>3, <3>4 DEF TypeOK, Probed, Watch
    <2>4. CASE ~ ((\E s \in Services : PingService(j, s)) \/ StartPings(j)
                  \/ GatewayHealthHandler(j))
      <3> DEFINE Away == pc[j] \notin {"probing", "healthy"}
                 Left == \E p : p \notin {"probing", "healthy"} /\ Goto(j, p)
                 Same == ping' = ping /\ up' = up
      <3>b. AnswerHere(j) => Left
        BY DEF AnswerHere
      <3>c. ASSUME \/ TooManyRequests(j) \/ CorsMiddleware(j)
                   \/ JWTAuthMiddleware(j) \/ SetupDB(j) \/ CheckRoles(j)
            PROVE  Away /\ Left /\ Same
        BY <3>b, <3>c
        DEF TooManyRequests, CorsMiddleware, JWTAuthMiddleware, SetupDB,
            CheckRoles
      <3>d. ASSUME \/ \E s \in Services \cup {Health} : Route(j, s)
                   \/ ProxyRefused(j) \/ ProxyWrites(j) \/ ProxyFails(j)
                   \/ ProxyAnswers(j) \/ ProxyCopies(j)
            PROVE  Away /\ Left /\ Same
        BY <3>b, <3>d
        DEF Route, ProxyRefused, ProxyWrites, ProxyFails, ProxyAnswers,
            ProxyCopies, ProxyMoves
      <3>a. Away /\ Left /\ Same
        BY <1>2, <2>4, <3>c, <3>d DEF Handle
      <3>1. /\ pc[j] \notin {"probing", "healthy"}
            /\ pc'[j] \notin {"probing", "healthy"}
            /\ \A k \in Requests \ {j} : pc'[k] = pc[k]
            /\ ping' = ping /\ up' = up
        BY <3>a DEF TypeOK, Goto
      <3> QED
        BY <1>2, <3>1 DEF Probed, Watch, NoPings
    <2> QED
      BY <2>1, <2>2, <2>3, <2>4
  <1>3. ASSUME pc' = pc, ping' = ping, Watch
        PROVE  Probed'
    BY <1>3 DEF Probed, Watch, NoPings
  <1> QED
    BY <1>1, <1>2, <1>3 DEF Next, GateNext, Serve, ServiceMoves, gate

\* A token does not outlive its user's role, a failed check lets nobody in.
THEOREM RoleNeeded == Spec => []OnlyWithRole
  <1>1. Init => Vetted
    BY DEF Init, Vetted, AtService
  <1>2. Vetted => OnlyWithRole
    BY DEF Vetted, OnlyWithRole
  <1> QED
    BY <1>1, <1>2, VettedKept, GatewayTypes, PTL DEF Spec

\* Healthy means that each service was up some time during the probe.
THEOREM HealthIsTold == Spec => []HealthyWasUp
  <1>1. Init => Probed
    BY DEF Init, Probed
  <1>2. Probed => HealthyWasUp
    BY DEF Probed, HealthyWasUp
  <1> QED
    BY <1>1, <1>2, ProbedKept, GatewayTypes, PTL DEF Spec

\* A role made anew under an old name starts without permissions and users.
THEOREM ReferencesHold == Spec => []NoOrphans
  BY GatewayTypes, PTL

=============================================================================
